------------------------------- MODULE Tagger -------------------------------
(***************************************************************************)
(* Tool classification (engine/tagger.go): which tools are sensitive       *)
(* sources and which are external sinks.  A tool is a record               *)
(* [name, server]; the tables come from the configuration file.            *)
(***************************************************************************)
CONSTANTS
  ToolTags,               \* tool_tags: a function from some tool names to sets of tags
  ServerTags,             \* provides_tags: a function from some server ids to sets of tags
  InheritSinkSuspicion,   \* server_defaults.inherit_sink_suspicion
  SinkAllowlist           \* server_defaults.sink_suspicion_allowlist

(* A per-tool entry, even an empty one, shadows the server's tags.         *)
TagsFor(tool) ==
  IF tool.name \in DOMAIN ToolTags THEN ToolTags[tool.name]
  ELSE IF tool.server \in DOMAIN ServerTags THEN ServerTags[tool.server]
  ELSE {}

IsSensitiveSource(tool) == "sensitive_source" \in TagsFor(tool)

ServerIsSensitiveSource(server) ==
  server \in DOMAIN ServerTags /\ "sensitive_source" \in ServerTags[server]

IsExternalSink(tool) ==
  \/ "external_sink" \in TagsFor(tool)
  \/ /\ InheritSinkSuspicion
     /\ tool.name \notin SinkAllowlist
     /\ ServerIsSensitiveSource(tool.server)
=============================================================================
