SPECIFICATION Spec
CONSTANTS
  Sessions = {s1, s2, s3}
  Tools <- StoreTools
  SecretTexts <- StoreSecretTexts
  ResultTexts <- StoreResultTexts
  ArgTexts <- StoreArgTexts
  VaultAuthorize = {"send_message"}
  JSONEscaped <- MCEscaped
  Armour <- MCArmour
  LowEntropy <- MCLowEntropy
  ChunkMatchBytes = 1
  ChunkMatchMinLen = 3
  Configs <- StoreConfigs
  Mode = "monitor"
  SensorMode = TRUE
  MaxSessions = 2
  MaxTainted = 2
  MaxTaintedBytes = 4
  MaxExcerpts = 1
  MaxExcerptLen = 2
  FragmentMaxChunks = 2
  FragmentMaxBytes = 3
  ContentBindMinLen = 2
  MaxEvents = 3
  MaxTime = 2
  ToolTags <- MCToolTags
  ServerTags <- MCServerTags
  InheritSinkSuspicion = TRUE
  SinkAllowlist = {}
INVARIANT ExfilJustified
INVARIANT NoSilentExfil
PROPERTY EvictionSparesTaint
SYMMETRY SessionSymmetry
