SPECIFICATION Spec
CONSTANTS
  Sessions = {"s1"}
  Tools <- MCTools
  SecretTexts <- MCSecretTexts
  ResultTexts <- MCResultTexts
  ArgTexts <- MCArgTexts
  VaultAuthorize = {"send_message"}
  JSONEscaped <- MCEscaped
  Armour <- MCArmour
  LowEntropy <- MCLowEntropy
  ChunkMatchBytes = 1
  ChunkMatchMinLen = 3
  Configs <- MCConfigs
  Mode = "block"
  SensorMode = FALSE
  MaxSessions = 1
  MaxTainted = 2
  MaxTaintedBytes = 4
  MaxExcerpts = 1
  MaxExcerptLen = 2
  FragmentMaxChunks = 2
  FragmentMaxBytes = 3
  ContentBindMinLen = 2
  MaxEvents = 4
  MaxTime = 2
  ToolTags <- MCToolTags
  ServerTags <- MCServerTags
  InheritSinkSuspicion = FALSE
  SinkAllowlist = {}
INVARIANT TaintRemembered
INVARIANT NoSilentExfil
INVARIANT SplitSecretObserved
INVARIANT VaultHidesSecrets
PROPERTY LegsFreshWhenTouched
