CONSTANTS
  Names <- MCNames
  BadNames <- MCBadNames
  Dirs <- MCDirs
  SiblingFile <- MCSiblingFile
  Inputs <- MCInputs
  InfraNames <- MCInfraNames
  InfraImages <- MCInfraImages
  IgnoredDirs <- MCIgnoredDirs
  NamePrefixes <- MCNamePrefixes
  EnvVar <- MCEnvVar
  Writers <- MCWriters
  NoEnv = NoEnv
  NoTemplate = NoTemplate
SPECIFICATION ConfigSpec
CHECK_DEADLOCK FALSE
INVARIANTS
    StartedInOrder
    PlanIsTheFile
    CheckAgrees
    ScanComesUp
    EnvIsMerged
