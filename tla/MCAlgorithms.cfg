SPECIFICATION Spec
CONSTANTS
  Digits <- MCDigits
  Convertible <- MCConvertible
  Urls <- MCUrls
  Geometries <- MCGeometries
  RuleFiles <- MCRuleFiles
  Modules = {"A", "B"}
  UserFiles <- MCUserFiles
  InfoFile <- VideoInfo
  Recordings <- MCRecordings
  FRAMES_PER_BUFFER = 2
  Cuts <- MCCuts
INVARIANTS AllOrNothing RulesAgree DefaultsSuffice RoutesPartition WavReads
CHECK_DEADLOCK FALSE
