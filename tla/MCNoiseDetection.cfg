SPECIFICATION FairSpec
CONSTANTS
  rules_ <- TwoRules
  MaxFiles = 3
INVARIANTS TypeOK KeptWhileDue OneRecording
PROPERTY ListensAgain
