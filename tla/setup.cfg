SPECIFICATION LiveSpec
CONSTANTS
  Documents <- SmallDocuments
  Texts <- SmallTexts
  Commands = {c1}
  MaxCrashes = 1
INVARIANTS
  TypeOK
  SettingsKept
  FilesAgree
  
  EditIsExact
PROPERTIES
  SetupAnswers
