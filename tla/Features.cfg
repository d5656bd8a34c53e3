SPECIFICATION Spec
CONSTANTS
  Files <- TheFiles
  Fragments <- ThePieces
  Beginnings <- TheBeginnings
  TargetsOf <- TheTargets
  NewName = "new"
  MaxWrites = 1
  TabSize = 2
  InsertSpaces = TRUE
  LineLength = 9
  Lowered <- TheLowered
  CompletionLimit = 2
  Languages <- TheLanguages
  ComponentDatabase <- TheComponents
  Installed <- TheInstalled
INVARIANTS
  CompletionIsComplete
  PositionsAreShared
  AccessorsFitGrammar
  ReferencesAgree
  OutlineAgreesWithLabels
  SymbolsInReadingOrder
  ErrorsAreReported
PROPERTIES
  RenameIsComplete
  FormattingKeepsMeaning
  AcceptedIsDefined
CHECK_DEADLOCK FALSE
