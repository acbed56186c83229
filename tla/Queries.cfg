SPECIFICATION Spec
CONSTANTS
  Rows <- RowsMC
  Column <- ColumnMC
  Texts <- TextsMC
  Lower <- LowerMC
  Upper <- UpperMC
  Before <- BeforeMC
  Spelled <- SpelledMC
  Params <- ParamsMC
  Searches <- SearchesMC
  DefaultLimit = 2
  MaxLimit = 4
  ListAllRowCap = 4
  MaxInt = 31
  Bad = Bad
  None = None
INVARIANTS TypeOK LinksLeadThroughTheList PagesAreFull KeysTellApart
CHECK_DEADLOCK FALSE
