SPECIFICATION FairSpec
CONSTANTS
  Null = Null  Blank = Blank  Absent = Absent  Fraction = Fraction
  tabA = tabA  tabB = tabB  conn1 = conn1  conn2 = conn2
  word = word  someText = someText  zone = zone
  Tabs = {tabA, tabB}
  Connections = {conn1, conn2}
  MaxRuns = 3
  Flows <- FlowNames
  Statuses = {"Received", "Scheduled", "Failed"}
  Words = {word}
  NewRows <- Records
  Filters <- Boxes
  Texts <- SomeTexts
  DefaultTimezone = zone
  Numbers <- SomeNumbers
  MaxInt = 10
  PageSize = 1
  Edits <- SomeEdits
  Inputs <- AllInputs
  Scenarios <- Everything
INVARIANTS
  TypeOK
  ButtonsTellTheTruth
  DeletedNotListed
  NoneMissed
  ShownAsAsked
PROPERTIES
  SaveKeepsUntouched
  PagesSettle
