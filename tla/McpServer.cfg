\* Two lines of a client beside a scan of the operator to the same file.
SPECIFICATION FairSpec
CONSTANTS
  None = None
  Lines <- MCLines
  MaxLines = 2
  MaxScans = 1
  Scans <- MCScans
  Results <- MCResults
  Files <- MCFiles
  Callers <- MCCallers
  Registry <- MCRegistry
  Fates <- MCFates
INVARIANTS
  TypeOK
  SameFigures
  PlansAccountForReport
  NoFalseAllClear
  EveryCheckShown
 
\* The client and the operator come to an end.
CHECK_DEADLOCK FALSE
