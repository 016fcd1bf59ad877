\* What plan_cleanup shows, beside what clean --from shows.
SPECIFICATION Spec
CONSTANTS
  None = None
  Lines <- PlanLines
  MaxLines = 2
  MaxScans = 0
  Scans <- MCScans
  Results <- MCResults
  Files <- MCFiles
  Callers <- MCCallers
  Registry <- MCRegistry
  Fates <- MCFates
INVARIANT PlansWhatCleanWould
CHECK_DEADLOCK FALSE
