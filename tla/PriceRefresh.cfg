\* Refreshes without end, two of them cut short.
SPECIFICATION Spec
CONSTANTS
  None = None
  Scenes <- MCScenes
  MaxFaults = 2
INVARIANTS
  TypeOK
  RatesKept
  
