\* Rounds of scan and clean over accounts that change meanwhile.
SPECIFICATION FairSpec
CONSTANT Scenes <- MCScenes
INVARIANTS
  TypeOK
  SteadyUseIsSeen
  SteadyWasteIsFound
  ChecksDoNotOverlap
  
PROPERTIES
  YoungImagesKept
  Converges
\* The operator stops.
CHECK_DEADLOCK FALSE
