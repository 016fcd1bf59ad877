\* The account changes between the three listings of a check.
SPECIFICATION Spec
CONSTANT Scenes <- RaceScenes
INVARIANT FlaggedWasIdle
CHECK_DEADLOCK FALSE
