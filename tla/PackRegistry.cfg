\* Discovering again and again, beside every kind of installed pack.
SPECIFICATION FairSpec
CONSTANTS
  Module <- MCModule
  Body <- MCBody
  Builtins <- MCBuiltins
  Installations <- MCInstallations
  Disablings <- MCDisablings
  Importable <- MCImportable
INVARIANTS
  TypeOK
  ModulesComplete
  BuiltinsLoad
  EveryPackReported
  AttributedHonestly
  DiscoveryRepeats
PROPERTY DiscoveryEnds
