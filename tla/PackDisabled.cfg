\* Other code imports lightsail, which --disable-pack then names.
SPECIFICATION Spec
CONSTANTS
  Module <- MCModule
  Body <- MCBody
  Builtins <- MCBuiltins
  Installations <- OnlyGood
  Disablings <- WithoutLightsail
  Importable <- MCImportable
INVARIANT DisabledContributesNothing
