\* A pack that replaces lightsail's check, while lightsail is disabled.
SPECIFICATION Spec
CONSTANTS
  Module <- MCModule
  Body <- MCBody
  Builtins <- MCBuiltins
  Installations <- OnlyClash
  Disablings <- WithoutLightsail
  Importable <- NoneImportable
INVARIANT BuiltinsStand
