CONSTANTS
  None = None
  Blank = Blank
  Registries <- SomeRegistries
  Secrets = {None, 31, 32}
  Ports = {None, 0, 65535, 65536}
SPECIFICATION StartupSpec
INVARIANTS
  ServesWhatIsDeclared
  StopsAtFirstFault
CHECK_DEADLOCK FALSE
