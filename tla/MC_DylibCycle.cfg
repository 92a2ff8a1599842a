CONSTANTS
  FileSystems <- CycleFileSystems
  Roots <- MCRoots
  Cwd <- MCCwd
  TopLibs <- MCTopLibs
  DeadStripDylibs = TRUE
  NoFile = NoFile

INIT Init
NEXT Next

\* The driver goes on to resolution once every dylib is created.
CHECK_DEADLOCK FALSE

INVARIANT
  NoUnboundedRecursion
