CONSTANTS
  SectTabs <- MCSectTabs
  SymTabs <- AnyOrderSymTabs

INIT Init
NEXT Next

\* Parsing an object ends; relocation parsing is not modelled.
CHECK_DEADLOCK FALSE

INVARIANT SubsecCover
