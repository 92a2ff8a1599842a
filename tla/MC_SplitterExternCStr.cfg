CONSTANTS
  SectTabs <- MCSectTabs
  SymTabs <- ExternCStrSymTabs

INIT Init
NEXT Next

\* Parsing an object ends; relocation parsing is not modelled.
CHECK_DEADLOCK FALSE

INVARIANT ExternSubsecSet
