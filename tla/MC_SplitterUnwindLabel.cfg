CONSTANTS
  SectTabs <- MCSectTabs
  SymTabs <- UnwindLabelSymTabs

INIT Init
NEXT Next

\* Parsing an object ends; relocation parsing is not modelled.
CHECK_DEADLOCK FALSE

INVARIANT LocalSubsecCorrect
