CONSTANTS
  SectTabs <- MCSectTabs
  SymTabs <- MCSymTabs

INIT Init
NEXT Next

\* Parsing an object ends; relocation parsing is not modelled.
CHECK_DEADLOCK FALSE

INVARIANTS
  TypeOK
  SubsecCover
  SymToSubsecContains
  LocalSubsecCorrect
  FindAgrees
