CONSTANTS
  SectTabs <- MCSectTabs
  SymTabs <- MCSymTabs
  EntryTabs <- MCEntryTabs
  RelocTabs <- MCRelocTabs

INIT UInit
NEXT UNext

\* parse ends with the compact-unwind records; what follows is another file.
CHECK_DEADLOCK FALSE

INVARIANT
  PersonalityLocalDefined
