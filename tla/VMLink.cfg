\* Three modules, two indices, two global registers each.
SPECIFICATION Spec
CONSTANTS
  NumModules = 3
  Programs <- MCPrograms
  NONE = NONE
INVARIANTS
  TypeOK
  RejectedIfUnlinkable
  CallsWhatIsExposed
  SharedByIndex
  FreedOnce
