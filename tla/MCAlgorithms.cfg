SPECIFICATION Spec
INVARIANTS
  BitsKept
  ParsersAgree
  CollectionsAgree
  NumbersExact
CHECK_DEADLOCK FALSE
