SPECIFICATION Spec
INVARIANT OwnSlices
CHECK_DEADLOCK FALSE
