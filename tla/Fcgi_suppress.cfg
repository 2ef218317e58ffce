SPECIFICATION Spec
INVARIANTS OurCloseIsSuppressed
CHECK_DEADLOCK FALSE
