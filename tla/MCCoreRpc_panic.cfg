CONSTANTS
    Calls = {c1, c2, c3}
    Unbounded = {c3}
    None = None
SPECIFICATION Spec
\* All calls may have returned.
CHECK_DEADLOCK FALSE
INVARIANT ReaderNeverPanics
