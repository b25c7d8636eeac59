\* Studies saved before arms had a condition id.
SPECIFICATION Spec
CONSTANTS
    None = None
    NoName = NoName
INVARIANTS
    ArmsKeptApart
\* The analysis is run once.
CHECK_DEADLOCK FALSE
