\* A file is opened once more before the sync has taken it.
SPECIFICATION Spec
CONSTANTS
    a = a
    b = b
    t = t
    h1 = h1
    h2 = h2
    Name = {a}
    Temp = {}
    Handle = {h1, h2}
    Calls = {"reopen"}
    MaxFile = 2
    MaxText = 2
    MaxDoc = 3
CHECK_DEADLOCK FALSE
INVARIANT
    SavedTextIsKept
