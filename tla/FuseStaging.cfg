\* Two names and a temporary one, and every call at any time.
SPECIFICATION Spec
CONSTANTS
    a = a
    b = b
    t = t
    h1 = h1
    h2 = h2
    Name = {a, b, t}
    Temp = {t}
    Handle = {h1, h2}
    Calls = {"reopen", "rename", "replace", "hide", "unlink", "remove_user"}
    MaxFile = 2
    MaxText = 2
    MaxDoc = 2
\* The calls are bounded: nothing is left to do at the end.
SYMMETRY Symmetry
CHECK_DEADLOCK FALSE
INVARIANTS
    TypeOK
    SmoothTextIsKept
    LiveDocHasFile
    SearchSeesLastText
    NothingStaysStaged
