\* Folders: three, two documents, two requests at a time, three in all.  Notes: three, two
\* users, two requests.  The drive: one call that reads, one that renames, one change by the
\* web API or the drive at any time between their steps.  Numbers: two rows, two requests,
\* two start-ups, one number set by hand.  Sessions: three tokens, a request and a logout, time
\* for the longest token to expire.  A search: two documents, two words, one change.
SPECIFICATION WorkspaceSpec
CONSTANTS
    f1 = f1
    f2 = f2
    f3 = f3
    d1 = d1
    d2 = d2
    FolderIds = {f1, f2, f3}
    Docs = {d1, d2}
    Names = {"a", "b"}
    Slots = {s1, s2}
    Root = Root
    Unused = Unused
    Gone = Gone
    Same = Same
    MaxRequests = 3
    Title <- MCTitle
    n1 = n1
    n2 = n2
    n3 = n3
    u1 = u1
    u2 = u2
    u3 = u3
    NoteIds = {n1, n2, n3}
    NoteUsers = {u1, u2, u3}
    Reads <- MCReads
    Writes <- MCWrites
    TitleRank <- MCTitleRank
    Top = Top
    NoteSlots = {1, 2}
    Lo <- MCLo
    Hi = 2
    Positions = {0, 1, 2}
    MaxNoteRequests = 2
    dirA = dirA
    dirB = dirB
    Dirs = {dirA, dirB}
    Nowhere = Nowhere
    DocRows <- MCRows
    Users <- MCUsers
    Readers = {r1}
    Writers = {w1}
    CacheTTL = 1
    InfoTTL = 1
    LoadMax = 1
    MaxTime = 3
    MaxChanges = 2
    Accounts = {a1, a2}
    Givers = {g1, g2}
    Starters = {p1, p2}
    NoStarter = NoStarter
    Tries = 2
    LastId = 2
    MaxHand = 1
    Holders = {h1}
    Keys = {k1}
    Requests = {c1}
    Logouts = {c2}
    LastToken = 3
    AccessLife = 1
    RefreshLife = 2
    Margin = 1
    NoHolder = NoHolder
    MaxTick = 3
    MaxUserEdits = 1
    MaxRedisFaults = 1
    w1 = w1
    w2 = w2
    Candidates = {e1, e2}
    Words = {w1, w2}
    MetaOrder <- MCOrder
    Scale = 3782
    MaxEdits = 1
\* Requests, calls and clock ticks are bounded: nothing is left to do at the end.
CHECK_DEADLOCK FALSE
INVARIANTS
    WorkspaceTypeOK
    LiveIsFoundAndRead
    NotesAreATree
    PlacesAreRight
    DriveShowsTheTruth
    NumbersAreRight
    ShutOutStaysOut
    PageIsRight
PROPERTIES
    DeleteTakesTheSubtree
    SequenceNeverFalls
SYMMETRY Symmetry
