CONSTANTS
    Client = {c1, c2}
    None = None
    Scenes = {{"sftp"}, {"http"}, {"socket"}, {"sftp", "http"}}
    Path = {a, b}
    MaxUploads = 2
    Inode = {i1, i2, i3, i4}
    Line = {l1, l2}
SYMMETRY Symmetry
SPECIFICATION Spec
INVARIANTS TypeOK RefreshesApart TornIsKnown OneFile Heard
\* Every browser may be gone, and every line displayed.
CHECK_DEADLOCK FALSE
