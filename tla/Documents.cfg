SPECIFICATION DocumentsSpec
CONSTANTS
    Files = {f1, f2}
    Contents = {c1, c2}
    Rows = {i1, i2, i3}
    Uploads = {u1}
    Purges = {p1, p2}
    NoRow = NoRow
    NoFile = NoFile
    NoContent = NoContent
SYMMETRY Symmetry
INVARIANTS
    CurrentHasBytes
    ChangesAreRebuilt
    ErasedIsGone
CHECK_DEADLOCK FALSE
