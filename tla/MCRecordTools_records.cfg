SPECIFICATION Spec
CONSTANTS
    Type = {"A", "MX"}
    Content = {x}
    Priority = {0}
    Comment = {note}
    NoComment = NoComment
    RecordId = {r1, r2}
    ZoneId = {z1, z2}
    Call = {c1, c2}
    Args <- SomeFields
    MaxEdits = 1
    Absent = Absent
SYMMETRY Symmetry
INVARIANTS
    WritesOnce
    SnapshotsUndo
    AskedForIsValid
CHECK_DEADLOCK FALSE
