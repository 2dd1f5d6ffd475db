SPECIFICATION Spec
CONSTANTS
    Type = {"A"}
    Content = {x}
    Priority = {}
    Comment = {note}
    NoComment = NoComment
    RecordId = {r1}
    ZoneId = {z1}
    Call = {c1}
    Args <- AddComment
    MaxEdits = 2
    Absent = Absent
INVARIANTS
    BeforeReverts
CHECK_DEADLOCK FALSE
