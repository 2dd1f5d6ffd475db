SPECIFICATION Spec
CONSTANTS
    Alphabet <- Tokens
    MaxLen <- Lengths
    Denied <- DeniedName
INVARIANTS
    ListsExactly
    HostsExactly
    BearersExactly
    PathsPinned
CHECK_DEADLOCK FALSE
