SPECIFICATION Spec
CONSTANTS
    Readers = {r1, r2}
    Segments = 2
    Large = {}
    EarlyReply = FALSE
INVARIANT RecycledUnread
