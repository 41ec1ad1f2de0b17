SPECIFICATION Spec
CONSTANTS
    Readers = {r1, r2}
    Segments = 2
    Large = {2}
    EarlyReply = TRUE
INVARIANTS TypeOK ReadersSeePrefix EndMeansAll SlotsInRange
PROPERTY ReadersProceed
