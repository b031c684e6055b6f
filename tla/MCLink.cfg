SPECIFICATION Spec
CONSTANTS
    Addrs = {a1}
    Phones = {p1, p2}
    Texts <- MCTexts
    MAX_PAYLOAD = 65535
    MAX_NAME = 255
    Absent = Absent
    MAX_CLIPBOARD_REPLY_BYTES = 4
    MaxSends = 4
    MaxKeys = 2
SYMMETRY Symmetry
INVARIANTS
    AnswerIsNotOld
    EndedHearsNothing
PROPERTIES
    ReadAsMeant
CHECK_DEADLOCK FALSE
