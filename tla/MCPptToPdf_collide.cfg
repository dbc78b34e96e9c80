\* deck.ppt and deck.pptx in one directory, uninterrupted.
SPECIFICATION PptSpec
CONSTANTS
    Files = {pptx, ppt}
    pptx = pptx
    ppt = ppt
    Pdfs = {p, q}
    Order <- MCOrder
    MaxRestarts = 0
    Absent = Absent
    Empty = Empty
    Other = Other
INVARIANT RemovedHasItsPdf
CHECK_DEADLOCK FALSE
