\* Two presentations whose PDFs may have one name, one interruption.
SPECIFICATION FairPptSpec
CONSTANTS
    Files = {pptx, ppt}
    pptx = pptx
    ppt = ppt
    Pdfs = {p, q}
    Order <- MCOrder
    MaxRestarts = 1
    Absent = Absent
    Empty = Empty
    Other = Other
INVARIANT NothingLost
PROPERTY ReachesSummary
CHECK_DEADLOCK FALSE
