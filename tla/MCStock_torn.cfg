SPECIFICATION Spec
CONSTANTS
    front = front
    back = back
    kIn = kIn
    kOut = kOut
    kRev = kRev
    kRev2 = kRev2
    kMove = kMove
    in1 = in1
    out1 = out1
    out2 = out2
    out3 = out3
    rev1 = rev1
    rev2 = rev2
    move1 = move1
    None = None
    Key <- KeyOfRequest
    Command <- CommandOfRequest
    Cells = {front, back}
    LotCells = {front}
    Lenient = {front, back}
    Keys = {kIn, kOut, kMove, kRev}
    Requests = {in1, out1, out2, out3, move1, rev1}
    Atomic = {move1, rev1}
    Holds = {1}
INVARIANTS EveryReversalCancels AppliedOnceEach OneRowEach
CHECK_DEADLOCK FALSE
