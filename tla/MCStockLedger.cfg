SPECIFICATION Spec
CONSTANTS
    front = front
    back = back
    kIn = kIn
    kOut = kOut
    kRev = kRev
    kRev2 = kRev2
    kMove = kMove
    in1 = in1
    out1 = out1
    out2 = out2
    out3 = out3
    rev1 = rev1
    rev2 = rev2
    move1 = move1
    None = None
    Key <- KeyOfRequest
    Command <- CommandOfRequest
    Cells = {front, back}
    LotCells = {front}
    Lenient = {front, back}
    Keys = {kIn, kOut, kMove, kRev, kRev2}
    Requests = {in1, out1, out2, move1, rev1, rev2}
    Atomic = {move1, rev1, rev2}
    Holds = {1}
INVARIANTS Reconciled StockCovers ReversalCancels OneRow
PROPERTY HonoursBook
CHECK_DEADLOCK FALSE
