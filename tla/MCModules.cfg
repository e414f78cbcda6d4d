CONSTANTS
    Capacity = 3
    T = {p1, p2, p3}
    None = none
    NUM_OBJECTS = 4
    maxSize = 1
    Var = {v1, v2}
    Res = {r1, r2}
    Fun = {f1, f2}
    Temp = temp
    Buffer = {b1, b2, b3}
    RxRingCapacity = 2
    TxRingCapacity = 2
    RxDoneCapacity = 2
    TxDoneCapacity = 3
    MaxSize = 2
    MaxBytes = 4
SPECIFICATION AnySpec
CHECK_DEADLOCK FALSE
INVARIANT RoomForNext
INVARIANT OwnersKnown
INVARIANT UartSafe
INVARIANT StackDelivers
PROPERTY ImplementsChannel
PROPERTY Served
