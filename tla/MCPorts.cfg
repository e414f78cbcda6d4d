CONSTANTS
    Reader = {r1, r2, r3}
    Message = {a, b}
    NoMessage = NoMessage
    Thread <- QueueThread
    Role <- QueueRole
    SIZE = 2
    post1 = post1   post2 = post2   device = device
    fetch1 = fetch1 fetch2 = fetch2 fetch3 = fetch3
    packets = packets serial = serial
SPECIFICATION AnySpec
PROPERTY ImplementsSlot
PROPERTY QueueIsChannel
PROPERTY DeviceIsSlot
PROPERTY EveryoneServed
PROPERTY ThreadsStoppable
PROPERTY HostDevice
