# Spacket in TLA+

Spacket is a C++ library for packet communication over UARTs on ChibiOS (and,
for testing, Linux). It exists in two generations in one repository.

* The second generation (`src/common/include/spacket`, used by
  `examples/sbus2pwm`) has no threads but the main loop: drivers keep rings of
  buffers that interrupt handlers fill and drain, and modules run as deferred
  procedures out of the ring of one executor. Everything lives in pools of fixed
  size.
* The first generation (`lib`, used by the firmwares of `v1/tests`) has a thread
  per layer (serial device, packet device, multiplexer), with one-slot mailboxes
  between them.

This directory models both generations: of the second, everything from the ring
of buffers up to a whole firmware; of the first, the mailboxes, the threads and
the serial devices of both ports, the decoders, and the packet device with the
multiplexer on top. Most of the safety properties are proved as well, for all
values of the constants; section Proofs says which, and from what.

## Components

| component | state | operations | what makes it correct |
|---|---|---|---|
| `SpecialRingT` (special_ring.h) | array of Capacity+1 slots, indices empty, full, point | put, get, point, advancePoint | a bounded FIFO of two stages; indices keep their order as they wrap |
| `Uart2T` (uart2.h, driver.h) | receive and transmit rings, states of the HAL's driver | start, serviceRx, rx, serviceTx, tx, poll; interrupt callbacks rxEnd, rxIdle, rxError, txEnd1 | DMA only touches the buffer at the point; no buffer lost or owned twice; no accepted buffer waits at an idle transmitter; received sizes are right |
| `RingT`, `ExecutorT` (ring.h, executor.h) | bounded queue of procedures | defer, executeOne | a deferred procedure finds a place and none is lost, but for one poll (see Runs) |
| `BottomModule`, `Module` (bottom_module.h, module.h) | at most one pending read and one pending write | poll, completeRead, completeWrite, read, write | polled for ever; acts only on events that still hold; completes each read once |
| `sbus::Decoder` (sbus_decoder.h) | the pending read | read, readCompleted, decode | one read at a time; every packet, valid or not, completes it |
| sbus2pwm (main.cpp, constants.h, typedefs.h) | read loop, three pools | startRead, its completion, main loop | the loop never ends; no pool is exhausted (that would halt the firmware) |
| pools, `FunctionT`, `BufferT`, `Result` | free lists, pointers to blocks, `isOk_` | allocate, deallocate, create, move, swap, release | every block is free or has one owner, whatever is moved and whatever fails |
| unfinished modules: packetizer_module, cobs_module, crc_module, multistack, endpoint (on stack.h) | gathered frame, slots, pending read | up, down, push, read | packets reach the endpoint they were written for, in order and once |
| `UartT` (uart.h), superseded by uart2.h | request rings, the client's completion queues | start, stop, requests, interrupt callbacks | no buffer lost; a request is completed or given back by stop |
| `Mailbox`, `QueueT` (lib, both ports) | messages, waiting readers and writers | post, fetch, replace | no lost wake-up, no lost message but the replaced one |
| `Thread` (both ports) | stop flag, pointers to it, storage of the thread | create, move, requestStop, wait, shouldStop | a request reaches a live thread, and the thread ends; storage is used again only then |
| `SerialDevice` (ChibiOS) | DMA buffer, static mailbox and thread references, read thread | open, read, write, stop; rxIdle, rxCompleted, txend2 | close returns; no buffer in two places; a write that returns ok has sent |
| `SerialDevice` (Linux) | file descriptor | read, write | no byte lost, repeated or reordered; a read ends |
| `PacketDecodeFSM`, `Packetizer`, `readPacket`, packetizer thread | decoder state, bytes so far, suffix | consume, readPacket | decodes what COBS stuffing encodes, whatever the chunks; recovers after errors as long as the buffer has room |
| `PacketDevice`, `Multiplexer` | threads, stop flags, mailboxes, buffers in hand | read, write, destruction | a channel gets its own packets, whole and in order; shutdown ends |
| COBS, CRC | the CRC unit's register | stuff, unstuff, append, check | unstuff inverts stuff; the unit's words and the correction give the remainder |

In sbus2pwm the parts interact as follows. Interrupt handlers of a UART move the
points of the driver's two rings. `BottomModule::poll`, a procedure that defers
itself again at its end, asks the driver what happened, returns used transmit
buffers to the pool, refills the receive ring, and completes a pending read or
write by deferring its completion. The decoder's completion allocates a decoded
packet and defers the application's completion, which writes a line of text to
the other UART and starts the next read.

What is hard here: interrupt handlers between any two critical sections of the
driver; `poll()` without a lock; procedures that act on events reported before
they changed the rings themselves; loops that restart themselves and that
nothing restarts when they are lost; three pools that must not run dry at the
peak of any procedure. In the first generation: timeouts that race with
messages, a `replace` of two critical sections, shutdown, and a byte-wise decoder
that must recover after errors, which it does until its buffer is full. `PROJECT.json` lists each at its line.

## Modules

* **StagedQueue** is the abstract specification: a FIFO whose elements wait, are
  finished in order, and are taken in order, at most Capacity at a time.
* **SpecialRing** is `SpecialRingT`. Operators on a record (`put`, `get`, `point`,
  `advancePoint`, ...) are the methods; a small machine uses one ring in any
  legal order of calls. `ImplementsStagedQueue` maps the slots from fullIdx to
  pointIdx to `ready` and from pointIdx to emptyIdx to `queued`. A slot whose
  element was moved away is a `Hole`.
* **SpecialRing_proofs** proves it for every capacity and element set.
* **Uart2** is `Uart2T` with two instances of `SpecialRing`. A step of the thread is
  one critical section (or one unlocked access); `pc` says where in a call it is.
  A step of an interrupt handler is the whole handler, which holds the lock. The
  client is arbitrary: it may call anything that is legal at any time. `poll`
  reads `rxRing.canGet()` in one step and the rest in another; more steps would
  show nothing new, because handlers write only the two point indices and each
  of those is read by one of the tests. `serviceRx` is the steps `serviceRx` (the
  first test), `rxCreate`, `rxPut` (the turns of allocateRx) and `startRx`;
  `serviceTx` is `serviceTx`, `deallocateTx`, `startTx`; `tx` is `txCall`, `startTx`.
  The HAL is external: `StartReceive`, `StartSend` and `RxByte` are what the driver
  relies on. Where the HAL calls back with its state COMPLETE the handler's entry
  state is a parameter, and a state the handler did not change becomes IDLE.
* **Uart2_proofs** proves every safety property of `Uart2`, and the refinement of
  StagedQueue by both rings, for any number of buffers, capacities and buffer
  sizes.
* **Sbus2Pwm** is the firmware: executor, two BottomModules, decoder, application.
  A procedure runs in steps, one per access to a driver, so that interrupt
  handlers fall in between: `write` is poll() and tx() of BottomModule::write with
  the completion that is deferred, and `writeServiceTx` its serviceTx(), by when the
  line may have been sent. (poll() needs no step of its own there: no interrupt
  after it changes whether the ring has room.) The rings of the drivers are counters (ready, waiting,
  sent), which is what the module's code can see of them. How much of a pool is
  in use follows from which objects exist (`FuncsUsed`, `BuffersUsed`,
  `TxtBuffersUsed`), and `Peak` is what the coming step needs at its worst moment,
  before the temporaries of the code are destroyed. Because the firmware is
  built with SPACKET_STATIC_POOL_ALLOCATOR_ALL_ERRORS_FATAL, an allocation that
  fails stops it: the model need not go on after that, and the invariants say
  that it is never reached.
* **Ring** is `RingT` and **Executor** is `ExecutorT` on it; a procedure that runs may
  defer another.
* **Ownership** is the free list of `StaticPoolAllocatorT` and the objects that hold
  its blocks. A step is one statement of a client, composed of `new`, `move` and
  `drop` as the constructors, assignments and destructors compose them; the block
  of a closure holds the buffer the closure captured.
* **Uart** is the earlier driver. Its base class Driver no longer exists.
* **Modules_proofs** proves the safety of these three: Executor with its refinement
  of Channel, Ownership and Uart.
* **SbusPacket** is the decoding of a frame to channels, the arithmetic from a
  channel to a pulse width, and the length of the line of text; its frames are a
  constant. **Sbus2Pwm_proofs** proves the safety of the firmware, for pools and
  rings of all sizes that suffice, and what SbusPacket does to every frame.
* **Channel**, **Slot** and **Stoppable** are abstract specifications: a bounded FIFO, one
  slot whose message a replace exchanges in one step, and a thread that is
  created, asked to stop, returns and is waited for.
* **Mailbox** is `QueueT` and `MailboxImplT` of the ChibiOS port. A step is one turn of
  the loop of postS or fetchS (`Post`, `PostFails`, `PostSleeps`, and the same of
  fetch), which is all that runs under one lock; `put` and `take` are what a turn
  does when it succeeds, the wake-up of the first sleeper included. A woken
  thread is out of its queue and takes another turn, when the scheduler likes.
  `Replace` is the first half of replace; its second half is a `Post`. Thread
  priorities are left out: any ready thread may be next. postI and fetchI, called
  from interrupts, are calls that may not sleep.
* **LinuxMailbox** is the mailbox of the Linux port. A reader in wait_for waits or is
  awake; it becomes awake by a notification, by its timer or for no reason, and
  asks the predicate again.
* **LinuxThread** and **ChibiosThread** are the threads of the ports. On Linux the flag is thread_local, and its address is published
  through the object under construction, before create returns and the object is
  moved. On ChibiOS a handle that was moved from keeps its pointer.
* **Messages** has the constants both mailboxes share. **Ports_proofs** proves the
  safety of both mailboxes, of both threads and of the serial device of the host.
* **SerialDevice** is the ChibiOS device: one application object, the read thread,
  three interrupt handlers and the static mailbox and thread references they
  share. **SerialDevice_proofs** proves its safety. **LinuxSerialDevice** is read and write of the host on a kernel that
  delivers or takes any part of what is asked, fails, or lets time pass.
* **Cobs** has the functions of cobs.h; **CobsPayloads** lets a payload grow.
  **PacketDecoder** is the byte-wise decoder, a function of its state and of a byte,
  with its errors; **PacketDecodeFSM** feeds it any stream and keeps the frame so far,
  to compare it with unstuff, and whether the decoder has begun it (`begun`).
* **Packetizer** is `consume` as a function, **PacketReader** is readPacket with its
  suffix, a byte at a time, and **PacketizerThread** the packetizer thread, each compared
  with what a frame of the whole stream is. **Packetizer_proofs** proves their safety.
* **CrcDevice** is the calculation on the CRC unit by words, with bytes of ByteBits
  bits. A shift by the width of the word, undefined in C++, is 0, as the LSR of
  the Cortex-M gives. **MCCrcDevice** gives it its polynomial.
* **PacketDevice** and **Multiplexer**, which EXTENDS it, are one system: a peer that
  writes packets to channels, a line that loses bytes, the chunks of the device
  below (a slot, as `Slot` says), the read thread with the decoder of PacketDecoder,
  its mailbox (a read of the device below that times out or fails included),
  the multiplexer's thread, a mailbox and a client
  for each channel, and the destruction of both objects in their order.
  **Packets_proofs** proves its safety, and has the theorems of CobsPayloads and
  PacketDecodeFSM.
* **ModuleStack** is the stack of the unfinished modules between two executors.
  `deferUp`, `deferDown` and `completeReadOperation`, which they call and module.h no
  longer has, do what the modules need of them.

The MC modules make instances for TLC. **MCUart2** adds the symmetry of buffers,
**MCMultiplexer** the payloads. **MCPorts**, **MCBytes** and **MCModules** put machines
that have nothing to do with each other side by side: each EXTENDS those with
theorems about them, whose names are made distinct by a prefix (`PoolInit`,
`UartNext`), and instantiates the rest with variables of their own. The variable `machine` is chosen in the initial state and never changes, and
only that machine makes steps, so a behaviour is a behaviour of one machine, and
the state space is the sum of theirs, not the product. Fairness is stated
of the steps of each machine while it is the one chosen. Properties of a machine
are combined into one property of the module where they answer one question; the
parts keep their names and comments in the machine's own module.

Some models note in a history variable that something out of the ordinary has
happened (`late` and `overtook` in Sbus2Pwm, `lost` in PacketDevice, `spoiled` in ModuleStack). No
step reads it but to pass it on; properties that cannot hold after such an
event (that every packet arrives, that eight buffers or four places are enough) are stated of
the states before it, and the others of all states.

Operators named `...Faulty` are wrong variants of the definition that follows
them. Nothing uses them; substituted for it, one of the properties fails, which
shows that the property depends on that line of the code (`mutants` in
`PROJECT.json`).

## Runs

| run | bounds | states | shows |
|---|---|---|---|
| special_ring | 3 elements, capacity 3 | 568 | index order, slots, refinement of StagedQueue |
| uart2 | 4 buffers, receive ring 2, transmit ring 1, size 2, client holds 1 | 159813 | the driver's safety under all interleavings |
| uart2_live | 3 buffers, receive ring 1, transmit ring 2, size 1 | 91729 | both rings refine StagedQueue; calls return; accepted buffers are sent |
| sbus2pwm | sizes of constants.h | 30859 | pools, places in the executor, nothing stale, read and poll loops |
| ports | slot: 3 readers; queue: 2 posters, 2 fetchers, 2 places; device: 1 that replaces, 3 readers; 2 messages; threads of 2 owners; serial: 3 bytes in, buffers of 2 | 68897 | mailboxes refine Slot and Channel, threads Stoppable; no lost wake-up; bytes of the host |
| serial_device | 3 buffers of 2 bytes, 1 writer, 1 reader | 62572 | ownership, the HAL's assertions, ok means sent, calls return |
| serial_idle | the same | violated | IdleIgnoredAfterFull, see Findings |
| serial_reopen | the same | violated | ReadsOwnPackets, see Findings |
| bytes | blocks of 3; decoder: buffers of 4, frames of 5 bytes; COBS: payloads of 7; streams of 7 and 8; CRC: 9 bytes of 2 bits; 633 SBUS frames | 593049 | decoding, round trip, remainders, channels |
| crc_shared | two users, 9 bytes | violated | ResetToZero, see Findings |
| multiplexer | 5 buffers of 6 bytes, 1 channel of 2, 2 packets, chunks of 6 | 3271515 | order, ownership, shutdown; every packet while nothing is lost |
| modules | executor of 3; pool of 4; uart: 3 buffers of 2, 4 bytes; stack: 2 addresses, 1 slot, 2 packets, buffers of 6 | 745165 | channel, ownership, earlier driver, stack of modules |

The ring capacities of `uart2` are those of the firmware (typedefs.h:16). Four
buffers are one more than both rings hold, so that the pool is both empty and
not empty when allocateRx asks for the buffer it does not need; two bytes per
buffer make a reception end empty, partly filled and full. `uart2_live` has a
transmit ring of two, so that txFinishI finds a next buffer, and no symmetry,
which is not sound for liveness. `MaxHeld` bounds the buffers the client keeps;
a client that keeps none could not transmit what it received, one that keeps
more only makes the pool smaller. Nothing else is bounded there: the models of
the second generation are finite because the program's memory is. Streams
and packets are bounded by MaxStream, MaxIn, MaxOut, MaxBytes, MaxSize, MaxSent and
MaxWritten; where these end a behaviour, or where devices are destroyed for
good, the cfg has CHECK_DEADLOCK FALSE (bytes, modules, multiplexer).

What `sbus2pwm` shows about constants.h and typedefs.h: of the twelve functions
(NUM_PROC) all twelve are needed; of the four text buffers three are needed. The pool of
eight buffers is one short of the worst case, nine: both receive rings refilled
while a read and a write are pending and a packet is on its way. That case
needs a line of text to be still unsent when the next packet has arrived, which
the baud rates rule out (1 ms against 3 ms). Until that happens (`late`) eight
are enough, and one more is enough for ever.

The four places of the executor are enough until a line overtakes another: a
write that finds room in the transmit ring does not ask whether an older one is
pending (bottom_module.h:78). Say a write is pending, the poll of the monitor
has just freed the ring, and the next line is written. It overtakes the pending
one, its completion is deferred, and when its transmission ends before the
serviceTx() of line 85 it is freed at once. startRead may then find a packet
ready and defer its completion, so that the four places hold the poll of the
SBUS, that of the monitor, the completion of the line and that of the read. The
poll of the SBUS takes its place again; the poll of the monitor finds room for
the pending write and defers its completion into the last place, finds none for
itself, and is destroyed, with an error that nobody looks at. From then on
nobody frees what was sent, so that no line is written any more. `NothingFails` and `LoopsLive` say that
this is the worst of it: only that poll, and only after a line has overtaken
(`overtook`); all else finds its place, the SBUS is polled and packets are
decoded for ever. A fifth place would exclude it. On a board it needs a line of text
(1 ms) to be pending when the next packet (3 ms) arrives, so that, like the ninth
buffer, it is out of reach as long as the baud rates are what they are.

`NeverStalls` has an exception on purpose, in its part
`ReceiverStallsOnlyWithoutBuffers`. `allocateRx` asks for one buffer more than it
needs; with exactly as many free buffers as there is room for it fills the ring,
then fails, and serviceRx does not come to startRx. The receiver then stays idle
with a full ring of buffers until a later serviceRx, which poll asks for only
when the ring has room (uart2.h:115). Pools that are large enough
(`BuffersSuffice`) keep the firmware away from it.

Two places and two threads on each side let both pointers of `QueueT` wrap, let one
thread overtake a woken one, and let two sleep while one wake-up is under way:
waking a reader only when the queue was empty, a common mistake, already fails
there. Every device of the library is the only one to write its mailbox, so the
role of the machine `device` is one device: with two, a replace can fail, since its
fetch and its post are two critical sections (mailbox_impl_p.h:230, 240). Between
them a fetch of the ChibiOS port can time out although a message was there
before and is there after, so `Slot` promises nothing about a timeout.

`serial_device` assumes `Urgent`, that the read thread has a higher priority than
the device's users (SD_THREAD_PRIORITY is NORMALPRIO + 1 to + 3 in every firmware,
the users have NORMALPRIO): without it stop() resumes a thread that does not
sleep yet, and waits for ever. It assumes `Quiet`, that nothing arrives before the
moves at the end of open() are done; otherwise the read thread may use the
object `instance` points to while it is being moved. There is one writer, as the HAL's assertion
demands, and the object is not destroyed during a write.

In `multiplexer` a pool of five buffers is small enough for every allocation to
fail at some moment. One known and one unknown channel, payloads of no byte, of
one, and of more than can be written cover the paths of the check; two packets
let one overtake, replace or be glued to the other. The error of one byte ends
the loop over its chunk and drops the rest of it (packet_device_impl_base.h:121),
and an error, also that of a read that failed (`ReadFails`, packet_device_impl_base.h:130),
replaces a packet nobody has read: that is why packets may be missing, and only
order and integrity are promised after a loss. A read that fails with nothing in
hand is no loss: the decoder goes on where it was, and `AllDecoded` still holds.

In `bytes` the blocks of COBS have 3 bytes instead of 255, so that short
inputs have full blocks, and blocks before, at and after the end of a buffer.
Bytes of two bits keep every carry and every length modulo four of the CRC.

`Recovers` says what the decoder does after errors: of two good frames that
follow each other it hands one out. It loses the first when it takes its opening
zero for the end of what it has abandoned, and then takes its closing zero for
the start of the second (packet_decode_fsm.h:50-60). Both must find room in the buffer, and this is
where recovery ends. An abandoned frame leaves its bytes there, and they may
fill it: nothing but finishPacket resets bytesRead, and it is not reached without
appending a byte first (packet_decode_fsm.h:78-97, 129-136). So a frame that is
too long, or frames glued together by lost delimiters, can fill the buffer for
good, and every later frame is an error. The packet device keeps one decoder
for its life, and with it its reception ends. No line of the repository says
what should happen then; the models keep this behaviour, in `PacketDecoder` and in the
run `multiplexer`, and no property calls it right. A decoder that emptied the
buffer with the delimiter that begins a frame would be rid of it.

In `modules` two buffers, two results and two functions share four blocks, so
that the pool runs dry and every object meets an empty and a full one on the
other side of a move or a swap. The earlier driver has three buffers of two
bytes and receives four bytes, enough for a queue that has wrapped.
The rest of a chunk is dropped after the end of a frame and after an
overflow (packetizer_module.h:42-52), so a frame per chunk is part of what AllArrive
needs. An endpoint without a pending read halts on a packet (endpoint.h:46) and a
multistack without a free slot on a push; both end the behaviour, as in the code.

## Findings

Three runs find a disagreement between the code and what the repository says of it.

* serial_idle: a comment (serial_device_impl_p.h:224) says that rxIdle_ does nothing
  after a full buffer. When the read thread has started the next reception
  before the idle interrupt comes, it completes that one, with length 0.
* serial_reopen: the mailbox is static and nobody clears it, so a new device
  returns a packet of its predecessor.
* crc_shared: the last word is meant to reset the CRC unit to 0
  (crc_device.cpp:34). Threads share the unit without a lock, and then it does not.

## Fairness

`Uart2!Fairness` is weak fairness of the thread inside a call and of the end of a
transmission that was started. The thread runs in the main loop and nothing
but interrupt handlers preempts it; the hardware ends what it sends. Neither
the client's calls nor the arrival of bytes is fair, so `AcceptedIsSent` holds for
a client that never calls again. `Sbus2Pwm!FairSpec` has weak fairness of the main
loop (`for (;;)`, main.cpp:176), of the arrival of bytes at the SBUS UART while it
receives, and of the end of a transmission; `ReadLoopLives` cannot hold without
bytes. In both mailboxes a thread that is ready, or awake, gets its turn; timers need
not expire, since a call may wait for ever. Threads of both ports take their
steps and their owners' wait() does; owners need not ask anything. In
`SerialDevice` the read thread runs, interrupts that are pending come, a
transmission ends, and an application that has begun to open or to close the
device goes on with it; that bytes arrive is not assumed. In `Multiplexer` both
threads run and the destruction of the device follows that of the multiplexer.
In `LinuxSerialDevice` the reader runs and time passes. In `MCModules` the main loop
calls executeOne, procedures return, the DMA sends, and stop() runs on.

## Proofs

TLC checks a small instance of each property; the theorems hold for every value
of the constants that satisfies the assumptions named here, and those are the
ASSUMEs of the modules. Each invariant below was checked by TLC first.

**The ring** (`SpecialRing_proofs`, from `Capacity \in Nat \ {0}` and `Hole \notin T`).

* `RingInvariant`: `TypeOK`, `IndicesInOrder` and `SlotsFilledExactly` are invariants.
  Their conjunction, `WellFormed`, is inductive; none of its parts is: that put
  overwrites nothing needs the cyclic order, and that a slot is filled needs
  both. The lemmas about `Distance` and `Ahead` do the modular arithmetic once; a lemma
  per method shows that it keeps `WellFormed`.
* `RingRefinesStagedQueue`: every method is a step of `StagedQueue`, or a stutter
  (a put of a full ring, an advancePoint with nothing waiting), under the mapping
  to `queued` and `ready`. The lemmas `SegmentExtended`, `SegmentShortened` and
  `SegmentUntouched` say what a change of one end, or of a slot outside, does to
  the sequence between two indices.

**The driver** (`Uart2_proofs`, from `ConstantsAssumption`: capacities and sizes are
positive, `NoBuffer` is not a buffer).

* `DriverSafety`: `DmaAtPoint`; `DriverPolls`: `PollStaysTrue`; `DriverNeverStalls`:
  `NeverStalls`, with its three parts.
* `DriverOwnership`: `BuffersConserved`.
* `DriverDelivery`: `TypeOK` and `DeliveredAsReceived`.
* `DriverQueues`: `RingsAreStagedQueues`. It lifts the ring's refinement: each step
  of the driver changes a ring by one legal call or not at all (`RxCalls`, `TxCalls`).

The inductive invariant has three parts, each with a lemma for the client's
calls, one for the thread inside a call and one for interrupts and bytes.
`Control` says what is true of the rings and of the HAL's states at each place of
the thread: for instance that `RX_NEEDS_SERVICE` is used up before the thread
enters allocateRx, without which `PollStaysTrue` is not inductive. `Ownership` adds
that no ring holds a buffer twice: only then does taking a buffer out of a ring
leave nothing of it behind. `Sizes` adds that the bytes stored and the bytes left
of a running reception sum up to the size of its buffer (`Counted`), which makes
`size - stopRxI()` the number of bytes received, and needs `Ownership` because the
size of a buffer that waits for rx() must be nobody else's to change. That
`received` is never negative, and so the type of `size`, follows from all three.

**Executor, ownership and the earlier driver** (`Modules_proofs`).

* `ExecutorInvariant` (`TypeOK`, `LiveExactly`, `RoomForNext`) and `ExecutorIsChannel`, the
  refinement of `Channel`, from `RingAssumption`. That a running procedure finds
  room needs a strengthening: the ring cannot be full while the procedure has
  deferred nothing, because executeOne has freed a slot. The lemmas say how
  `Contents`, the sequence between the two indices, changes with a put and with an
  eraseTail.
* `BlocksHaveOneOwner`: `OwnersKnown`, from `SlotAssumption` (the names of objects and
  the numbers of blocks are different things). `Whole` says of a heap that the
  links of its free list are its list, that nothing is listed twice, and that
  each block is listed or has an owner, and one owner. Each operation on a heap
  (`new`, `move`, `drop`, and their compositions) has a lemma: it keeps a heap whole
  and changes the owners as it says. A statement of a client is such an operation,
  and its effect on the owners shows that nothing is stranded.
* `OldDriverSafe`: `UartSafe`, from `UartAssumption` (sizes are positive, the buffers
  are finitely many and the queue of sent buffers has room for all). That stop()
  finds room in that queue needs a count: the sequences have no repetition and no
  common buffer (`OnePlace`). `Order` says that the bytes in the completed buffers and
  in the one being filled ascend, and are the last that arrived.

**Mailboxes and threads** (`Ports_proofs`, from `NoMessage \notin Message` and, for the
mailbox of the firmware, a positive size, finitely many threads and a role for
each; for any sets of readers, threads, messages and owners).

* `NotificationNeverLost` and `MailboxIsSlot`, the refinement of `Slot` by the
  Linux mailbox. `NoLostNotification` and `TypeOK` together are inductive:
  a reader that stops being awake either waits, and then it saw no message, or
  leaves with it.
* `QueueSafe`: `QueueIsChannel`, the refinement of `Channel` by QueueT together with
  `TypeOK`, `LiveExactly` and `SleepersInOrder`. The lemmas `PutFills` and `TakeEmpties`
  say what a turn that succeeds does to `Contents`, the messages from the read
  index on; the modulus goes once (`Wraps`), into a comparison (`Place`). The
  sleepers are reasoned about as sets: a wake-up takes the first of a queue, a
  timer its own thread, and a thread that goes to sleep was in no queue.
* `NoWakeupLost`: `NoLostWakeup`, the safety part of `EveryoneServed`. It is
  inductive with the above: a message that is put adds to the awake fetches the
  one it wakes, and a thread that takes one leaves with it, so that
  the number of awake threads never falls below that of the messages while others
  sleep for them; it is counted with the cardinalities of the library.
* `ReplaceSafe` and `DeviceMailboxIsSlot` add the hypothesis `SoleProducer`, which every
  device of the library meets and MCPorts' machine `device` instantiates: nobody
  else fills the place that a replace has freed (`RoomKept`), so its post never
  fails, and with one place its two critical sections look like one step of `Slot`.
  They are `DeviceIsSlot` for any threads and messages.
* `RequestReaches` (Linux) and `StorageSafe` (ChibiOS): no request goes through a null
  or dangling pointer and no storage is used twice, from the places owner and
  thread can be in together (`HostPlaces`, `FirmwarePlaces`). `HostThreadStops` and `FirmwareThreadStops`: every
  step is a step of `Stoppable` or of none, which is the safety part of
  `ThreadsStoppable`.

**The serial device of the host** (also `Ports_proofs`, from `SerialSizes`: buffers of
any size, written ones of at least one byte).

* `HostReadsAll`: `BytesReturned`. The invariant (`ReadInv`) is about all that read has
  taken from the kernel and not lost, `Taken`: what it has returned and what
  it has in hand ascend, and with the lost bytes they are the bytes taken, none
  twice. A return moves the bytes from the hand to what is returned
  (`ReturnsWhole`); a timeout drops nothing because it is looked at before a call of read,
  and the loop returns what it has.
* `HostWritesWhole`: `WholeUnlessFailed`, with one writer, which the run has as well. Of the
  buffer in hand the first bytes are the end of the line (`Ends`) and the others
  are left (`Rest`), whatever part the kernel takes each time; every earlier one is on
  the line whole or has failed (`WriteInv`). A failed write leaves a piece of its own
  buffer, and no later write adds to an earlier one.

They are the safety part of `HostDevice` except its `TypeOK`.

**The serial device of ChibiOS** (`SerialDevice_proofs`, for any buffers, readers, writers and
sizes).

* `WritersAndThreadOutlived` (`SendsOnlyDuringWrite`, `ThreadEndsFirst`) and `OkAfterLastByte`
  (`OkMeansSent`) hold under all priorities.
* `BuffersNeverLost`: `Urgent /\ Quiet` and the specification imply `[]BuffersConserved`.
  The two hypotheses are those of the run, explained above. `Phases` says what
  thread and receiver may do at each point of the life of the device, `Buffers`
  which pointers hold a buffer meanwhile, `Single` and `Somewhere` that every buffer
  has one place.
* `HardwareUsedAsAllowed`: with writers that take turns (`TakeTurns`, the HAL's assertion) as
  well, `HardwareSafe`.

**The firmware** (`Sbus2Pwm_proofs`, from `PoolsAssumption`, for rings of any
capacity).

`PoolsAssumption` says how large the pools must be: POOL_NUM_BUFFERS at least
2 * RX_CAPACITY + 4, NUM_TXT_BUFFERS at least TX_CAPACITY + 2, and a ring of the
executor of 4 with 12 functions when one buffer fits the transmit ring, of 5 with
13 otherwise. constants.h of the firmware has 8, 4, 4 and 12 for the capacities
2 and 1. No bound can be lowered: with one buffer, one text buffer or one function
less, with a ring of 3, or with a ring of 4 for two buffers in the transmit ring, TLC
finds a step that fails.

* `FirmwareNeverFails`: `NothingFails`. Its inductive strengthening is `Inv`. A
  procedure is in the executor's ring once at most, and each poll is in the ring or
  runs, but for that of the monitor once it was lost (`Deferred`). The
  application's read is in one place (`OneRead`). So the ring could only overflow
  with completions of writes, of which there are two
  kinds: `written`, of a line that found room, and `writtenOp`, of one that had to
  wait. `Order` says that a completion is ahead of the poll, or of the read,
  whose turn must come before the next of its kind is deferred, and `Cycle` that
  the read, or the completion of its line, and the two polls take turns, always in
  the same order. With room for one buffer in the transmit ring, both kinds are
  under way together (`TwoWritten`) only between a poll of the monitor
  and the next one of the SBUS, where no read is handled (`NoThird`, `NoSecond`), and
  only after a line has overtaken another (`OneLine`). `Room` makes of this a
  free place, `HandlingDefers` and `PollRoom` that each `defer` finds it, and `PollLost`
  is the one case in which it does not: the poll of the monitor has just
  completed a write that was overtaken. `Snapshot` is the part about poll():
  between poll() and its use the interrupts only add to what it reported.
* `PoolsNeverExhausted`: `PoolsSuffice`, from the same invariant. What is in use
  is counted by who holds it: polls, the read, the writes and the receive rings
  (`FuncsOf`, `BuffersOf`). The polls hold two functions, the read and the peak of
  the step together at most 7, and the writes at most 4, or 3 when one buffer fits
  the transmit ring. `Timely` is what it takes for the buffers: as long as no packet has
  overtaken a line (`late`), none is handed over from reception while a line of
  an earlier one is not sent; once one has, the property allows one buffer more.
* `ChannelsDecoded`: `ChannelsAsSent`, from `PacketsAssumption` alone: the frames are
  any records of the type RawPacket. A byte is the sum of its eight bits, and a
  value below 2048 of its eleven (`Bits11`), so that decode2 and decode3 are the number that
  eleven bits of two or three bytes make (`TwoAsNumber`, `ThreeAsNumber`) and the channel
  has those bits and no others. `EightChannels` goes through the eight positions of a
  group. `Widths` bounds the pulse at both ends, `Lines` counts the characters. The
  invariant `SbusInv` only says that packet, width and line are those of the frame.
  Where the run tries 633 frames, the theorem covers all of the 2^176.

**Bytes** (`Packets_proofs`, from `K >= 3`, where K is what cobs.h
calls 255, and natural sizes). The loops of Cobs are folds, and the library has
no rule of induction for them that the provers can use. What holds of all values
of a fold is proved over the set of the lengths at which it holds: a set that
has 0 and with n also n + 1 has every number, from the well-foundedness of the
order (`Inductive`).

* `LastByteFound`: `LastByteExists`. The invariant
  (`WellFormed`) ties the state of the decoder to its block counter and to the
  bytes in the buffer: between blocks there is at least a byte, which the code
  takes back at the end of a packet.
* `FramesDecoded`: `DecodesFrames`. The buffer of the decoder is, byte by byte, the
  end of what unstuff makes of the frame so far (`Follows`), and all of it when
  the frame began with an empty buffer (`Tracks`).
* `DecoderRecovers`: `Recovers`. A decoder that waits for a delimiter goes on
  waiting at any other byte, and one that does not wait begins to only
  when its buffer is full (`WaitsOn`). So while a frame finds room, the state at its
  end tells whether the decoder has begun it (`begun`, in `Tracks`); if it
  has, the frame's end is that of a packet, since unstuff finds one, and otherwise
  its closing zero begins the next frame. `FrameEnded` is that step, for this
  theorem and for `FramesDecoded`.
* `PayloadsReturn`: `RoundTrip`. `Stuffed` says of the loop of stuff at each byte what
  unstuff would make of its output (`Reads`), that only the code byte of the open
  block may be zero (`Written`), and how many blocks there are (`Counts`), from
  which the bound `maxStuffedSize` follows.

**Packetizer** (`Packetizer_proofs`, from `Bounds`: zero is a byte, and the sizes are
natural numbers, even 0). The theorems are the parts of `StreamsWhole`, for any
stream.

* `FramesHandled` and `FramePosted`: `HandledExactly`, `PostsTheFrame`. What a frame of the whole
  stream is depends on its last zero only, and a further byte ends one frame or none
  (`FrameEndsGrow`, `HandledGrows`). The invariant says where the packetizer is by
  that zero (`At`): in step with it, or lost behind a frame that was
  handled or too long. `ConsumeBehind` is the step of a byte.
* `EveryFrameReturned` and `PartialFrameWhole`: `ReturnsEveryFrame`, `PartialFrame`. A
  reader goes on where the last frame ended, so that for it each zero opens a frame
  (`ReaderAt`), and the packets it has returned enumerate the frames of
  what it has consumed (`Enumerates`); what it has not is the suffix.
* `ReaderTypes` and `ThreadTypes`: both type invariants.

**Packet device and multiplexer** (`Packets_proofs`, from `MuxAssumption` and
`DeviceAssumption`: at least two buffers, at most K + 1 channels, chunks that fit a buffer,
and a CRC for every packet; for any packets, channels and cuts into chunks; the
third theorem also from `IdealCrc`).

* `BuffersKept`: `BuffersConserved`. `Types` and the property are inductive; the
  lemmas balance what a step takes from one place and adds to another.
* `SentIsDecoded`: `AllDecoded`. While nothing is lost the bytes under way (in the
  chunk, in the device below, on the wire) are the frames of the packets not yet
  handed out, one after the other, but for the bytes the decoder has read of the
  first (`InStream`); these have brought the decoder to where unstuff is
  (`At`). By the lemmas about the functions stuff, line and decoder composed give
  back each packet.
* `DeliveriesWereSent`: `DeliveredInOrder`, whatever is lost. The decoder may join the
  halves of different frames, so that nothing can be said of the packets under way;
  but each has one CRC, and a packet cut from two passes the check only if it is
  the packet that the CRC was made for. `IdealCrc` says so: in a frame only the last
  byte of a packet is the CRC of one, and of no other. (Of 32 bits that is true but for
  one in 2^32; of what the code computes it is an abstraction, and TLC finds
  the property violated without it.) The invariant (`InOrder`) follows the CRCs: those on the way
  ascend in the order of the packets sent (`Ascends`), which bytes that are lost anywhere
  do not disturb (`Thinned`), and the decoder adds none (`ConsumeMakes`: what it holds
  are bytes it was given, and zeros). Three cuts through the packets sent divide them
  among the stages: what arrives is later than what is in the device's mailbox,
  that later than what the multiplexer has in hand, and that later than
  what is in the mailboxes of the channels and with the clients (`Placed`). An
  error, a full mailbox or a chunk cut short moves a cut or leaves it, and never
  moves it back.
* `DeviceIsLast`: `DeviceOutlivesMux`, the safety part of `StopReturns`.

Liveness (`AcceptedIsSent` with `CallsReturn`, `LoopsLive`, `EveryoneServed`, the fairness
in `ThreadsStoppable`, `StopReturns`, `Served`) is only model-checked: temporal reasoning
from fairness and ENABLED is out of the prover's reach. Model-checked and not
proved are as well:

* the types of `LinuxSerialDevice` (in `HostDevice`) and that its read returns;
* `ModuleStack`, and the arithmetic of the CRC unit
  (`RightCrc`).

## Not modelled

The setters of baud rate, parity and stop bits, debug output, the wording of the
text, opening and configuring a port of the host (EINTR included), and the type
erasure of FunctionT. The order of the lines of text: that one overtakes another
(bottom_module.h:78) is modelled, with what it does to the executor, but the lines
are counters in Sbus2Pwm and nothing is said of the order they are sent in. Two writers of one serial device, which the HAL's assertion
excludes on ChibiOS and nothing in the repository does on Linux; there a failed
write, with O_NONBLOCK also a full queue, leaves a torn frame, which
`WholeUnlessFailed` allows. Contents of `Uart`'s buffers are full-size runs of
numbered bytes; its stop() is modelled with what the lock guard really does (only
the first turn of the loop has the lock). Pushing two modules to one address of
a multistack (multistack.h:82 tests for room before it searches). The promise in
the constructor of the Linux thread, whose shared state the library keeps. The
CRC between the ends of a line is ideal: that a damaged packet passes a real one
with probability 2^-32 is no property of this code. Boards, RTT, build scripts
and the test drivers.

## Limits

What would come next: the order of lines and the completions of writes in
BottomModule, which need lines told apart; several writers of a serial device
with a lock that the code does not have yet. Section Proofs names what is
model-checked and could be proved.
