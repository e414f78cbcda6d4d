----------------------------- MODULE ModuleStack -----------------------------
(***************************************************************************)
(* The protocol modules of src/common/include/spacket: endpoint.h,         *)
(* multistack.h, crc_module.h, cobs_module.h, packetizer_module.h and      *)
(* packetizer2.h, stacked as stack.h stacks them.  A packet goes down the  *)
(* sender's stack, over a line and up the receiver's, by one procedure of  *)
(* the executor per module; only the receiver's state matters.             *)
(*                                                                         *)
(* deferUp, deferDown and completeReadOperation, which these modules call  *)
(* and module.h no longer has, defer a call of the neighbour in the stack  *)
(* and a completion.  The CRC is the ideal one of Multiplexer.             *)
(*                                                                         *)
(* Operators named ...Faulty are wrong on purpose and used nowhere.        *)
(***************************************************************************)
EXTENDS Integers, Sequences, SequencesExt, FiniteSets

CONSTANTS K, maxSize,     \* the largest code of COBS, the size of a buffer
          MAX_STACKS,
          Address, Payload,
          Crc,            \* a function from packets to bytes
          NumProc,        \* the capacity of an executor
          MaxWritten      \* bound: the packets written

(* Address is in 0 .. K, and Crc defined for an address before a payload.  *)

VARIABLES downs, ups,     \* the procedures of the sender's and the receiver's executor
          line,           \* the bytes between them
          pktz,           \* PacketizerModule of the receiver
          slots,          \* the addresses of its Multistack's slots
          reading,        \* the addresses whose Endpoint has a readOp
          fatal,          \* FATAL_ERROR
          written, came, delivered,  \* the packets written, at the Multistack, and read
          spoiled         \* a byte was lost, a buffer missing or a frame cut

vars == <<downs, ups, line, pktz, slots, reading, fatal, written, came, delivered, spoiled>>

COBS == INSTANCE Cobs

-----------------------------------------------------------------------------
(* stack.h: the neighbours of a module, "none" above the last and below    *)
(* the first; the slots of a multistack have stacks of their own.          *)
Modules == {<<"bottom", "packetizer", "cobs", "crc", "multistack">>, <<"slot", "endpoint">>}
upper(from) == LET s == CHOOSE s \in Modules : Contains(s, from)
                   i == CHOOSE i \in DOMAIN s : s[i] = from
               IN  IF i = Len(s) THEN "none" ELSE s[i + 1]
lower(from) == LET s == CHOOSE s \in Modules : Contains(s, from)
                   i == CHOOSE i \in DOMAIN s : s[i] = from
               IN  IF i = 1 THEN "none" ELSE s[i - 1]

(* A procedure is the call that it makes.  Nothing is deferred to a module *)
(* that is not there; a is the address of the slot, for an endpoint.       *)
deferUp(from, b, a) == IF upper(from) = "none" THEN <<>> ELSE <<[to |-> upper(from), buffer |-> b, at |-> a]>>
deferDown(from, b) == <<[to |-> lower(from), buffer |-> b]>>

-----------------------------------------------------------------------------
(* Packetizer2 as a function of its state and a byte. *)
consume(state, b) ==
    CASE state = "Sync"      -> [state |-> IF b = 0 THEN "SkipDelim" ELSE state, action |-> "Skip"]
      [] state = "SkipDelim" -> IF b = 0 THEN [state |-> state, action |-> "Skip"]
                                ELSE [state |-> "Within", action |-> "Store"]
      [] state = "Within"    -> IF b = 0 THEN [state |-> "SkipDelim", action |-> "Finished"]
                                ELSE [state |-> state, action |-> "Store"]

NewPacketizer == [state |-> "Sync", boxed |-> FALSE, out |-> <<>>]

(* One byte of PacketizerModule::up; done is what the loop ends with. *)
storeFaulty(p, b, gets) ==
    IF p.boxed /\ Len(p.out) = maxSize THEN [pktz |-> p, done |-> "failed"]
    ELSE IF ~p.boxed /\ ~gets THEN [pktz |-> p, done |-> "failed"]
    ELSE [pktz |-> [p EXCEPT !.boxed = TRUE, !.out = Append(@, b)], done |-> "no"]
store(p, b, gets) ==
    IF p.boxed /\ Len(p.out) = maxSize THEN [pktz |-> p, done |-> "failed"]
    ELSE IF ~p.boxed /\ ~gets THEN [pktz |-> NewPacketizer, done |-> "failed"]
    ELSE [pktz |-> [p EXCEPT !.boxed = TRUE, !.out = Append(@, b)], done |-> "no"]

upByte(s, b, gets) ==
    LET c == consume(s.pktz.state, b)
        p == [s.pktz EXCEPT !.state = c.state]
    IN  CASE s.done # "no"          -> s
          [] s.done = "no" /\ c.action = "Skip"     -> [pktz |-> p, done |-> "no"]
          [] s.done = "no" /\ c.action = "Store"    -> store(p, b, gets)
          [] s.done = "no" /\ c.action = "Finished" -> [pktz |-> [p EXCEPT !.boxed = FALSE], done |-> "finished"]

(* What follows the end of a frame in its chunk is dropped, and what       *)
(* follows a failure.                                                      *)
packetizerUp(b, gets) == FoldLeft(LAMBDA s, x : upByte(s, x, gets), [pktz |-> pktz, done |-> "no"], b)

packetizerDown(b) == IF Len(b) > maxSize - 2 THEN <<>> ELSE deferDown("packetizer", <<0>> \o b \o <<0>>)

(* Address. *)
matches(a, b) == b # <<>> /\ Head(b) = a
addHeader(a, b) == <<a>> \o b
CanAddHeader(b) == Len(b) # maxSize

(* crc.h *)
append(b) == IF b = <<>> \/ maxSize - Len(b) < 1 THEN <<>> ELSE deferDown("crc", Append(b, Crc[b]))
check(b) == Len(b) >= 2 /\ Front(b) \in DOMAIN Crc /\ Crc[Front(b)] = Last(b)

cobsDown(b) == IF COBS!maxStuffedSize(Len(b)) > maxSize THEN <<>> ELSE deferDown("cobs", COBS!stuff(b))
cobsUp(b) == LET u == COBS!unstuff(b) IN IF u = <<>> THEN <<>> ELSE deferUp("cobs", u, 0)

(* MultistackT::up and Slot::up. *)
multistackUp(b) ==
    IF \E i \in DOMAIN slots : matches(slots[i], b)
    THEN LET i == CHOOSE i \in DOMAIN slots : matches(slots[i], b) /\ \A j \in 1 .. i - 1 : ~matches(slots[j], b)
         IN  deferUp("slot", Tail(b), slots[i])
    ELSE deferUp("multistack", b, 0)

-----------------------------------------------------------------------------
Init == /\ downs = <<>> /\ ups = <<>> /\ line = <<>>
        /\ pktz = NewPacketizer /\ slots = <<>> /\ reading = {} /\ fatal = FALSE
        /\ written = <<>> /\ came = <<>> /\ delivered = <<>> /\ spoiled = FALSE

(* Endpoint::down, Slot::down and MultistackT::down, one within the other  *)
(* but for the first; a full executor or buffer refuses the packet.        *)
Write(a, p) == /\ Len(written) < MaxWritten /\ Len(downs) < NumProc
               /\ CanAddHeader(p)
               /\ written' = Append(written, <<a, p>>)
               /\ downs' = downs \o deferDown("multistack", addHeader(a, p))
               /\ UNCHANGED <<ups, line, pktz, slots, reading, fatal, came, delivered, spoiled>>

(* executeOne of the sender.  The modules that need a buffer may get none. *)
Down == /\ downs # <<>>
        /\ LET p == Head(downs)
           IN  CASE p.to = "crc" ->
                        downs' = Tail(downs) \o append(p.buffer) /\ UNCHANGED <<line, spoiled>>
                 [] p.to \in {"cobs", "packetizer"} -> \E gets \in BOOLEAN :
                        /\ downs' = Tail(downs) \o (CASE ~gets -> <<>>
                                                      [] gets /\ p.to = "cobs" -> cobsDown(p.buffer)
                                                      [] gets /\ p.to = "packetizer" -> packetizerDown(p.buffer))
                        /\ spoiled' = (spoiled \/ ~gets) /\ UNCHANGED line
                 [] p.to = "bottom" ->
                        downs' = Tail(downs) /\ line' = line \o p.buffer /\ UNCHANGED spoiled
        /\ UNCHANGED <<ups, pktz, slots, reading, fatal, written, came, delivered>>

Lose == /\ line # <<>> /\ line' = Tail(line) /\ spoiled' = TRUE
        /\ UNCHANGED <<downs, ups, pktz, slots, reading, fatal, written, came, delivered>>

(* The driver gives the receiver's bottom module a chunk. *)
AtFrame(n) == Head(line) = 0 /\ line[n] = 0 /\ n > 1 /\ \A j \in 2 .. n - 1 : line[j] # 0
Receive(n) == /\ n <= Len(line) /\ Len(ups) < NumProc
              /\ spoiled' = (spoiled \/ ~AtFrame(n))
              /\ ups' = Append(ups, [to |-> "packetizer", buffer |-> SubSeq(line, 1, n), at |-> 0])
              /\ line' = SubSeq(line, n + 1, Len(line))
              /\ UNCHANGED <<downs, pktz, slots, reading, fatal, written, came, delivered>>

(* executeOne of the receiver, module by module. *)
UpTo(m) == ups # <<>> /\ Head(ups).to = m
Arrived == Head(ups).buffer

UpPacketizer == /\ UpTo("packetizer")
                /\ \E gets \in BOOLEAN :
                     LET s == packetizerUp(Arrived, gets)
                     IN  /\ spoiled' = (spoiled \/ ~gets)
                         /\ pktz' = IF s.done = "finished" THEN [s.pktz EXCEPT !.out = <<>>] ELSE s.pktz
                         /\ ups' = Tail(ups) \o (IF s.done = "finished"
                                                 THEN deferUp("packetizer", s.pktz.out, 0) ELSE <<>>)
                /\ UNCHANGED <<downs, line, slots, reading, fatal, written, came, delivered>>

UpCobs == /\ UpTo("cobs")
          /\ \E gets \in BOOLEAN : /\ ups' = Tail(ups) \o (IF gets THEN cobsUp(Arrived) ELSE <<>>)
                                    /\ spoiled' = (spoiled \/ ~gets)
          /\ UNCHANGED <<downs, line, pktz, slots, reading, fatal, written, came, delivered>>

UpCrc == /\ UpTo("crc")
         /\ ups' = Tail(ups) \o (IF check(Arrived) THEN deferUp("crc", Front(Arrived), 0) ELSE <<>>)
         /\ UNCHANGED <<downs, line, pktz, slots, reading, fatal, written, came, delivered, spoiled>>

UpMultistack == /\ UpTo("multistack")
                /\ \E gets \in BOOLEAN : /\ ups' = Tail(ups) \o (IF gets THEN multistackUp(Arrived) ELSE <<>>)
                                          /\ spoiled' = (spoiled \/ ~gets)
                /\ came' = Append(came, Arrived)
                /\ UNCHANGED <<downs, line, pktz, slots, reading, fatal, written, delivered>>

(* Endpoint::up and readCompleted. *)
UpEndpoint == /\ UpTo("endpoint")
              /\ ups' = Tail(ups)
              /\ LET a == Head(ups).at
                 IN  IF a \in reading
                     THEN /\ delivered' = Append(delivered, <<a, Arrived>>)
                          /\ reading' = reading \ {a} /\ UNCHANGED fatal
                     ELSE fatal' = TRUE /\ UNCHANGED <<delivered, reading>>
              /\ UNCHANGED <<downs, line, pktz, slots, written, came, spoiled>>

(* Endpoint::read keeps readOp although the slot below, which does not     *)
(* implement read, fails.                                                  *)
Read(a) == /\ Contains(slots, a) /\ a \notin reading
           /\ reading' = reading \union {a}
           /\ UNCHANGED <<downs, ups, line, pktz, slots, fatal, written, came, delivered, spoiled>>

(* MultistackT::push of the only module of an address. *)
Push(a) == /\ ~Contains(slots, a)
           /\ IF Len(slots) >= MAX_STACKS THEN fatal' = TRUE /\ UNCHANGED slots
              ELSE slots' = Append(slots, a) /\ UNCHANGED fatal
           /\ UNCHANGED <<downs, ups, line, pktz, reading, written, came, delivered, spoiled>>

Next == /\ ~fatal
        /\ \/ \E a \in Address : Read(a) \/ Push(a) \/ \E p \in Payload : Write(a, p)
           \/ Down \/ Lose \/ \E n \in 1 .. maxSize : Receive(n)
           \/ UpPacketizer \/ UpCobs \/ UpCrc \/ UpMultistack \/ UpEndpoint

Spec == Init /\ [][Next]_vars

-----------------------------------------------------------------------------
TypeOK == /\ \A i \in DOMAIN downs : downs[i].buffer \in Seq(Nat) /\ Len(downs[i].buffer) <= maxSize
          /\ \A i \in DOMAIN ups : ups[i].buffer \in Seq(Nat) /\ Len(ups[i].buffer) <= maxSize
          /\ Len(downs) <= NumProc /\ Len(ups) <= NumProc
          /\ pktz.state \in {"Sync", "SkipDelim", "Within"} /\ Len(pktz.out) <= maxSize
          /\ IsInjective(slots) /\ reading \subseteq Address /\ fatal \in BOOLEAN

(* Whatever is lost of a frame, and wherever it is cut, an endpoint reads  *)
(* packets that were written to its address, in their order and each once  *)
(* (packetizer_module.h:16-55, crc.h:8-17, multistack.h:50-58,101-112).    *)
DeliveredInOrder == \E picked \in SUBSET DOMAIN written :
                       delivered = [i \in 1 .. Cardinality(picked) |-> written[SetToSortSeq(picked, <)[i]]]

(* Packetizer and box agree: a frame is being gathered exactly while there *)
(* is a buffer for it, so that the end of one always finds its buffer: the *)
(* FATAL_ERROR of packetizer_module.h:49 is out of reach, even after a     *)
(* failed allocation (packetizer_module.h:36).                             *)
BoxedWithin == pktz.boxed <=> pktz.state = "Within"

(* While nothing is lost and frames come in chunks of their own, every     *)
(* packet written that leaves room for the CRC, the code of COBS and two   *)
(* delimiters gets through to the multistack, once the stacks are at rest: *)
(* no module keeps anything of a packet back for the next one              *)
(* (packetizer_module.h:57-78, cobs_module.h, crc_module.h).               *)
AllArrive ==
    ~spoiled /\ downs = <<>> /\ line = <<>> /\ ups = <<>> =>
    LET sent == [i \in DOMAIN written |-> addHeader(written[i][1], written[i][2])]
    IN  came = SelectSeq(sent, LAMBDA p : Len(p) + 4 <= maxSize)
=============================================================================
