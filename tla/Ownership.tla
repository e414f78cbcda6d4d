----------------------------- MODULE Ownership -----------------------------
(***************************************************************************)
(* Who owns which block of a pool: the free list of StaticPoolAllocatorT   *)
(* (src/common/include/spacket/static_pool_allocator.h) and the objects    *)
(* that hold its blocks: Buffer (buffer.h), Result<Buffer> (result.h) and  *)
(* FunctionT with a closure that has captured a buffer (deferred_proc.h).  *)
(* A step is one statement of a client.                                    *)
(*                                                                         *)
(* A slot is a place that holds a pointer to a block: a buffer variable, a *)
(* result, a function, the capture of the closure that lies in a block,    *)
(* and the temporary of the statement.  What the statements do is composed *)
(* of three steps: a new block, a move from slot to slot, a drop.          *)
(*                                                                         *)
(* Operators named ...Faulty are wrong on purpose and used nowhere.        *)
(***************************************************************************)
EXTENDS Integers, Sequences

CONSTANTS NUM_OBJECTS, maxSize,
          Var, Res, Fun, Temp   \* the client's buffers, results and functions

Block == 1 .. NUM_OBJECTS
Null == 0
Slot == Var \union Res \union Fun \union {Temp} \union Block

(* The slots are different places. *)
ASSUME SlotAssumption ==
    /\ NUM_OBJECTS \in Nat /\ maxSize \in Nat
    /\ Temp \notin Var \union Res \union Fun \union Block
    /\ Var \intersect Res = {} /\ Var \intersect Fun = {} /\ Res \intersect Fun = {}
    /\ Block \intersect (Var \union Res \union Fun) = {}

VARIABLES heap,  \* the free list, what each slot points to, and the list as a sequence
          ok,    \* isOk_ of each result
          size   \* the size field in the block of a buffer

poolVars == <<heap, ok, size>>

-----------------------------------------------------------------------------
(* The allocator: a block is taken from and put back at the head. *)
CanAllocate == heap.head # Null

new(h, s) == [head |-> h.next[h.head],
              next |-> [h.next EXCEPT ![h.head] = Null],
              own |-> [h.own EXCEPT ![s] = h.head],
              list |-> Tail(h.list)]

deallocate(h, s) == [head |-> h.own[s],
                     next |-> [h.next EXCEPT ![h.own[s]] = h.head],
                     own |-> [h.own EXCEPT ![s] = Null],
                     list |-> <<h.own[s]>> \o h.list]

(* A destructor: one of a moved-from object does nothing. *)
drop(h, s) == IF h.own[s] = Null THEN h ELSE deallocate(h, s)

(* A move constructor into an empty slot. *)
moveFaulty(h, s, t) == [h EXCEPT !.own[t] = h.own[s]]
move(h, s, t) == [h EXCEPT !.own[t] = h.own[s], !.own[s] = Null]

(* The destructor of FunctionT: the closure's capture, then its block. *)
dropFunction(h, f) == IF h.own[f] = Null THEN h ELSE drop(drop(h, h.own[f]), f)

(* Move assignment of Buffer, from another object: it releases its own     *)
(* first.  Result moves the source into a temporary, swaps, and destroys   *)
(* the temporary at the end.                                               *)
moveBuffer(h, v, w) == move(drop(h, v), w, v)
swap(h, r) == [h EXCEPT !.own[r] = h.own[Temp], !.own[Temp] = h.own[r]]
assign(h, r) == drop(swap(h, r), Temp)
moveResult(h, r, s) == assign(move(h, s, Temp), r)
moveFunction(h, f, g) == move(dropFunction(h, f), g, f)

-----------------------------------------------------------------------------
(* The constructor deallocates the blocks one after another. *)
PoolInit == /\ heap = [head |-> NUM_OBJECTS,
                       next |-> [b \in Block |-> b - 1],
                       own |-> [s \in Slot |-> Null],
                       list |-> [i \in 1 .. NUM_OBJECTS |-> NUM_OBJECTS + 1 - i]]
            /\ ok = [r \in Res |-> FALSE]
            /\ size = [b \in Block |-> 0]

(* r = Buffer::create(n), and with a size of its own prefix and suffix: r  *)
(* releases its buffer only when the new one is there.                     *)
Make(r, n) == /\ IF n <= maxSize /\ CanAllocate
                 THEN /\ heap' = assign(new(heap, Temp), r)
                      /\ ok' = [ok EXCEPT ![r] = TRUE]
                      /\ size' = [size EXCEPT ![heap.head] = n]
                 ELSE /\ heap' = drop(heap, r)
                      /\ ok' = [ok EXCEPT ![r] = FALSE]
                      /\ UNCHANGED size

Create(r, n) == n \in 0 .. maxSize + 1 /\ Make(r, n)

lesser(m, n) == IF m < n THEN m ELSE n

Prefix(r, v, n) == /\ heap.own[v] # Null
                   /\ Make(r, lesser(n, size[heap.own[v]]))

(* v = the buffer of r, which stays ok and holds nothing. *)
Take(v, r) == /\ ok[r]
              /\ heap' = moveBuffer(heap, v, r)
              /\ UNCHANGED <<ok, size>>

(* r = ok(v); r = fail(e). *)
Succeed(r, v) == /\ heap' = moveResult(heap, r, v)
                 /\ ok' = [ok EXCEPT ![r] = TRUE]
                 /\ UNCHANGED size

Fail(r) == /\ heap' = drop(heap, r)
           /\ ok' = [ok EXCEPT ![r] = FALSE]
           /\ UNCHANGED size

(* r = s: the result that was moved from is no longer ok. *)
MoveResult(r, s) == /\ heap' = moveResult(heap, r, s)
                    /\ ok' = [ok EXCEPT ![s] = FALSE, ![r] = ok[s]]
                    /\ UNCHANGED size

(* v = w; a buffer that is assigned to itself is released. *)
MoveBuffer(v, w) == /\ heap' = IF v = w THEN drop(heap, v) ELSE moveBuffer(heap, v, w)
                    /\ UNCHANGED <<ok, size>>

Release(v) == /\ heap.own[v] # Null
              /\ heap' = deallocate(heap, v)
              /\ UNCHANGED <<ok, size>>

Resize(v, n) == /\ heap.own[v] # Null
                /\ size' = [size EXCEPT ![heap.own[v]] = lesser(n, maxSize)]
                /\ UNCHANGED <<heap, ok>>

-----------------------------------------------------------------------------
(* f = FunctionT::create of a closure that has taken the buffer of v: when *)
(* there is no block for the closure, it and the buffer are destroyed, and *)
(* f, which is not assigned to, stays.                                     *)
CreateFunction(f, v) ==
    /\ heap.own[v] # Null
    /\ heap' = IF ~CanAllocate THEN drop(heap, v)
               ELSE moveFunction(move(new(heap, Temp), v, heap.head), f, Temp)
    /\ UNCHANGED <<ok, size>>

(* The call of f hands its buffer to v, if it still has it. *)
Call(f, v) == /\ heap.own[f] # Null
              /\ heap' = moveBuffer(heap, v, heap.own[f])
              /\ UNCHANGED <<ok, size>>

(* f = g; a function that is assigned to itself is destroyed. *)
MoveFunction(f, g) == /\ heap' = IF f = g THEN dropFunction(heap, f) ELSE moveFunction(heap, f, g)
                      /\ UNCHANGED <<ok, size>>

Statement(r, v) == \/ \E n \in 0 .. maxSize + 1 : Create(r, n) \/ Prefix(r, v, n) \/ Resize(v, n)
                   \/ Take(v, r) \/ Succeed(r, v) \/ Fail(r) \/ Release(v)

PoolNext == \/ \E r \in Res, v \in Var : Statement(r, v)
            \/ \E r, s \in Res : MoveResult(r, s)
            \/ \E v, w \in Var : MoveBuffer(v, w)
            \/ \E f \in Fun, v \in Var : CreateFunction(f, v) \/ Call(f, v)
            \/ \E f, g \in Fun : MoveFunction(f, g)

PoolSpec == PoolInit /\ [][PoolNext]_poolVars

-----------------------------------------------------------------------------
PoolTypeOK == /\ heap.head \in Block \union {Null}
              /\ heap.next \in [Block -> Block \union {Null}]
              /\ heap.own \in [Slot -> Block \union {Null}]
              /\ heap.list \in Seq(Block)
              /\ ok \in [Res -> BOOLEAN]
              /\ size \in [Block -> 0 .. maxSize]

(* The pointers from the head on go through the blocks of the list, each   *)
(* once, and end; the list itself is kept for the properties only.         *)
FreeListWhole ==
    LET s == heap.list
    IN  /\ heap.head = IF s = <<>> THEN Null ELSE s[1]
        /\ \A i \in 1 .. Len(s) : heap.next[s[i]] = IF i = Len(s) THEN Null ELSE s[i + 1]
        /\ \A i, j \in 1 .. Len(s) : s[i] = s[j] => i = j

(* Every block is free or has exactly one owner, after any sequence of     *)
(* moves, failures and destructions: none leaks, and none is freed while   *)
(* something points to it.                                                 *)
Free(b) == \E i \in 1 .. Len(heap.list) : heap.list[i] = b
Owned(b) == \E s \in Slot : heap.own[s] = b
Partition == /\ \A b \in Block : Free(b) <=> ~Owned(b)
             /\ \A s, t \in Slot : heap.own[s] = heap.own[t] /\ heap.own[s] # Null => s = t

(* What nobody would destroy holds nothing: a result that is not ok, the   *)
(* capture of a block that is no function's, a temporary.                  *)
NothingStranded == /\ \A r \in Res : ~ok[r] => heap.own[r] = Null
                   /\ \A b \in Block : heap.own[b] # Null => \E f \in Fun : heap.own[f] = b
                   /\ heap.own[Temp] = Null

(* After any sequence of statements every block is free or has one owner,  *)
(* and the free list is whole.                                             *)
OwnersKnown == PoolTypeOK /\ FreeListWhole /\ Partition /\ NothingStranded
=============================================================================
