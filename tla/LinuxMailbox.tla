---------------------------- MODULE LinuxMailbox ----------------------------
(***************************************************************************)
(* The mailbox of the Linux port (lib/linux/include/spacket/impl/          *)
(* mailbox_impl_p.h): one optional message, a mutex and a condition        *)
(* variable.  A step is what runs while the mutex is held.  A thread in    *)
(* fetch is awake (it was notified, its time is up, or nothing at all      *)
(* happened: wait_for may return spuriously) or it waits.                  *)
(*                                                                         *)
(* Operators named ...Faulty are wrong on purpose and used nowhere.        *)
(***************************************************************************)
EXTENDS Messages

CONSTANT Reader

VARIABLES message,
          fetching,   \* the readers in a call of fetch
          waiting,    \* those of them that wait on the condition variable
          expired,    \* those whose time is up
          fetched

linuxVars == <<message, fetching, waiting, expired, fetched>>

LinuxInit == /\ message = NoMessage
             /\ fetching = {} /\ waiting = {} /\ expired = {}
             /\ fetched = [r \in Reader |-> NoMessage]

(* full.notify_one() wakes one of the waiting readers, none when none waits. *)
notify_one == IF waiting = {} THEN UNCHANGED waiting
              ELSE \E r \in waiting : waiting' = waiting \ {r}

replace == /\ message' \in Message
           /\ notify_one
           /\ UNCHANGED <<fetching, expired, fetched>>

LinuxCall(r) == /\ r \notin fetching
                /\ fetching' = fetching \union {r}
                /\ fetched' = [fetched EXCEPT ![r] = NoMessage]
                /\ UNCHANGED <<message, waiting, expired>>

Awake(r) == r \in fetching \ waiting

Leave(r) == fetching' = fetching \ {r} /\ expired' = expired \ {r}

LinuxFetchFaulty(r) == /\ Awake(r)
                       /\ message # NoMessage
                       /\ fetched' = [fetched EXCEPT ![r] = message]
                       /\ Leave(r)
                       /\ UNCHANGED <<message, waiting>>
(* The predicate is asked first, also when the time is up. *)
LinuxFetch(r) == /\ Awake(r)
                 /\ message # NoMessage
                 /\ fetched' = [fetched EXCEPT ![r] = message]
                 /\ message' = NoMessage
                 /\ Leave(r)
                 /\ UNCHANGED waiting

Wait(r) == /\ Awake(r)
           /\ message = NoMessage /\ r \notin expired
           /\ waiting' = waiting \union {r}
           /\ UNCHANGED <<message, fetching, expired, fetched>>

Fail(r) == /\ Awake(r)
           /\ message = NoMessage /\ r \in expired
           /\ Leave(r)
           /\ UNCHANGED <<message, waiting, fetched>>

(* Time runs out, for a waiting reader or for one that is already awake. *)
Expire(r) == /\ r \in fetching
             /\ expired' = expired \union {r}
             /\ waiting' = waiting \ {r}
             /\ UNCHANGED <<message, fetching, fetched>>

WakeSpuriously(r) == /\ r \in waiting
                     /\ waiting' = waiting \ {r}
                     /\ UNCHANGED <<message, fetching, expired, fetched>>

LinuxTurn(r) == LinuxFetch(r) \/ Wait(r) \/ Fail(r)

LinuxNext == replace \/ \E r \in Reader : LinuxCall(r) \/ LinuxTurn(r) \/ Expire(r) \/ WakeSpuriously(r)

(* A reader that is awake gets the mutex.  Nothing is promised of time. *)
LinuxSpec == LinuxInit /\ [][LinuxNext]_linuxVars /\ \A r \in Reader : WF_linuxVars(LinuxTurn(r))

-----------------------------------------------------------------------------
LinuxTypeOK == /\ message \in Message \union {NoMessage}
               /\ fetching \subseteq Reader
               /\ waiting \subseteq fetching \ expired
               /\ expired \subseteq fetching
               /\ fetched \in [Reader -> Message \union {NoMessage}]

(* A notification may go to a reader whose time is up or that is overtaken *)
(* by another one; still, when readers wait while there is a message,      *)
(* somebody is awake who will take it.                                     *)
NoLostNotification ==
    message # NoMessage /\ waiting # {} => \E r \in Reader : Awake(r)

(* The mailbox is the slot that the mailbox of the ChibiOS port also is. *)
OneSlot == INSTANCE Slot WITH slot <- message, got <- fetched
ImplementsSlot == OneSlot!Spec

(* A message and a waiting reader do not stay together. *)
WaitersServed == (message # NoMessage /\ waiting # {}) ~> (message = NoMessage \/ waiting = {})
=============================================================================
