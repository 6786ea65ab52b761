---------------------------- MODULE SharedMemory ----------------------------
(***************************************************************************)
(* A shared linear memory (vm/threads): its atomic wait and notify, which  *)
(* park threads in queues linked through the waiters themselves, and its   *)
(* growth, which publishes the new length to running code.                 *)
(*                                                                         *)
(* Sizes and addresses are in words. What happens under one hold of a lock *)
(* is one step. An optional link is a set of at most one thread.           *)
(***************************************************************************)
EXTENDS Naturals, Sequences, FiniteSets

CONSTANTS
    Threads,
    Keys,       \* the addresses used, in words
    Values,     \* what a word can hold
    Minimum, Maximum,   \* the size of the memory, in words
    Deltas,     \* the growths a program asks for, in words
    Deadlines   \* how a wait is called: "none", "future" or "past"

ASSUME SizesAssumption == Minimum \in Nat /\ Maximum \in Nat /\ Minimum <= Maximum
ASSUME ThreadsAssumption == IsFiniteSet(Threads)
ASSUME KeysAssumption == Keys \subseteq Nat
ASSUME DeltasAssumption == Deltas \subseteq Nat

VARIABLES
    word,       \* the contents of the memory
    len,        \* MmapMemory::len, under the write lock
    current_length,     \* VMMemoryDefinition::current_length
    locked,     \* whether a thread holds the write lock of `memory`
    lot,        \* the parking table: the ends of each queue, and each waiter's fields
    token,      \* the park token of each thread
    pc,         \* what each thread is doing
    call,       \* the arguments of a wait that is in progress
    stored,     \* history: the addresses stored to since all their waiters were notified
    returned    \* what the call that just finished returned: its thread, result and address or count

vars == <<word, len, current_length, locked, lot, token, pc, call, stored, returned>>
memory == <<len, current_length, locked>>

NoCall == [key |-> 0, expected |-> 0, deadline |-> "none", new_len |-> 0]

Init ==
    /\ word \in [Keys -> Values]
    /\ len = Minimum
    /\ current_length = Minimum
    /\ locked = FALSE
    /\ lot = [head |-> [k \in Keys |-> {}], tail |-> [k \in Keys |-> {}],
              next |-> [t \in Threads |-> {}], prev |-> [t \in Threads |-> {}],
              notified |-> [t \in Threads |-> FALSE]]
    /\ token = [t \in Threads |-> FALSE]
    /\ pc = [t \in Threads |-> "idle"]
    /\ call = [t \in Threads |-> NoCall]
    /\ stored = {}
    /\ returned = {}

-----------------------------------------------------------------------------
(* The queues *)

push(l, k, t) ==
    [l EXCEPT !.head = [l.head EXCEPT ![k] = IF l.tail[k] = {} THEN {t} ELSE l.head[k]],
              !.tail = [l.tail EXCEPT ![k] = {t}],
              !.next = [u \in Threads |-> IF u \in l.tail[k] THEN {t} ELSE l.next[u]],
              !.prev = [l.prev EXCEPT ![t] = l.tail[k]]]

RemoveFirst(l, k, t) ==
    [l EXCEPT !.head = [l.head EXCEPT ![k] = l.next[t]],
              !.tail = [l.tail EXCEPT ![k] = IF l.next[t] = {} THEN {} ELSE l.tail[k]],
              !.next = [l.next EXCEPT ![t] = {}],
              !.prev = [u \in Threads |-> IF u = t \/ u \in l.next[t] THEN {} ELSE l.prev[u]]]

remove(l, k, t) ==
    [l EXCEPT !.head = [l.head EXCEPT ![k] = IF l.prev[t] = {} THEN l.next[t] ELSE l.head[k]],
              !.tail = [l.tail EXCEPT ![k] = IF l.next[t] = {} THEN l.prev[t] ELSE l.tail[k]],
              !.next = [u \in Threads |-> IF u = t THEN {}
                                          ELSE IF u \in l.prev[t] THEN l.next[t] ELSE l.next[u]],
              !.prev = [u \in Threads |-> IF u = t THEN {}
                                          ELSE IF u \in l.next[t] THEN l.prev[t] ELSE l.prev[u]]]

\* The waiter's flag.
Flag(l, t, b) == [l EXCEPT !.notified = [l.notified EXCEPT ![t] = b]]

\* The table and the threads popped after at most n turns of the loop of notify.
NotifyLoop(l, k, n) ==
    LET turn[i \in 0..n] ==
            IF i = 0 THEN [lot |-> l, popped |-> {}]
            ELSE LET p == turn[i - 1]
                 IN  IF p.lot.head[k] = {} THEN p
                     ELSE LET h == CHOOSE t \in p.lot.head[k] : TRUE
                          IN  [lot |-> Flag(remove(p.lot, k, h), h, TRUE),
                               popped |-> p.popped \cup {h}]
    IN  turn[n]

\* validate_atomic_addr for an aligned word.
ValidAddr(k) == k + 1 < current_length

Become(t, state) == pc' = [pc EXCEPT ![t] = state]
Finish(t, result, k) ==
    /\ Become(t, "idle")
    /\ call' = [call EXCEPT ![t] = NoCall]
    /\ returned' = {<<t, result, k>>}

-----------------------------------------------------------------------------
(* Steps of the threads *)

Store(t) == \E k \in Keys, v \in Values :
    /\ pc[t] = "idle" /\ k < current_length
    /\ word' = [word EXCEPT ![k] = v]
    /\ stored' = IF v = word[k] THEN stored ELSE stored \cup {k}
    /\ returned' = {}
    /\ UNCHANGED <<memory, lot, token, pc, call>>

\* A call with an address that is not accepted.
AddrTrap(t) == \E k \in Keys :
    /\ pc[t] = "idle" /\ ~ValidAddr(k)
    /\ returned' = {<<t, "Trap", k>>}
    /\ UNCHANGED <<word, memory, lot, token, pc, call, stored>>

Enqueue(t, k, e, d) ==
    /\ lot' = push(Flag(lot, t, FALSE), k, t)
    /\ Become(t, "parked")
    /\ call' = [call EXCEPT ![t] = [NoCall EXCEPT !.key = k, !.expected = e, !.deadline = d]]
    /\ returned' = {}
    /\ UNCHANGED <<word, memory, token, stored>>

WaitUnvalidated(t) == \E k \in Keys, e \in Values, d \in Deadlines \ {"past"} :
    /\ pc[t] = "idle" /\ ValidAddr(k)
    /\ Enqueue(t, k, e, d)

\* wait: under the lock, the word is compared and the thread enqueued.
Wait(t) == \E k \in Keys, e \in Values, d \in Deadlines \ {"past"} :
    /\ pc[t] = "idle" /\ ValidAddr(k)
    /\ word[k] = e
    /\ Enqueue(t, k, e, d)

\* wait whose comparison fails, or whose deadline has passed before it parks.
WaitReturns(t) == \E k \in Keys, e \in Values :
    /\ pc[t] = "idle" /\ ValidAddr(k)
    /\ \/ word[k] # e /\ Finish(t, "Mismatch", k) /\ UNCHANGED lot
       \/ /\ word[k] = e /\ "past" \in Deadlines
          /\ lot' = remove(push(Flag(lot, t, FALSE), k, t), k, t)
          /\ Finish(t, "TimedOut", k)
    /\ UNCHANGED <<word, memory, token, stored>>

\* The system's side of a park: time passes, and park_timeout returns for a token, for
\* the deadline or for no reason.
Expire(t) ==
    /\ call[t].deadline = "future"
    /\ call' = [call EXCEPT ![t].deadline = "past"]
    /\ returned' = {}
    /\ UNCHANGED <<word, memory, lot, token, pc, stored>>

ParkReturns(t) ==
    /\ pc[t] = "parked"
    /\ Become(t, "awake")
    /\ token' = [token EXCEPT ![t] = FALSE]
    /\ returned' = {}
    /\ UNCHANGED <<word, memory, lot, call, stored>>

RelockTimeFirst(t) ==
    /\ pc[t] = "awake"
    /\ IF call[t].deadline = "past"
       THEN /\ lot' = remove(lot, call[t].key, t)
            /\ Finish(t, "TimedOut", call[t].key)
       ELSE IF lot.notified[t] THEN Finish(t, "Ok", call[t].key) /\ UNCHANGED lot
       ELSE Become(t, "parked") /\ returned' = {} /\ UNCHANGED <<lot, call>>
    /\ UNCHANGED <<word, memory, token, stored>>

RelockNoDeadline(t) ==
    /\ pc[t] = "awake"
    /\ \/ lot.notified[t] /\ Finish(t, "Ok", call[t].key)
       \/ ~lot.notified[t] /\ Become(t, "parked") /\ returned' = {} /\ UNCHANGED call
    /\ UNCHANGED <<word, memory, lot, token, stored>>

\* The rest of wait once the lock is held again.
Relock(t) ==
    /\ pc[t] = "awake"
    /\ \/ lot.notified[t] /\ Finish(t, "Ok", call[t].key) /\ UNCHANGED lot
       \/ /\ ~lot.notified[t] /\ call[t].deadline = "past"
          /\ lot' = remove(lot, call[t].key, t)
          /\ Finish(t, "TimedOut", call[t].key)
       \/ /\ ~lot.notified[t] /\ call[t].deadline # "past"
          /\ Become(t, "parked") /\ returned' = {} /\ UNCHANGED <<lot, call>>
    /\ UNCHANGED <<word, memory, token, stored>>

NotifyNoUnpark(t) == \E k \in Keys, n \in 0..Cardinality(Threads) :
    LET r == NotifyLoop(lot, k, n)
    IN  /\ pc[t] = "idle" /\ ValidAddr(k)
        /\ lot' = r.lot
        /\ stored' = IF Cardinality(r.popped) < n THEN stored \ {k} ELSE stored
        /\ returned' = {<<t, "Notified", Cardinality(r.popped)>>}
        /\ UNCHANGED <<word, memory, token, pc, call>>

\* notify. n = Cardinality(Threads) stands for any larger count.
Notify(t) == \E k \in Keys, n \in 0..Cardinality(Threads) :
    LET r == NotifyLoop(lot, k, n)
    IN  /\ pc[t] = "idle" /\ ValidAddr(k)
        /\ lot' = r.lot
        /\ token' = [u \in Threads |-> token[u] \/ u \in r.popped]
        /\ stored' = IF Cardinality(r.popped) < n THEN stored \ {k} ELSE stored
        /\ returned' = {<<t, "Notified", Cardinality(r.popped)>>}
        /\ UNCHANGED <<word, memory, pc, call>>

GrowUnlocked(t) == \E delta \in Deltas :
    /\ pc[t] = "idle" /\ len + delta <= Maximum
    /\ len' = len + delta
    /\ call' = [call EXCEPT ![t] = [NoCall EXCEPT !.new_len = len + delta]]
    /\ Become(t, "growing") /\ returned' = {}
    /\ UNCHANGED <<word, current_length, locked, lot, token, stored>>

\* grow with the write lock held. Growth beyond the maximum, or that the system refuses,
\* changes nothing and drops the lock at once.
Grow(t) == \E delta \in Deltas :
    /\ pc[t] = "idle" /\ len + delta <= Maximum /\ ~locked
    /\ locked' = TRUE
    /\ len' = len + delta
    /\ call' = [call EXCEPT ![t] = [NoCall EXCEPT !.new_len = len + delta]]
    /\ Become(t, "growing") /\ returned' = {}
    /\ UNCHANGED <<word, current_length, lot, token, stored>>

\* The new length becomes visible, and the lock is dropped.
Publish(t) ==
    /\ pc[t] = "growing"
    /\ current_length' = call[t].new_len
    /\ locked' = FALSE
    /\ Finish(t, "Grown", call[t].new_len)
    /\ UNCHANGED <<word, len, lot, token, stored>>

Next == \E t \in Threads :
    \/ Store(t) \/ AddrTrap(t) \/ Wait(t) \/ WaitReturns(t) \/ Expire(t)
    \/ ParkReturns(t) \/ Relock(t) \/ Notify(t) \/ Grow(t) \/ Publish(t)

\* Time passes, a park with a token or a past deadline returns, the lock is granted and
\* a thread that holds the write lock goes on. Nobody has to wait, store or notify.
Fairness == \A t \in Threads :
    /\ WF_vars(Expire(t))
    /\ WF_vars((token[t] \/ call[t].deadline = "past") /\ ParkReturns(t))
    /\ WF_vars(Relock(t))
    /\ WF_vars(Publish(t))

Spec == Init /\ [][Next]_vars
FairSpec == Spec /\ Fairness

-----------------------------------------------------------------------------
(* Properties *)

\* The queue of an address, along its links from the head.
QueueOf(l, k) ==
    LET walk[i \in 0..Cardinality(Threads)] ==
            IF i = 0 THEN [queue |-> <<>>, at |-> l.head[k]]
            ELSE LET p == walk[i - 1]
                 IN  IF p.at = {} THEN p
                     ELSE LET t == CHOOSE u \in p.at : TRUE
                          IN  [queue |-> Append(p.queue, t), at |-> l.next[t]]
    IN  walk[Cardinality(Threads)].queue

InWait(t) == pc[t] \in {"parked", "awake"}

\* The links of a queue agree in both directions, the threads on it are the ones that
\* wait there unnotified, and every other waiter has no links: the assertions of wait,
\* push and notify.
LinksAgree ==
    /\ \A k \in Keys :
          LET q == QueueOf(lot, k)
          IN  /\ {q[i] : i \in DOMAIN q}
                    = {t \in Threads : InWait(t) /\ call[t].key = k /\ ~lot.notified[t]}
              /\ lot.tail[k] = IF q = <<>> THEN {} ELSE {q[Len(q)]}
              /\ \A i \in DOMAIN q : lot.prev[q[i]] = IF i = 1 THEN {} ELSE {q[i - 1]}
    /\ \A t \in Threads : ~InWait(t) \/ lot.notified[t] => lot.next[t] = {} /\ lot.prev[t] = {}

\* No wake-up is lost: unless a store to the address has not been followed by a
\* notification of all its waiters, whoever sleeps there expects the value that is there
\* (wait compares under the lock that notify takes).
NobodySleepsOnAStaleValue == \A t \in Threads :
    InWait(t) /\ ~lot.notified[t] /\ call[t].key \notin stored => word[call[t].key] = call[t].expected

\* The length that compiled code reads is never ahead of the memory that is mapped, and
\* is that memory whenever no growth is in progress.
LengthIsMapped == current_length <= len /\ (~locked => current_length = len)

\* "assumption: memory only grows": two threads that grow the memory cannot publish
\* their lengths in the other order.
LengthOnlyGrows == [][current_length' >= current_length]_vars

\* The documentation of atomic_notify and atomic_wait32: "This function will return an
\* error if `addr` is not within bounds or not aligned".
TrapsOnlyOutOfBounds == \A r \in returned : r[2] = "Trap" => r[3] + 1 > current_length

\* A notified thread, and one with a deadline, returns.
NotifiedReturns == \A t \in Threads : InWait(t) /\ lot.notified[t] ~> ~InWait(t)
DeadlineReturns == \A t \in Threads : InWait(t) /\ call[t].deadline # "none" ~> ~InWait(t)

Abstract == INSTANCE Futex WITH
    queue <- [k \in Keys |-> QueueOf(lot, k)],
    woken <- {t \in Threads : InWait(t) /\ lot.notified[t]},
    returned <- {r \in returned : r[2] # "Grown"}

\* Waiters queue in order, a notification takes the first of them, and a wait returns Ok
\* exactly when a notification counted it, although a time-out can come in between.
ImplementsFutex == Abstract!Spec
=============================================================================
