-------------------------------- MODULE Futex -------------------------------
(***************************************************************************)
(* What atomic wait and notify promise: threads queue up on an address in  *)
(* the order they came, a notification takes the first of them, and what   *)
(* a wait returns says whether a notification took it or its time ran out. *)
(***************************************************************************)
EXTENDS Naturals, Sequences

CONSTANTS Threads, Keys

VARIABLES
    queue,      \* the threads that wait on each address, in order
    woken,      \* the threads that a notification took and that have not returned
    returned    \* what the call that just finished returned, and its address or count

vars == <<queue, woken, returned>>

Init == queue = [k \in Keys |-> <<>>] /\ woken = {} /\ returned = {}

\* The queue without the thread at a place of it, and without a thread.
Cut(q, i) == [j \in 1..(Len(q) - 1) |-> IF j < i THEN q[j] ELSE q[j + 1]]
Without(q, t) == IF \E i \in DOMAIN q : q[i] = t THEN Cut(q, CHOOSE i \in DOMAIN q : q[i] = t) ELSE q

Waiting == woken \cup UNION {{queue[k][i] : i \in DOMAIN queue[k]} : k \in Keys}

Wait(t) == \E k \in Keys :
    /\ t \notin Waiting
    /\ queue' = [queue EXCEPT ![k] = Append(queue[k], t)]
    /\ returned' = {}
    /\ UNCHANGED woken

\* A call that finishes without waiting, or after it waited in vain.
Return(t) ==
    /\ t \notin woken
    /\ \E r \in {"Mismatch", "TimedOut", "Trap"}, k \in Keys : returned' = {<<t, r, k>>}
    /\ queue' = [k \in Keys |-> Without(queue[k], t)]
    /\ UNCHANGED woken

Wake(t) == \E k \in Keys : \E n \in 0..Len(queue[k]) :
    /\ queue' = [queue EXCEPT ![k] = SubSeq(queue[k], n + 1, Len(queue[k]))]
    /\ woken' = woken \cup {queue[k][i] : i \in 1..n}
    /\ returned' = {<<t, "Notified", n>>}

ReturnOk(t) ==
    /\ t \in woken
    /\ woken' = woken \ {t}
    /\ \E k \in Keys : returned' = {<<t, "Ok", k>>}
    /\ UNCHANGED queue

\* Whatever else a thread does.
Other == returned' = {} /\ UNCHANGED <<queue, woken>>

Next == Other \/ \E t \in Threads : Wait(t) \/ Return(t) \/ Wake(t) \/ ReturnOk(t)

Spec == Init /\ [][Next]_vars
=============================================================================
