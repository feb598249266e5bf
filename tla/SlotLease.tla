---------------------------- MODULE SlotLease ----------------------------
(* What the in-process claim guard of the intake lane promises, with no    *)
(* poller in it: a task is leased to at most one holder at a time, a lease *)
(* may pass from the worker pool's queue to one worker, and every lease    *)
(* dies with the process (poller.py, the comment on self._inflight).       *)
CONSTANTS Tasks,    \* the tasks of the queue
          Holders,  \* the threads that handle tasks
          Pool      \* the executor's queue, where a lease waits for a worker

VARIABLE leases     \* leases[t] is the set of holders of task t

NoLeases == [t \in Tasks |-> {}]

Init == leases = NoLeases

\* Somebody takes a task nobody holds.
Acquire(t, h) ==
    /\ leases[t] = {}
    /\ leases' = [leases EXCEPT ![t] = {h}]

\* A worker starts what the pool's queue was holding.
Handover(t, h) ==
    /\ leases[t] = {Pool}
    /\ leases' = [leases EXCEPT ![t] = {h}]

\* The holder is through with the task, whatever became of it.
Drop(t, h) ==
    /\ leases[t] = {h}
    /\ leases' = [leases EXCEPT ![t] = {}]

\* The process dies; nothing of the guard survives it.
Lost == leases' = NoLeases

Next ==
    \/ \E t \in Tasks, h \in Holders \cup {Pool} : Acquire(t, h)
    \/ \E t \in Tasks, h \in Holders : Handover(t, h) \/ Drop(t, h)
    \/ Lost

Spec == Init /\ [][Next]_leases
==========================================================================
