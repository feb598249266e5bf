------------------------- MODULE IntakeLane_proofs -------------------------
(* Proofs about the intake lane, for every set of tasks, every number of   *)
(* workers and every bound: that its state is well typed, that its claim   *)
(* guard excludes, and that work in the queue stays on offer.              *)
EXTENDS IntakeLane, TLAPS

----------------------------------------------------------------------------
(* What a PATCH does to the rows                                           *)

\* A PATCH to a legal status and hold leaves a table of rows.
LEMMA PutTyped ==
    ASSUME row \in [Tasks -> Rows], NEW t \in Tasks,
           NEW status \in Statuses, NEW held \in HoldKinds,
           Put(t, status, held)
    PROVE  row' \in [Tasks -> Rows]
BY DEF Put, Rows

\* So does one that is answered 409 because the row was cancelled.
LEMMA PutUnlessCancelledTyped ==
    ASSUME row \in [Tasks -> Rows], NEW t \in Tasks,
           NEW status \in Statuses, NEW held \in HoldKinds,
           PutUnlessCancelled(t, status, held)
    PROVE  row' \in [Tasks -> Rows]
BY PutTyped DEF PutUnlessCancelled

\* The status and the hold a row has are legal ones.
LEMMA RowFields ==
    ASSUME row \in [Tasks -> Rows], NEW t \in Tasks
    PROVE  row[t].status \in Statuses /\ row[t].held \in HoldKinds
BY DEF Rows

\* What one discovery saw of a task is a job.
LEMMA SnapshotIsJob ==
    ASSUME row \in [Tasks -> Rows], NEW t \in Tasks
    PROVE  /\ Snapshot(t) \in Jobs /\ Snapshot(t).task = t
           /\ Snapshot(t).ver = row[t].ver
BY DEF Snapshot, Jobs, Rows

\* A handler that is not idle has a job.
LEMMA BusyHasJob ==
    ASSUME TypeOK, NEW h \in Handlers, pc[h] # "idle"
    PROVE  /\ job[h] \in Jobs /\ job[h].task \in Tasks
           /\ job[h].ver \in Nat /\ job[h].start \in Nat
BY DEF TypeOK, Jobs

----------------------------------------------------------------------------
(* Type correctness                                                        *)

USE DEF rowVars, storeVars, hostVars, dispVars, runVars, recVars, histVars

LEMMA DispatchTyped == TypeOK /\ Dispatch => TypeOK'
<1> SUFFICES ASSUME TypeOK, Dispatch PROVE TypeOK'
    OBVIOUS
<1>1. Cooled \in [Tasks -> 0 .. CooldownTicks]
    BY LaneAssumption DEF TypeOK, Cooled
<1>2. CASE IdleTick
    BY <1>1, <1>2 DEF TypeOK, IdleTick
<1>3. CASE Discover
    <2>1. Fresh \subseteq Jobs
        BY SnapshotIsJob DEF Fresh, TypeOK
    <2> QED
        BY <1>1, <1>3, <2>1 DEF TypeOK, Discover
<1>4. CASE SkipCooling
    BY <1>4 DEF TypeOK, SkipCooling, Considered
<1>5. CASE SeeRoom
    BY <1>5 DEF TypeOK, SeeRoom
<1>6. CASE Submit
    <2>1. \A j \in Jobs : j.task \in Tasks
        BY DEF Jobs
    <2> QED
        BY <1>6, <2>1 DEF TypeOK, Submit, Considered, IsFirst
<1> QED
    BY <1>2, <1>3, <1>4, <1>5, <1>6 DEF Dispatch

\* Taking a job and its slot.
LEMMA TakeJobTyped ==
    ASSUME TypeOK, NEW h \in Handlers, TakeJob(h)
    PROVE  TypeOK'
<1>1. \A j \in Jobs : j.task \in Tasks /\ FirstStep(j) \in Steps \ {"idle"}
    BY DEF Jobs, FirstStep, Steps
<1>2. NoJob \notin Jobs
    BY LaneAssumption
<1>3. CASE h # Fast /\ Start(h)
    BY <1>1, <1>2, <1>3 DEF TypeOK, Start, Go
<1>4. CASE h = Fast /\ FastTake
    <2>1. \A t \in RealTime : Snapshot(t) \in Jobs
        BY SnapshotIsJob, LaneAssumption DEF TypeOK
    <2> QED
        BY <1>2, <1>4, <2>1 DEF TypeOK, FastTake, Go, Steps
<1>5. CASE h = Fast /\ FastSlot
    <2>1. job[Fast] \in Jobs
        BY <1>5, BusyHasJob DEF FastSlot
    <2> QED
        BY <1>1, <1>2, <1>5, <2>1 DEF TypeOK, FastSlot, Go, Steps
<1> QED
    BY <1>3, <1>4, <1>5 DEF TakeJob

\* What a handler does with its job.
LEMMA HandleTyped ==
    ASSUME TypeOK, NEW h \in Handlers, Handle(h)
    PROVE  TypeOK'
<1>1. pc[h] # "idle" /\ NoJob \notin Jobs
    BY LaneAssumption DEF Handle, PassPause, Lift, HoldForLimit, Claim,
        ClaimFails, Mark, Record, Report, EndUnreported, HandBack, HitLimit,
        Requeue, Release, Forget
<1> DEFINE t == job[h].task
<1>2. job[h] \in Jobs /\ t \in Tasks /\ Sig(job[h]) \in Tasks \X Nat
    BY <1>1, BusyHasJob DEF Sig
<1>3. row[t].status \in Statuses /\ row[t].held \in HoldKinds
    BY <1>2, RowFields DEF TypeOK
<1>4. ASSUME NEW step \in Steps \ {"idle"}, Go(h, step), UNCHANGED job
      PROVE  /\ pc' \in [Handlers -> Steps]
             /\ job' \in [Handlers -> Jobs \cup {NoJob}]
             /\ \A g \in Handlers : pc'[g] = "idle" <=> job'[g] = NoJob
    BY <1>1, <1>4 DEF TypeOK, Go
<1>5. {"queued", "in_progress", "done"} \subseteq Statuses
      /\ {"timed", "person"} \subseteq HoldKinds
    BY DEF Statuses, HoldKinds
<1>6. ASSUME NEW status \in Statuses, NEW held \in HoldKinds,
             Put(t, status, held) \/ PutUnlessCancelled(t, status, held)
      PROVE  row' \in [Tasks -> Rows]
    BY <1>2, <1>6, PutTyped, PutUnlessCancelledTyped DEF TypeOK
<1>7. \A accident : Happens(accident) => left' \in Nat
    BY DEF Happens, TypeOK
<1>8. {"lift", "claim", "mark", "record", "run", "requeue", "release",
       "forget"} \subseteq Steps \ {"idle"}
    BY DEF Steps
<1> HIDE DEF t
<1>9. CASE PassPause(h)
    BY <1>4, <1>8, <1>9 DEF TypeOK, PassPause, Admit, Finally
<1>10. CASE Lift(h)
    BY <1>4, <1>8, <1>10 DEF TypeOK, Lift, Admit, Finally
<1>11. CASE HoldForLimit(h)
    BY <1>3, <1>4, <1>5, <1>6, <1>7, <1>8, <1>11
    DEF TypeOK, HoldForLimit, Finally, t
<1>12. CASE Claim(h)
    BY <1>2, <1>3, <1>4, <1>5, <1>6, <1>8, <1>12, LaneAssumption
    DEF TypeOK, Claim, AfterClaim, t
<1>13. CASE ClaimFails(h)
    BY <1>2, <1>3, <1>4, <1>5, <1>6, <1>7, <1>8, <1>13, LaneAssumption
    DEF TypeOK, ClaimFails, CooldownAfterRefusal, Finally, t
<1>14. CASE Mark(h)
    BY <1>2, <1>4, <1>8, <1>14 DEF TypeOK, Mark, Begin
<1>15. CASE Record(h)
    BY <1>2, <1>4, <1>8, <1>15 DEF TypeOK, Record, Begin, t
<1>16. CASE Report(h)
    BY <1>3, <1>4, <1>5, <1>6, <1>8, <1>16 DEF TypeOK, Report, Finally, t
<1>17. CASE EndUnreported(h)
    BY <1>4, <1>7, <1>8, <1>17 DEF TypeOK, EndUnreported, Finally
<1>18. CASE HandBack(h)
    BY <1>3, <1>4, <1>5, <1>6, <1>7, <1>8, <1>18
    DEF TypeOK, HandBack, Finally, t
<1>19. CASE HitLimit(h)
    BY <1>4, <1>7, <1>8, <1>19 DEF TypeOK, HitLimit
<1>20. CASE Requeue(h)
    BY <1>3, <1>4, <1>5, <1>6, <1>7, <1>8, <1>20
    DEF TypeOK, Requeue, Finally, t
<1>21. CASE Release(h)
    BY <1>4, <1>8, <1>21 DEF TypeOK, Release
<1>22. CASE Forget(h)
    BY <1>1, <1>22 DEF TypeOK, Forget, WithoutRecord, Go, Steps
<1> QED
    BY <1>9, <1>10, <1>11, <1>12, <1>13, <1>14, <1>15, <1>16, <1>17, <1>18,
       <1>19, <1>20, <1>21, <1>22 DEF Handle

LEMMA RecoverTyped == TypeOK /\ Recover => TypeOK'
<1> SUFFICES ASSUME TypeOK, Recover PROVE TypeOK'
    OBVIOUS
<1>1. CASE TakeOrphans
    BY <1>1 DEF TypeOK, TakeOrphans
<1>2. CASE ReadOrphan
    BY <1>2 DEF TypeOK, ReadOrphan, Settled
<1>3. CASE RequeueOrphan
    <2>1. PICK t \in todo : /\ \/ PutUnlessCancelled(t, "queued", row[t].held)
                               \/ UNCHANGED row
                            /\ Settled(t)
        BY <1>3 DEF RequeueOrphan
    <2>2. t \in Tasks /\ row[t].held \in HoldKinds /\ "queued" \in Statuses
        BY RowFields DEF TypeOK, Statuses
    <2>3. row' \in [Tasks -> Rows]
        BY <2>1, <2>2, PutUnlessCancelledTyped DEF TypeOK
    <2> QED
        BY <1>3, <2>1, <2>3 DEF TypeOK, RequeueOrphan, Settled
<1> QED
    BY <1>1, <1>2, <1>3 DEF Recover

LEMMA EnvironmentTyped == TypeOK /\ Environment => TypeOK'
<1> SUFFICES ASSUME TypeOK, Environment PROVE TypeOK'
    OBVIOUS
<1>1. CASE Crash
    <2>1. /\ cooldown' \in [Tasks -> 0 .. CooldownTicks]
          /\ pc' \in [Handlers -> Steps]
          /\ job' \in [Handlers -> Jobs \cup {NoJob}]
          /\ \A h \in Handlers : pc'[h] = "idle" /\ job'[h] = NoJob
        BY <1>1, LaneAssumption DEF Crash, Steps
    <2>2. left' \in Nat
        BY <1>1 DEF Crash, Happens, TypeOK
    <2> QED
        BY <1>1, <2>1, <2>2 DEF TypeOK, Crash
<1>2. CASE Restart
    BY <1>2 DEF TypeOK, Restart
<1>3. CASE LimitResets
    BY <1>3 DEF TypeOK, LimitResets
<1>4. CASE \E t \in Tasks : \/ Create(t) \/ HoldExpires(t) \/ Resume(t)
                            \/ StartNow(t) \/ Cancel(t)
                            \/ SweptAndRetried(t)
                            \/ TakenElsewhere(t) \/ FinishedElsewhere(t)
    <2>1. PICK t \in Tasks : \/ Create(t) \/ HoldExpires(t) \/ Resume(t)
                            \/ StartNow(t) \/ Cancel(t)
                            \/ SweptAndRetried(t)
                            \/ TakenElsewhere(t) \/ FinishedElsewhere(t)
        BY <1>4
    <2>2. /\ row[t].status \in Statuses /\ row[t].held \in HoldKinds
          /\ {"queued", "in_progress", "done", "cancelled"} \subseteq Statuses
          /\ "no" \in HoldKinds
        BY RowFields DEF TypeOK, Statuses, HoldKinds
    <2>3. row' \in [Tasks -> Rows]
        <3>1. ASSUME NEW status \in Statuses, NEW held \in HoldKinds,
                     Put(t, status, held) \/ PutUnlessCancelled(t, status, held)
              PROVE  row' \in [Tasks -> Rows]
            BY <3>1, PutTyped, PutUnlessCancelledTyped DEF TypeOK
        <3>2. CASE StartNow(t)
            BY <2>2, <3>2 DEF StartNow, TypeOK, Rows
        <3> QED
            BY <2>1, <2>2, <3>1, <3>2 DEF Create, HoldExpires, Resume, Cancel,
                SweptAndRetried, TakenElsewhere, FinishedElsewhere
    <2>4. elsewhere' \subseteq Shared /\ left' \in Nat /\ Outside
        BY <2>1 DEF TypeOK, Create, HoldExpires, Resume, StartNow, Cancel,
            SweptAndRetried, TakenElsewhere, FinishedElsewhere, Happens
    <2> QED
        BY <2>3, <2>4 DEF TypeOK, Outside
<1> QED
    BY <1>1, <1>2, <1>3, <1>4 DEF Environment

\* No step of the lane takes its state out of its types.
LEMMA TypePreserved == TypeOK /\ [Next]_vars => TypeOK'
<1>1. TypeOK /\ Next => TypeOK'
    BY DispatchTyped, TakeJobTyped, HandleTyped, RecoverTyped,
       EnvironmentTyped DEF Next
<1>2. TypeOK /\ UNCHANGED vars => TypeOK'
    BY DEF TypeOK, vars
<1> QED
    BY <1>1, <1>2

LEMMA TypeInitial == Init => TypeOK
<1> SUFFICES ASSUME Init PROVE TypeOK
    OBVIOUS
<1>1. row \in [Tasks -> Rows]
    BY DEF Init, Rows, Statuses, HoldKinds
<1>2. /\ cooldown \in [Tasks -> 0 .. CooldownTicks]
      /\ pc \in [Handlers -> Steps]
      /\ job \in [Handlers -> Jobs \cup {NoJob}]
      /\ \A h \in Handlers : pc[h] = "idle" /\ job[h] = NoJob
    BY LaneAssumption DEF Init, Steps
<1>3. left \in Nat
    BY LaneAssumption DEF Init
<1> QED
    BY <1>1, <1>2, <1>3 DEF Init, TypeOK

\* The lane is well typed, and nothing of a dead process is left in it.
THEOREM TypeCorrect == Spec => []TypeOK
BY TypeInitial, TypePreserved, PTL DEF Spec

----------------------------------------------------------------------------
(* Exclusion.  OneHandlerPerTask is not inductive: it needs the slots to   *)
(* be exactly the held tasks, so that a slot that is free is free of       *)
(* holders, and the two together are.                                      *)

SlotInv == OneHandlerPerTask /\ SlotsAreHeld

\* A step that leaves the slots, the pool and who holds what alone.
LEMMA HoldsUnchanged ==
    ASSUME SlotInv, UNCHANGED <<slots, pool>>,
           \A h \in Handlers, t \in Tasks : Holds(h, t)' <=> Holds(h, t),
           \A h \in Handlers : pc'[h] \in Holding =>
               pc[h] \in Holding /\ job'[h] = job[h]
    PROVE  SlotInv'
<1>1. OneHandlerPerTask'
    BY DEF SlotInv, OneHandlerPerTask, Pooled
<1>2. SlotsAreHeld'
    BY DEF SlotInv, SlotsAreHeld, Pooled
<1> QED
    BY <1>1, <1>2 DEF SlotInv

\* Submit takes a free slot for a job of the batch, and puts it in the pool.
LEMMA SubmitExcludes == TypeOK /\ SlotInv /\ Submit => SlotInv'
<1> SUFFICES ASSUME TypeOK, SlotInv, Submit PROVE SlotInv'
    OBVIOUS
<1>1. PICK j \in batch : IF Taken(j.task)
                         THEN UNCHANGED <<slots, pool>>
                         ELSE /\ slots' = slots \cup {j.task}
                              /\ pool' = pool \cup {j}
    BY DEF Submit
<1>2. UNCHANGED runVars /\ j.task \in Tasks
    BY DEF Submit, TypeOK, Jobs
<1>3. CASE Taken(j.task)
    BY <1>1, <1>2, <1>3, HoldsUnchanged DEF Holds
<1>4. CASE ~Taken(j.task)
    <2>1. /\ \A h \in Handlers : ~Holds(h, j.task)
          /\ ~Pooled(j.task)
        BY <1>2, <1>4 DEF SlotInv, SlotsAreHeld, Taken
    <2>2. \A t \in Tasks : Pooled(t)' <=> Pooled(t) \/ t = j.task
        BY <1>1, <1>4 DEF Pooled
    <2>3. \A h \in Handlers, t \in Tasks : Holds(h, t)' <=> Holds(h, t)
        BY <1>2 DEF Holds
    <2>4. OneHandlerPerTask'
        <3>1. \A k \in pool : k.task # j.task
            BY <2>1 DEF Pooled
        <3>2. \A k, l \in pool' : k.task = l.task => k = l
            BY <1>1, <1>4, <3>1 DEF SlotInv, OneHandlerPerTask
        <3> QED
            BY <1>2, <2>1, <2>2, <2>3, <3>2 DEF SlotInv, OneHandlerPerTask
    <2>5. SlotsAreHeld'
        BY <1>1, <1>2, <1>4, <2>2, <2>3 DEF SlotInv, SlotsAreHeld
    <2> QED
        BY <2>4, <2>5 DEF SlotInv
<1> QED
    BY <1>3, <1>4

LEMMA DispatchExcludes == TypeOK /\ SlotInv /\ Dispatch => SlotInv'
<1> SUFFICES ASSUME TypeOK, SlotInv, Dispatch PROVE SlotInv'
    OBVIOUS
<1>1. CASE Submit
    BY <1>1, SubmitExcludes
<1>2. CASE ~Submit
    <2>1. UNCHANGED <<slots, pool, pc, job>>
        BY <1>2 DEF Dispatch, IdleTick, Discover, SkipCooling, SeeRoom
    <2> QED
        BY <2>1, HoldsUnchanged DEF Holds
<1> QED
    BY <1>1, <1>2

\* A worker's job leaves the pool as its slot passes to the worker; the fast
\* lane takes a slot that is free.
LEMMA TakeJobExcludes ==
    ASSUME TypeOK, SlotInv, NEW h \in Handlers, TakeJob(h)
    PROVE  SlotInv'
<1>1. \A j \in Jobs : FirstStep(j) \in Holding
    BY DEF FirstStep, Holding, Steps
<1>2. CASE h # Fast /\ Start(h)
    <2>1. PICK j \in pool : /\ pool' = pool \ {j}
                            /\ job' = [job EXCEPT ![h] = j]
                            /\ pc' = [pc EXCEPT ![h] = FirstStep(j)]
        BY <1>2 DEF Start, Go
    <2>2. /\ pc[h] = "idle" /\ UNCHANGED slots
          /\ j \in Jobs /\ j.task \in Tasks
        BY <1>2 DEF Start, TypeOK, Jobs
    <2>3. Pooled(j.task) /\ \A g \in Handlers : ~Holds(g, j.task)
        BY <2>2 DEF Pooled, SlotInv, OneHandlerPerTask
    <2>4. \A t \in Tasks : Pooled(t)' <=> Pooled(t) /\ t # j.task
        BY <2>1 DEF Pooled, SlotInv, OneHandlerPerTask
    <2>5. \A g \in Handlers, t \in Tasks :
              Holds(g, t)' <=> Holds(g, t) \/ (g = h /\ t = j.task)
        BY <1>1, <2>1, <2>2 DEF Holds, TypeOK, Holding, Steps
    <2>6. \A g \in Handlers : pc'[g] \in Holding =>
              \/ g = h /\ job'[g] = j
              \/ g # h /\ pc[g] \in Holding /\ job'[g] = job[g]
        BY <2>1 DEF TypeOK
    <2>7. OneHandlerPerTask'
        <3>1. \A g \in Handlers : pc[g] \in Holding => job[g].task # j.task
            BY <2>3 DEF Holds
        <3>2. \A f, g \in Handlers :
                  /\ pc'[f] \in Holding /\ pc'[g] \in Holding
                  /\ job'[f].task = job'[g].task
                  => f = g
            BY <2>6, <3>1 DEF SlotInv, OneHandlerPerTask
        <3>3. \A k, l \in pool' : k.task = l.task => k = l
            BY <2>1 DEF SlotInv, OneHandlerPerTask
        <3> QED
            BY <2>3, <2>4, <2>5, <3>2, <3>3 DEF SlotInv, OneHandlerPerTask
    <2>8. SlotsAreHeld'
        BY <2>2, <2>3, <2>4, <2>5 DEF SlotInv, SlotsAreHeld
    <2> QED
        BY <2>7, <2>8 DEF SlotInv
<1>3. CASE h = Fast /\ FastTake
    <2>1. pc[Fast] = "idle" /\ UNCHANGED <<slots, pool>>
        BY <1>3 DEF FastTake
    <2>2. /\ pc' = [pc EXCEPT ![Fast] = "seen"]
          /\ \A g \in Handlers \ {Fast} : job'[g] = job[g]
        BY <1>3 DEF FastTake, Go, TypeOK
    <2>3. \A g \in Handlers : pc'[g] \in Holding =>
              pc[g] \in Holding /\ job'[g] = job[g]
        BY <2>2 DEF TypeOK, Holding
    <2>4. \A g \in Handlers, t \in Tasks : Holds(g, t)' <=> Holds(g, t)
        BY <2>1, <2>2 DEF Holds, TypeOK, Holding
    <2> QED
        BY <2>1, <2>3, <2>4, HoldsUnchanged
<1>4. CASE h = Fast /\ FastSlot /\ Taken(job[Fast].task)
    <2>1. /\ pc[Fast] = "seen" /\ UNCHANGED <<slots, pool>>
          /\ pc' = [pc EXCEPT ![Fast] = "idle"]
          /\ job' = [job EXCEPT ![Fast] = NoJob]
        BY <1>4 DEF FastSlot, Go
    <2>2. \A g \in Handlers : pc'[g] \in Holding =>
              pc[g] \in Holding /\ job'[g] = job[g]
        BY <2>1 DEF TypeOK, Holding
    <2>3. \A g \in Handlers, t \in Tasks : Holds(g, t)' <=> Holds(g, t)
        BY <2>1 DEF Holds, TypeOK, Holding
    <2> QED
        BY <2>1, <2>2, <2>3, HoldsUnchanged
<1>5. CASE h = Fast /\ FastSlot /\ ~Taken(job[Fast].task)
    <2> DEFINE j == job[Fast]
    <2>1. /\ pc[Fast] = "seen" /\ UNCHANGED <<pool, job>>
          /\ slots' = slots \cup {j.task}
          /\ pc' = [pc EXCEPT ![Fast] = FirstStep(j)]
        BY <1>5 DEF FastSlot, Go
    <2>2. j \in Jobs /\ j.task \in Tasks
        BY <1>5, <2>1, BusyHasJob
    <2>3. ~Pooled(j.task) /\ \A g \in Handlers : ~Holds(g, j.task)
        BY <1>5, <2>2 DEF SlotInv, SlotsAreHeld, Taken
    <2>4. \A t \in Tasks : Pooled(t)' <=> Pooled(t)
        BY <2>1 DEF Pooled
    <2>5. \A g \in Handlers, t \in Tasks :
              Holds(g, t)' <=> Holds(g, t) \/ (g = Fast /\ t = j.task)
        BY <1>1, <1>5, <2>1, <2>2 DEF Holds, TypeOK, Holding, Steps
    <2>6. \A g \in Handlers : pc'[g] \in Holding =>
              /\ job'[g] = job[g]
              /\ g = Fast \/ pc[g] \in Holding
        BY <2>1 DEF TypeOK
    <2>7. OneHandlerPerTask'
        <3>1. \A g \in Handlers : pc[g] \in Holding => job[g].task # j.task
            BY <2>3 DEF Holds
        <3>2. \A f, g \in Handlers :
                  /\ pc'[f] \in Holding /\ pc'[g] \in Holding
                  /\ job'[f].task = job'[g].task
                  => f = g
            BY <2>6, <3>1 DEF SlotInv, OneHandlerPerTask
        <3>3. \A k, l \in pool' : k.task = l.task => k = l
            BY <2>1 DEF SlotInv, OneHandlerPerTask
        <3> QED
            BY <2>3, <2>4, <2>5, <3>2, <3>3 DEF SlotInv, OneHandlerPerTask
    <2>8. SlotsAreHeld'
        BY <1>5, <2>1, <2>2, <2>4, <2>5 DEF SlotInv, SlotsAreHeld
    <2> QED
        BY <2>7, <2>8 DEF SlotInv
<1> QED
    BY <1>2, <1>3, <1>4, <1>5 DEF TakeJob

\* From its first gate to the finally clause a handler keeps its task;
\* Release gives task and slot back in one step.
LEMMA HandleExcludes ==
    ASSUME TypeOK, SlotInv, NEW h \in Handlers, Handle(h)
    PROVE  SlotInv'
<1>1. {"pause", "lift", "claim", "mark", "record", "run", "requeue",
       "release"} = Holding
    BY DEF Holding, Steps
<1>2. CASE Release(h)
    <2> DEFINE u == job[h].task
    <2>1. /\ pc[h] = "release" /\ UNCHANGED <<pool, job>>
          /\ slots' = slots \ {u}
          /\ pc' = [pc EXCEPT ![h] = "forget"]
        BY <1>2 DEF Release, Go
    <2>2. u \in Tasks /\ Holds(h, u)
        BY <1>1, <2>1, BusyHasJob DEF Holds
    <2>3. ~Pooled(u) /\ \A g \in Handlers : Holds(g, u) => g = h
        BY <2>2 DEF SlotInv, OneHandlerPerTask, Holds
    <2>4. \A t \in Tasks : Pooled(t)' <=> Pooled(t)
        BY <2>1 DEF Pooled
    <2>5. \A g \in Handlers, t \in Tasks :
              Holds(g, t)' <=> Holds(g, t) /\ g # h
        BY <2>1 DEF Holds, TypeOK, Holding
    <2>6. \A g \in Handlers : pc'[g] \in Holding => pc[g] \in Holding
        BY <2>1 DEF TypeOK, Holding
    <2>7. OneHandlerPerTask'
        BY <2>1, <2>4, <2>5, <2>6 DEF SlotInv, OneHandlerPerTask
    <2>8. SlotsAreHeld'
        <3>1. \A t \in Tasks : Holds(h, t) => t = u
            BY DEF Holds
        <3> QED
            BY <2>1, <2>2, <2>3, <2>4, <2>5, <3>1 DEF SlotInv, SlotsAreHeld
    <2> QED
        BY <2>7, <2>8 DEF SlotInv
<1>3. CASE Forget(h)
    <2>1. /\ pc[h] = "forget" /\ UNCHANGED <<slots, pool>>
          /\ pc' = [pc EXCEPT ![h] = "idle"]
          /\ job' = [job EXCEPT ![h] = NoJob]
        BY <1>3 DEF Forget, Go
    <2>2. \A g \in Handlers : pc'[g] \in Holding =>
              pc[g] \in Holding /\ job'[g] = job[g]
        BY <2>1 DEF TypeOK, Holding
    <2>3. \A g \in Handlers, t \in Tasks : Holds(g, t)' <=> Holds(g, t)
        BY <2>1 DEF Holds, TypeOK, Holding
    <2> QED
        BY <2>1, <2>2, <2>3, HoldsUnchanged
<1>4. CASE ~Release(h) /\ ~Forget(h)
    <2>1. UNCHANGED <<slots, pool, job>> /\ pc[h] \in Holding
        BY <1>1, <1>4 DEF Handle, PassPause, Lift, HoldForLimit, Claim,
            ClaimFails, Mark, Record, Report, EndUnreported, HandBack,
            HitLimit, Requeue
    <2>2. \E step \in Holding : pc' = [pc EXCEPT ![h] = step]
        BY <1>1, <1>4 DEF Handle, PassPause, Lift, HoldForLimit, Admit, Claim,
            ClaimFails, Mark, Record, Report, EndUnreported, HandBack,
            HitLimit, Requeue, Go, Finally, AfterClaim
    <2>3. \A g \in Handlers : pc'[g] \in Holding => pc[g] \in Holding
        BY <2>1, <2>2 DEF TypeOK
    <2>4. \A g \in Handlers, t \in Tasks : Holds(g, t)' <=> Holds(g, t)
        BY <2>1, <2>2 DEF Holds, TypeOK
    <2> QED
        BY <2>1, <2>3, <2>4, HoldsUnchanged
<1> QED
    BY <1>2, <1>3, <1>4

\* The process that dies takes slots, pool and handlers with it; nothing
\* else outside the two lanes touches them.
LEMMA OthersExclude ==
    TypeOK /\ SlotInv /\ (Recover \/ Environment) => SlotInv'
<1> SUFFICES ASSUME TypeOK, SlotInv, Recover \/ Environment PROVE SlotInv'
    OBVIOUS
<1>1. CASE Crash
    <2>1. /\ slots' = {} /\ pool' = {}
          /\ \A h \in Handlers : pc'[h] \notin Holding
        BY <1>1 DEF Crash, Holding
    <2>2. \A t \in Tasks : ~Pooled(t)' /\ \A h \in Handlers : ~Holds(h, t)'
        BY <2>1 DEF Pooled, Holds
    <2> QED
        BY <2>1, <2>2 DEF SlotInv, OneHandlerPerTask, SlotsAreHeld
<1>2. CASE ~Crash
    <2>1. UNCHANGED <<slots, pool, pc, job>>
        BY <1>2 DEF Recover, TakeOrphans, ReadOrphan, RequeueOrphan,
            Environment, Restart, LimitResets, Outside, Create, HoldExpires,
            Resume, StartNow, Cancel, SweptAndRetried, TakenElsewhere,
            FinishedElsewhere
    <2> QED
        BY <2>1, HoldsUnchanged DEF Holds
<1> QED
    BY <1>1, <1>2

LEMMA ExclusionPreserved == TypeOK /\ SlotInv /\ [Next]_vars => SlotInv'
<1>1. TypeOK /\ SlotInv /\ Next => SlotInv'
    BY DispatchExcludes, TakeJobExcludes, HandleExcludes, OthersExclude DEF Next
<1>2. TypeOK /\ SlotInv /\ UNCHANGED vars => SlotInv'
    BY HoldsUnchanged DEF vars, Holds
<1> QED
    BY <1>1, <1>2

\* The slots are exactly what is in hand, and this is why one thread has each
\* task: the two hold together or not at all.
LEMMA SlotsAndHandlers == Spec => [](OneHandlerPerTask /\ SlotsAreHeld)
<1>1. Init => SlotInv
    BY DEF Init, SlotInv, OneHandlerPerTask, SlotsAreHeld, Holds, Pooled,
        Holding
<1> QED
    BY <1>1, TypeInitial, TypePreserved, ExclusionPreserved, PTL
    DEF Spec, SlotInv

\* No task is handled by two threads at once, for any tasks, workers, and
\* accidents (_claim_slot).
THEOREM Exclusion == Spec => []OneHandlerPerTask
BY SlotsAndHandlers, PTL

\* No slot leaks, on no path through _run_claimed and _dispatch_fast_task: what
\* max_concurrent_tasks counts is what is in hand.
THEOREM NoSlotLeaks == Spec => []SlotsAreHeld
BY SlotsAndHandlers, PTL

----------------------------------------------------------------------------
(* Work that waits stays on offer.  Its signature carries updated_at, and  *)
(* only a claim that was applied, hence a row that moved, leads to a mark: *)
(* every version that was handled, or is about to be, is an old one.       *)

OfferInv ==
    /\ \A s \in handled : s[2] < row[s[1]].ver
    /\ \A h \in Handlers :
           /\ pc[h] # "idle" => job[h].ver <= row[job[h].task].ver
           /\ pc[h] = "mark" => job[h].ver < row[job[h].task].ver
    /\ \A j \in batch \cup pool : j.ver <= row[j.task].ver

\* No row goes back to an earlier version.
Grown == \A t \in Tasks : row[t].ver <= row'[t].ver

LEMMA PutGrows ==
    ASSUME row \in [Tasks -> Rows], NEW t \in Tasks, NEW status, NEW held,
           Put(t, status, held)
    PROVE  Grown /\ row[t].ver < row'[t].ver
BY DEF Put, Rows, Grown

LEMMA PutUnlessCancelledGrows ==
    ASSUME row \in [Tasks -> Rows], NEW t \in Tasks, NEW status, NEW held,
           PutUnlessCancelled(t, status, held)
    PROVE  Grown
BY PutGrows DEF PutUnlessCancelled, Grown, Rows

\* An unchanged table is not an older one either.
LEMMA SameGrows ==
    ASSUME row \in [Tasks -> Rows], UNCHANGED row PROVE Grown
BY DEF Grown, Rows

LEMMA HandleGrows ==
    ASSUME TypeOK, NEW h \in Handlers, Handle(h)
    PROVE  Grown
<1> DEFINE t == job[h].task
<1>1. row \in [Tasks -> Rows] /\ t \in Tasks
    BY BusyHasJob DEF TypeOK, Handle, PassPause, Lift, HoldForLimit, Claim,
        ClaimFails, Mark, Record, Report, EndUnreported, HandBack, HitLimit,
        Requeue, Release, Forget
<1>2. \/ UNCHANGED row
      \/ \E status, held : Put(t, status, held)
      \/ \E status, held : PutUnlessCancelled(t, status, held)
    BY DEF Handle, PassPause, Lift, HoldForLimit, Claim, ClaimFails, Mark,
        Record, Report, EndUnreported, HandBack, HitLimit, Requeue, Release,
        Forget
<1> QED
    BY <1>1, <1>2, PutGrows, PutUnlessCancelledGrows, SameGrows

LEMMA VersionsGrow == TypeOK /\ [Next]_vars => Grown
<1> SUFFICES ASSUME TypeOK, [Next]_vars PROVE Grown
    OBVIOUS
<1>1. row \in [Tasks -> Rows]
    BY DEF TypeOK
<1>2. ASSUME UNCHANGED row PROVE Grown
    BY <1>1, <1>2, SameGrows
<1>3. CASE Dispatch \/ UNCHANGED vars
    BY <1>2, <1>3 DEF Dispatch, IdleTick, Discover, SkipCooling, SeeRoom,
        Submit, vars
<1>4. CASE \E h \in Handlers : TakeJob(h) \/ Handle(h)
    BY <1>2, <1>4, HandleGrows DEF TakeJob, Start, FastTake, FastSlot
<1>5. CASE Recover
    <2>1. \/ UNCHANGED row
          \/ \E t \in todo : PutUnlessCancelled(t, "queued", row[t].held)
        BY <1>5 DEF Recover, TakeOrphans, ReadOrphan, RequeueOrphan
    <2> QED
        BY <1>1, <1>2, <2>1, PutUnlessCancelledGrows DEF TypeOK
<1>6. CASE Environment
    <2>1. \/ UNCHANGED row
          \/ \E t \in Tasks : \E status, held :
                 Put(t, status, held) \/ PutUnlessCancelled(t, status, held)
          \/ \E t \in Tasks : StartNow(t)
        BY <1>6 DEF Environment, Crash, Restart, LimitResets, Create,
            HoldExpires, Resume, Cancel, SweptAndRetried, TakenElsewhere,
            FinishedElsewhere
    <2>2. ASSUME NEW t \in Tasks, StartNow(t) PROVE Grown
        BY <1>1, <2>2 DEF StartNow, Rows, Grown
    <2> QED
        BY <1>1, <1>2, <2>1, <2>2, PutGrows, PutUnlessCancelledGrows
<1> QED
    BY <1>3, <1>4, <1>5, <1>6 DEF Next

\* What is old stays old while the rows only move on.
LEMMA OldStaysOld ==
    ASSUME TypeOK, TypeOK', Grown
    PROVE  /\ \A s \in handled : s[2] < row[s[1]].ver => s[2] < row'[s[1]].ver
           /\ \A j \in Jobs : /\ j.ver < row[j.task].ver
                                 => j.ver < row'[j.task].ver
                              /\ j.ver <= row[j.task].ver
                                 => j.ver <= row'[j.task].ver
<1>1. \A t \in Tasks : row[t].ver \in Nat /\ row'[t].ver \in Nat
    BY DEF TypeOK, Rows
<1>2. \A s \in handled : s[1] \in Tasks /\ s[2] \in Nat
    BY DEF TypeOK
<1> QED
    BY <1>1, <1>2 DEF Jobs, Grown

\* The discovered batch is at the rows' versions; the rest is as old as it
\* was.
LEMMA BatchOffers ==
    ASSUME TypeOK, TypeOK', OfferInv, [Next]_vars, Grown
    PROVE  \A j \in batch' \cup pool' : j.ver <= row'[j.task].ver
<1>1. \A j \in batch' \cup pool' : j \in batch \cup pool \/ j \in Fresh
    <2>1. CASE Dispatch \/ Recover \/ UNCHANGED vars
        BY <2>1 DEF vars, Dispatch, IdleTick, Discover, SkipCooling, SeeRoom, Submit,
            Considered, IsFirst, Recover, TakeOrphans, ReadOrphan, RequeueOrphan
    <2>2. ASSUME NEW h \in Handlers, TakeJob(h) PROVE batch' = batch /\ pool' \subseteq pool
        BY <2>2 DEF TakeJob, Start, FastTake, FastSlot
    <2>3. ASSUME NEW h \in Handlers, Handle(h) PROVE UNCHANGED <<batch, pool>>
        BY <2>3 DEF Handle, PassPause, Lift, HoldForLimit, Claim, ClaimFails, Mark, Record,
            Report, EndUnreported, HandBack, HitLimit, Requeue, Release, Forget
    <2>4. ASSUME Environment PROVE batch' \subseteq batch /\ pool' \subseteq pool
        BY <2>4 DEF Environment, Crash, Restart, LimitResets, Outside, Create, HoldExpires,
            Resume, StartNow, Cancel, SweptAndRetried, TakenElsewhere, FinishedElsewhere
    <2> QED
        BY <2>1, <2>2, <2>3, <2>4 DEF Next
<1>2. \A j \in Fresh : j \in Jobs /\ j.ver <= row[j.task].ver
    BY SnapshotIsJob DEF Fresh, TypeOK, Rows
<1>3. \A j \in batch \cup pool : j \in Jobs /\ j.ver <= row[j.task].ver
    BY DEF OfferInv, TypeOK
<1> QED
    BY <1>1, <1>2, <1>3, OldStaysOld

HandlerOffers(h) ==
    /\ pc[h] # "idle" => job[h].ver <= row[job[h].task].ver
    /\ pc[h] = "mark" => job[h].ver < row[job[h].task].ver

\* A handler another thread's step leaves where it was.
LEMMA OtherHandlerOffers ==
    ASSUME TypeOK, TypeOK', Grown, NEW h \in Handlers, HandlerOffers(h),
           pc'[h] = pc[h], job'[h] = job[h]
    PROVE  HandlerOffers(h)'
<1>1. CASE pc[h] = "idle"
    BY <1>1 DEF HandlerOffers
<1>2. CASE pc[h] # "idle"
    BY <1>2, BusyHasJob, OldStaysOld DEF HandlerOffers
<1> QED
    BY <1>1, <1>2

\* A job is taken at a version the row had, and nobody marks at once.
LEMMA TakeJobOffers ==
    ASSUME TypeOK, TypeOK', OfferInv, Grown, NEW h \in Handlers, TakeJob(h)
    PROVE  HandlerOffers(h)'
<1>1. \A j : FirstStep(j) # "mark"
    BY DEF FirstStep
<1>2. CASE h # Fast /\ Start(h)
    <2>1. PICK j \in pool : /\ job' = [job EXCEPT ![h] = j]
                            /\ pc' = [pc EXCEPT ![h] = FirstStep(j)]
        BY <1>2 DEF Start, Go
    <2>2. j \in Jobs /\ j.ver <= row'[j.task].ver
        BY OldStaysOld DEF OfferInv, TypeOK
    <2> QED
        BY <1>1, <2>1, <2>2 DEF HandlerOffers, TypeOK
<1>3. CASE h = Fast /\ FastTake
    <2>1. PICK t \in RealTime : job' = [job EXCEPT ![Fast] = Snapshot(t)]
        BY <1>3 DEF FastTake
    <2>2. /\ Snapshot(t) \in Jobs
          /\ Snapshot(t).ver <= row[Snapshot(t).task].ver
        BY SnapshotIsJob, LaneAssumption DEF TypeOK, Rows
    <2>3. pc' = [pc EXCEPT ![Fast] = "seen"]
        BY <1>3 DEF FastTake, Go
    <2> QED
        BY <1>3, <2>1, <2>2, <2>3, OldStaysOld DEF HandlerOffers, TypeOK
<1>4. CASE h = Fast /\ FastSlot
    <2>1. pc[Fast] = "seen" /\ job[Fast] \in Jobs
        BY <1>4, BusyHasJob DEF FastSlot
    <2>2. job[Fast].ver <= row'[job[Fast].task].ver
        BY <1>4, <2>1, OldStaysOld DEF OfferInv
    <2>3. \/ pc'[Fast] = "idle"
          \/ pc'[Fast] = FirstStep(job[Fast]) /\ job' = job
        BY <1>4 DEF FastSlot, Go, TypeOK
    <2> QED
        BY <1>1, <1>4, <2>2, <2>3 DEF HandlerOffers
<1> QED
    BY <1>2, <1>3, <1>4 DEF TakeJob

\* Only an applied claim leads to a mark, and it moved the row.
LEMMA HandleOffers ==
    ASSUME TypeOK, TypeOK', OfferInv, Grown, NEW h \in Handlers, Handle(h)
    PROVE  HandlerOffers(h)'
<1>1. pc[h] # "idle" /\ (job'[h] = job[h] \/ pc'[h] = "idle")
    BY DEF Handle, PassPause, Lift, HoldForLimit, Claim, ClaimFails, Mark,
        Record, Report, EndUnreported, HandBack, HitLimit, Requeue, Release,
        Forget, Go, TypeOK
<1>2. /\ job[h] \in Jobs /\ job[h].task \in Tasks
      /\ job[h].ver <= row[job[h].task].ver
      /\ job[h].ver <= row'[job[h].task].ver
    BY <1>1, BusyHasJob, OldStaysOld DEF OfferInv
<1>3. CASE Claim(h)
    <2>1. row[job[h].task].ver < row'[job[h].task].ver
        BY <1>2, <1>3, PutGrows DEF Claim, TypeOK
    <2>2. row[job[h].task].ver \in Nat /\ row'[job[h].task].ver \in Nat
          /\ job[h].ver \in Nat
        BY <1>2 DEF TypeOK, Rows, Jobs
    <2>3. job'[h] = job[h]
        BY <1>3 DEF Claim
    <2> QED
        BY <1>2, <2>1, <2>2, <2>3 DEF HandlerOffers
<1>4. CASE ~Claim(h)
    <2>1. pc'[h] # "mark"
        BY <1>4 DEF Handle, PassPause, Lift, HoldForLimit, Admit, ClaimFails,
            Mark, Record, Report, EndUnreported, HandBack, HitLimit, Requeue,
            Release, Forget, Go, Finally, TypeOK
    <2> QED
        BY <1>1, <1>2, <2>1 DEF HandlerOffers
<1> QED
    BY <1>3, <1>4

\* Every mark is of a version the claim has left behind.
LEMMA HandledIsOld ==
    ASSUME TypeOK, TypeOK', OfferInv, [Next]_vars, Grown
    PROVE  \A s \in handled' : s[2] < row'[s[1]].ver
<1>1. CASE \E h \in Handlers : Mark(h)
    <2>1. PICK h \in Handlers : Mark(h)
        BY <1>1
    <2>2. handled' = handled \cup {Sig(job[h])} /\ pc[h] = "mark"
        BY <2>1 DEF Mark
    <2>3. job[h] \in Jobs /\ job[h].ver < row'[job[h].task].ver
        BY <2>2, BusyHasJob, OldStaysOld DEF OfferInv
    <2>4. \A s \in handled : s[2] < row'[s[1]].ver
        BY OldStaysOld DEF OfferInv
    <2> QED
        BY <2>2, <2>3, <2>4 DEF Sig
<1>2. CASE ~\E h \in Handlers : Mark(h)
    <2>1. handled' = handled
        <3>1. CASE Dispatch \/ Recover \/ UNCHANGED vars
            BY <3>1 DEF vars, Dispatch, IdleTick, Discover, SkipCooling, SeeRoom, Submit,
                Recover, TakeOrphans, ReadOrphan, RequeueOrphan
        <3>2. ASSUME NEW h \in Handlers, TakeJob(h) PROVE UNCHANGED handled
            BY <3>2 DEF TakeJob, Start, FastTake, FastSlot
        <3>3. ASSUME NEW h \in Handlers, Handle(h) PROVE UNCHANGED handled
            BY <1>2, <3>3 DEF Handle, PassPause, Lift, HoldForLimit, Claim, ClaimFails,
                Record, Report, EndUnreported, HandBack, HitLimit, Requeue, Release, Forget
        <3>4. ASSUME Environment PROVE UNCHANGED handled
            BY <3>4 DEF Environment, Crash, Restart, LimitResets, Outside, Create,
                HoldExpires, Resume, StartNow, Cancel, SweptAndRetried, TakenElsewhere,
                FinishedElsewhere
        <3> QED
            BY <3>1, <3>2, <3>3, <3>4 DEF Next
    <2> QED
        BY <2>1, OldStaysOld DEF OfferInv
<1> QED
    BY <1>1, <1>2

LEMMA OfferPreserved == TypeOK /\ OfferInv /\ [Next]_vars => OfferInv'
<1> SUFFICES ASSUME TypeOK, OfferInv, [Next]_vars PROVE OfferInv'
    OBVIOUS
<1>1. TypeOK' /\ Grown
    BY TypePreserved, VersionsGrow
<1>2. ASSUME NEW h \in Handlers PROVE HandlerOffers(h)'
    <2>1. HandlerOffers(h)
        BY DEF OfferInv, HandlerOffers
    <2>2. CASE TakeJob(h) \/ Handle(h)
        BY <1>1, <2>2, TakeJobOffers, HandleOffers
    <2>3. CASE pc'[h] = pc[h] /\ job'[h] = job[h]
        BY <1>1, <2>1, <2>3, OtherHandlerOffers
    <2>4. CASE Crash
        BY <2>4 DEF Crash, HandlerOffers
    <2>5. ASSUME NEW g \in Handlers, g # h, TakeJob(g) \/ Handle(g)
          PROVE  pc'[h] = pc[h] /\ job'[h] = job[h]
        BY <2>5 DEF TakeJob, Start, FastTake, FastSlot, Handle, PassPause,
            Lift, HoldForLimit, Admit, Claim, ClaimFails, Mark, Record, Report,
            EndUnreported, HandBack, HitLimit, Requeue, Release, Forget, Go,
            TypeOK
    <2>6. ASSUME Dispatch \/ Recover \/ UNCHANGED vars
                 \/ (Environment /\ ~Crash)
          PROVE  pc'[h] = pc[h] /\ job'[h] = job[h]
        BY <2>6 DEF vars, Dispatch, IdleTick, Discover, SkipCooling, SeeRoom,
            Submit, Recover, TakeOrphans, ReadOrphan, RequeueOrphan,
            Environment, Restart, LimitResets, Outside, Create, HoldExpires,
            Resume, StartNow, Cancel, SweptAndRetried, TakenElsewhere,
            FinishedElsewhere
    <2> QED
        BY <2>2, <2>3, <2>4, <2>5, <2>6 DEF Next
<1> QED
    BY <1>1, <1>2, HandledIsOld, BatchOffers DEF OfferInv, HandlerOffers

\* Whatever is refused, lost, killed or pressed, no task that waits in the
\* queue has a signature that every discovery would filter out.
THEOREM OfferKept == Spec => []QueuedWorkIsOffered
<1>1. Init => OfferInv
    BY DEF Init, OfferInv
<1>2. TypeOK /\ OfferInv => QueuedWorkIsOffered
    <2> SUFFICES ASSUME TypeOK, OfferInv, NEW t \in Tasks,
                        Sig(Snapshot(t)) \in handled
                 PROVE  FALSE
        BY DEF QueuedWorkIsOffered
    <2>1. row[t].ver < row[t].ver
        BY DEF OfferInv, Sig, Snapshot
    <2> QED
        BY <2>1 DEF TypeOK, Rows
<1> QED
    BY <1>1, <1>2, TypeInitial, TypePreserved, OfferPreserved, PTL DEF Spec

----------------------------------------------------------------------------
(* The lane implements the abstract lease: with exclusion as an invariant, *)
(* every step acquires, hands over, drops or loses leases, or stutters.    *)

\* A step that changes neither the pool nor what is held stutters.
LEMMA LeasesUnchanged ==
    ASSUME UNCHANGED pool,
           \A h \in Handlers, t \in Tasks : Holds(h, t)' <=> Holds(h, t)
    PROVE  \A t \in Tasks : HoldersOf(t)' = HoldersOf(t)
BY DEF HoldersOf, Pooled

\* A step after which exactly u's holders are others.
LEMMA LeaseChanges ==
    ASSUME NEW u \in Tasks, NEW who,
           HoldersOf(u)' = who,
           \A t \in Tasks \ {u} : HoldersOf(t)' = HoldersOf(t)
    PROVE  [t \in Tasks |-> HoldersOf(t)']
               = [[t \in Tasks |-> HoldersOf(t)] EXCEPT ![u] = who]
OBVIOUS

LEMMA SubmitLeases ==
    ASSUME TypeOK, SlotInv, Submit
    PROVE  \/ \A t \in Tasks : HoldersOf(t)' = HoldersOf(t)
           \/ \E u \in Tasks : /\ HoldersOf(u) = {} /\ HoldersOf(u)' = {"pool"}
                               /\ \A t \in Tasks \ {u} :
                                     HoldersOf(t)' = HoldersOf(t)
<1>1. PICK j \in batch : IF Taken(j.task)
                         THEN UNCHANGED <<slots, pool>>
                         ELSE /\ slots' = slots \cup {j.task}
                              /\ pool' = pool \cup {j}
    BY DEF Submit
<1>2. UNCHANGED runVars /\ j.task \in Tasks
    BY DEF Submit, TypeOK, Jobs
<1>3. \A h \in Handlers, t \in Tasks : Holds(h, t)' <=> Holds(h, t)
    BY <1>2 DEF Holds
<1>4. CASE Taken(j.task)
    BY <1>1, <1>3, <1>4, LeasesUnchanged
<1>5. CASE ~Taken(j.task)
    <2>1. ~Pooled(j.task) /\ \A h \in Handlers : ~Holds(h, j.task)
        BY <1>2, <1>5 DEF SlotInv, SlotsAreHeld, Taken
    <2>2. \A t \in Tasks : Pooled(t)' <=> Pooled(t) \/ t = j.task
        BY <1>1, <1>5 DEF Pooled
    <2> QED
        BY <1>2, <1>3, <2>1, <2>2 DEF HoldersOf
<1> QED
    BY <1>4, <1>5

LEMMA TakeJobLeases ==
    ASSUME TypeOK, SlotInv, NEW h \in Handlers, TakeJob(h)
    PROVE  \/ \A t \in Tasks : HoldersOf(t)' = HoldersOf(t)
           \/ \E u \in Tasks : /\ HoldersOf(u) \in {{}, {"pool"}}
                               /\ HoldersOf(u)' = {h}
                               /\ \A t \in Tasks \ {u} :
                                     HoldersOf(t)' = HoldersOf(t)
<1>1. \A j \in Jobs : FirstStep(j) \in Holding
    BY DEF FirstStep, Holding, Steps
<1>2. CASE h # Fast /\ Start(h)
    <2>1. PICK j \in pool : /\ pool' = pool \ {j}
                            /\ job' = [job EXCEPT ![h] = j]
                            /\ pc' = [pc EXCEPT ![h] = FirstStep(j)]
        BY <1>2 DEF Start, Go
    <2>2. pc[h] = "idle" /\ j \in Jobs /\ j.task \in Tasks
        BY <1>2 DEF Start, TypeOK, Jobs
    <2>3. Pooled(j.task) /\ \A g \in Handlers : ~Holds(g, j.task)
        BY <2>2 DEF Pooled, SlotInv, OneHandlerPerTask
    <2>4. \A t \in Tasks : Pooled(t)' <=> Pooled(t) /\ t # j.task
        BY <2>1 DEF Pooled, SlotInv, OneHandlerPerTask
    <2>5. \A g \in Handlers, t \in Tasks :
              Holds(g, t)' <=> Holds(g, t) \/ (g = h /\ t = j.task)
        BY <1>1, <2>1, <2>2 DEF Holds, TypeOK, Holding, Steps
    <2> QED
        BY <2>2, <2>3, <2>4, <2>5 DEF HoldersOf
<1>3. CASE h = Fast /\ (FastTake \/ (FastSlot /\ Taken(job[Fast].task)))
    <2>1. /\ pc[Fast] \in {"idle", "seen"} /\ UNCHANGED pool
          /\ pc' = [pc EXCEPT ![Fast] = "idle"]
             \/ pc' = [pc EXCEPT ![Fast] = "seen"]
          /\ \A g \in Handlers \ {Fast} : job'[g] = job[g]
        BY <1>3 DEF FastTake, FastSlot, Go, TypeOK
    <2>2. \A g \in Handlers, t \in Tasks : Holds(g, t)' <=> Holds(g, t)
        BY <2>1 DEF Holds, TypeOK, Holding
    <2> QED
        BY <2>1, <2>2, LeasesUnchanged
<1>4. CASE h = Fast /\ FastSlot /\ ~Taken(job[Fast].task)
    <2> DEFINE j == job[Fast]
    <2>1. /\ pc[Fast] = "seen" /\ UNCHANGED <<pool, job>>
          /\ pc' = [pc EXCEPT ![Fast] = FirstStep(j)]
        BY <1>4 DEF FastSlot, Go
    <2>2. j \in Jobs /\ j.task \in Tasks
        BY <1>4, <2>1, BusyHasJob
    <2>3. ~Pooled(j.task) /\ \A g \in Handlers : ~Holds(g, j.task)
        BY <1>4, <2>2 DEF SlotInv, SlotsAreHeld, Taken
    <2>4. \A t \in Tasks : Pooled(t)' <=> Pooled(t)
        BY <2>1 DEF Pooled
    <2>5. \A g \in Handlers, t \in Tasks :
              Holds(g, t)' <=> Holds(g, t) \/ (g = Fast /\ t = j.task)
        BY <1>1, <1>4, <2>1, <2>2 DEF Holds, TypeOK, Holding, Steps
    <2> QED
        BY <1>4, <2>2, <2>3, <2>4, <2>5 DEF HoldersOf
<1> QED
    BY <1>2, <1>3, <1>4 DEF TakeJob

LEMMA HandleLeases ==
    ASSUME TypeOK, SlotInv, NEW h \in Handlers, Handle(h)
    PROVE  \/ \A t \in Tasks : HoldersOf(t)' = HoldersOf(t)
           \/ \E u \in Tasks : /\ HoldersOf(u) = {h} /\ HoldersOf(u)' = {}
                               /\ \A t \in Tasks \ {u} :
                                     HoldersOf(t)' = HoldersOf(t)
<1>1. {"pause", "lift", "claim", "mark", "record", "run", "requeue",
       "release"} = Holding
    BY DEF Holding, Steps
<1>2. CASE Release(h)
    <2> DEFINE u == job[h].task
    <2>1. /\ pc[h] = "release" /\ UNCHANGED <<pool, job>>
          /\ pc' = [pc EXCEPT ![h] = "forget"]
        BY <1>2 DEF Release, Go
    <2>2. u \in Tasks /\ Holds(h, u)
        BY <1>1, <2>1, BusyHasJob DEF Holds
    <2>3. ~Pooled(u) /\ \A g \in Handlers : Holds(g, u) => g = h
        BY <2>2 DEF SlotInv, OneHandlerPerTask, Holds
    <2>4. \A t \in Tasks : Pooled(t)' <=> Pooled(t)
        BY <2>1 DEF Pooled
    <2>5. \A g \in Handlers, t \in Tasks :
              Holds(g, t)' <=> Holds(g, t) /\ g # h
        BY <2>1 DEF Holds, TypeOK, Holding
    <2>6. \A t \in Tasks : Holds(h, t) => t = u
        BY DEF Holds
    <2> QED
        BY <2>2, <2>3, <2>4, <2>5, <2>6 DEF HoldersOf
<1>3. CASE Forget(h)
    <2>1. /\ pc[h] = "forget" /\ UNCHANGED pool
          /\ pc' = [pc EXCEPT ![h] = "idle"]
          /\ job' = [job EXCEPT ![h] = NoJob]
        BY <1>3 DEF Forget, Go
    <2>2. \A g \in Handlers, t \in Tasks : Holds(g, t)' <=> Holds(g, t)
        BY <2>1 DEF Holds, TypeOK, Holding
    <2> QED
        BY <2>1, <2>2, LeasesUnchanged
<1>4. CASE ~Release(h) /\ ~Forget(h)
    <2>1. UNCHANGED <<pool, job>> /\ pc[h] \in Holding
        BY <1>1, <1>4 DEF Handle, PassPause, Lift, HoldForLimit, Claim,
            ClaimFails, Mark, Record, Report, EndUnreported, HandBack,
            HitLimit, Requeue
    <2>2. \E step \in Holding : pc' = [pc EXCEPT ![h] = step]
        BY <1>1, <1>4 DEF Handle, PassPause, Lift, HoldForLimit, Admit, Claim,
            ClaimFails, Mark, Record, Report, EndUnreported, HandBack,
            HitLimit, Requeue, Go, Finally, AfterClaim
    <2>3. \A g \in Handlers, t \in Tasks : Holds(g, t)' <=> Holds(g, t)
        BY <2>1, <2>2 DEF Holds, TypeOK
    <2> QED
        BY <2>1, <2>3, LeasesUnchanged
<1> QED
    BY <1>2, <1>3, <1>4

LEMMA LeaseStep ==
    TypeOK /\ SlotInv /\ [Next]_vars
        => [Lease!Next]_[t \in Tasks |-> HoldersOf(t)]
<1> SUFFICES ASSUME TypeOK, SlotInv, [Next]_vars
             PROVE  \/ Lease!Next
                    \/ [t \in Tasks |-> HoldersOf(t)]'
                           = [t \in Tasks |-> HoldersOf(t)]
    OBVIOUS
<1>1. ASSUME \A t \in Tasks : HoldersOf(t)' = HoldersOf(t)
      PROVE  [t \in Tasks |-> HoldersOf(t)]'
                 = [t \in Tasks |-> HoldersOf(t)]
    BY <1>1
<1>2. ASSUME NEW u \in Tasks, NEW who, HoldersOf(u)' = who,
             \A t \in Tasks \ {u} : HoldersOf(t)' = HoldersOf(t)
      PROVE  [t \in Tasks |-> HoldersOf(t)]'
                 = [[t \in Tasks |-> HoldersOf(t)] EXCEPT ![u] = who]
    BY <1>2, LeaseChanges
<1>3. CASE Submit
    BY <1>1, <1>2, <1>3, SubmitLeases DEF Lease!Next, Lease!Acquire
<1>4. ASSUME NEW h \in Handlers, TakeJob(h)
      PROVE  \/ Lease!Next
             \/ [t \in Tasks |-> HoldersOf(t)]'
                    = [t \in Tasks |-> HoldersOf(t)]
    <2>1. CASE \A t \in Tasks : HoldersOf(t)' = HoldersOf(t)
        BY <1>1, <2>1
    <2>2. ASSUME NEW u \in Tasks, HoldersOf(u) \in {{}, {"pool"}}, HoldersOf(u)' = {h},
                 \A t \in Tasks \ {u} : HoldersOf(t)' = HoldersOf(t)
          PROVE  Lease!Next
        <3>1. [t \in Tasks |-> HoldersOf(t)]'
                  = [[t \in Tasks |-> HoldersOf(t)] EXCEPT ![u] = {h}]
            BY <1>2, <2>2
        <3> QED
            BY <2>2, <3>1 DEF Lease!Next, Lease!Acquire, Lease!Handover
    <2> QED
        BY <1>4, <2>1, <2>2, TakeJobLeases
<1>5. ASSUME NEW h \in Handlers, Handle(h)
      PROVE  \/ Lease!Next
             \/ [t \in Tasks |-> HoldersOf(t)]'
                    = [t \in Tasks |-> HoldersOf(t)]
    BY <1>1, <1>2, <1>5, HandleLeases DEF Lease!Next, Lease!Drop
<1>6. CASE Crash
    <2>1. pool' = {} /\ \A h \in Handlers : pc'[h] \notin Holding
        BY <1>6 DEF Crash, Holding
    <2>2. \A t \in Tasks : HoldersOf(t)' = {}
        BY <2>1 DEF HoldersOf, Pooled, Holds
    <2> QED
        BY <2>2 DEF Lease!Next, Lease!Lost, Lease!NoLeases
<1>7. CASE (Dispatch /\ ~Submit) \/ Recover \/ (Environment /\ ~Crash)
           \/ UNCHANGED vars
    <2>1. UNCHANGED <<pool, pc, job>>
        BY <1>7 DEF vars, Dispatch, IdleTick, Discover, SkipCooling, SeeRoom,
            Recover, TakeOrphans, ReadOrphan, RequeueOrphan, Environment,
            Restart, LimitResets, Outside, Create, HoldExpires, Resume,
            StartNow, Cancel, SweptAndRetried, TakenElsewhere,
            FinishedElsewhere
    <2> QED
        BY <1>1, <2>1, LeasesUnchanged DEF Holds
<1> QED
    BY <1>3, <1>4, <1>5, <1>6, <1>7 DEF Next

\* The slots of the lane are leases of its tasks, for any tasks, workers and
\* accidents.
THEOREM LaneImplementsLease == Spec => LeaseSpec
<1>1. Init => Lease!Init
    BY DEF Init, Lease!Init, Lease!NoLeases, HoldersOf, Pooled, Holds, Holding
<1>2. Init => SlotInv
    BY DEF Init, SlotInv, OneHandlerPerTask, SlotsAreHeld, Holds, Pooled,
        Holding
<1> QED
    BY <1>1, <1>2, TypeInitial, TypePreserved, ExclusionPreserved, LeaseStep,
       PTL DEF Spec, LeaseSpec, Lease!Spec

----------------------------------------------------------------------------
(* What a kill leaves behind.  A run begins where its signature was marked *)
(* or, one step later, where its in-flight record is written: the thread   *)
(* at that step has its mark, and the store is never emptied.              *)

MarkInv ==
    /\ RunsAreMarked
    /\ \A h \in Handlers : pc[h] = "record" => Sig(job[h]) \in handled

\* Only Mark and Record touch the marks and the runs; they only add to them.
LEMMA MarksElse ==
    ASSUME [Next]_vars, ~\E h \in Handlers : Mark(h) \/ Record(h)
    PROVE  UNCHANGED <<handled, started>>
BY DEF Next, vars, Dispatch, IdleTick, Discover, SkipCooling, SeeRoom, Submit, TakeJob, Start,
       FastTake, FastSlot, Handle, PassPause, Lift, HoldForLimit, Claim, ClaimFails, Report,
       EndUnreported, HandBack, HitLimit, Requeue, Release, Forget, Recover, TakeOrphans,
       ReadOrphan, RequeueOrphan, Environment, Crash, Restart, LimitResets, Outside, Create,
       HoldExpires, Resume, StartNow, Cancel, SweptAndRetried, TakenElsewhere,
       FinishedElsewhere

\* Nobody gets to the in-flight record but from the mark.
LEMMA RecordElse ==
    ASSUME TypeOK, [Next]_vars, NEW h \in Handlers, ~Mark(h)
    PROVE  pc'[h] = "record" => pc[h] = "record" /\ job'[h] = job[h]
<1>0. pc \in [Handlers -> Steps] /\ job \in [Handlers -> Jobs \cup {NoJob}]
    BY DEF TypeOK
<1>1. ASSUME NEW g \in Handlers, Handle(g)
      PROVE  pc'[h] = "record" => pc[h] = "record" /\ job'[h] = job[h]
    <2>1. CASE g = h
        BY <1>0, <1>1, <2>1 DEF Handle, PassPause, Lift, HoldForLimit, Admit, Claim,
            ClaimFails, Record, Report, EndUnreported, HandBack, HitLimit, Requeue, Release,
            Forget, Go, Finally, AfterClaim
    <2>2. CASE g # h
        BY <1>0, <1>1, <2>2 DEF Handle, PassPause, Lift, HoldForLimit, Admit, Claim,
            ClaimFails, Mark, Record, Report, EndUnreported, HandBack, HitLimit, Requeue,
            Release, Forget, Go
    <2> QED
        BY <2>1, <2>2
<1>2. ASSUME NEW g \in Handlers, TakeJob(g)
      PROVE  pc'[h] = "record" => pc[h] = "record" /\ job'[h] = job[h]
    BY <1>0, <1>2 DEF TakeJob, Start, FastTake, FastSlot, FirstStep, Go
<1>3. CASE Crash
    BY <1>3 DEF Crash
<1>4. CASE Dispatch \/ Recover \/ (Environment /\ ~Crash) \/ UNCHANGED vars
    BY <1>4 DEF vars, Dispatch, IdleTick, Discover, SkipCooling, SeeRoom, Submit, Recover,
        TakeOrphans, ReadOrphan, RequeueOrphan, Environment, Restart, LimitResets, Outside,
        Create, HoldExpires, Resume, StartNow, Cancel, SweptAndRetried, TakenElsewhere,
        FinishedElsewhere
<1> QED
    BY <1>1, <1>2, <1>3, <1>4 DEF Next

LEMMA MarkPreserved == TypeOK /\ MarkInv /\ [Next]_vars => MarkInv'
<1> SUFFICES ASSUME TypeOK, MarkInv, [Next]_vars PROVE MarkInv'
    OBVIOUS
<1>1. ASSUME NEW h \in Handlers, Mark(h) PROVE MarkInv'
    <2>1. /\ handled' = handled \cup {Sig(job[h])} /\ UNCHANGED job
          /\ started' \subseteq started \cup {Sig(job[h])}
          /\ \A g \in Handlers : pc'[g] = "record" => g = h \/ pc[g] = "record"
        BY <1>1 DEF Mark, Go, Begin, TypeOK
    <2>2. \A g \in Handlers : Sig(job[g])' = Sig(job[g])
        BY <2>1 DEF Sig
    <2> QED
        BY <2>1, <2>2 DEF MarkInv, RunsAreMarked
<1>2. ASSUME NEW h \in Handlers, Record(h) PROVE MarkInv'
    <2>1. /\ pc[h] = "record" /\ UNCHANGED <<handled, job>>
          /\ started' = started \cup {Sig(job[h])}
          /\ \A g \in Handlers : pc'[g] = "record" => pc[g] = "record"
        BY <1>2 DEF Record, Go, Begin, TypeOK
    <2>2. \A g \in Handlers : Sig(job[g])' = Sig(job[g])
        BY <2>1 DEF Sig
    <2> QED
        BY <2>1, <2>2 DEF MarkInv, RunsAreMarked
<1>3. CASE ~\E h \in Handlers : Mark(h) \/ Record(h)
    <2>1. UNCHANGED <<handled, started>>
        BY <1>3, MarksElse
    <2>2. ASSUME NEW h \in Handlers, pc'[h] = "record" PROVE Sig(job[h])' \in handled
        BY <1>3, <2>2, RecordElse DEF MarkInv, Sig
    <2> QED
        BY <2>1, <2>2 DEF MarkInv, RunsAreMarked
<1> QED
    BY <1>1, <1>2, <1>3

\* What _handle_one marks before it runs: a run that began is in the signature store,
\* wherever the process was killed and however often it is started again.
THEOREM RunsMarked == Spec => []RunsAreMarked
<1>1. Init => MarkInv
    BY DEF Init, MarkInv, RunsAreMarked
<1>2. MarkInv => RunsAreMarked
    BY DEF MarkInv
<1> QED
    BY <1>1, <1>2, TypeInitial, TypePreserved, MarkPreserved, PTL DEF Spec

----------------------------------------------------------------------------
(* The in-flight records: on which task a handler is, from the record to   *)
(* the end of its finally clause.                                          *)

Recorded == {"run", "requeue", "release", "forget"}

\* A handler that is on a recorded task is still on it after the step of a
\* thread, unless it is its own last one.
LEMMA StaysRecorded ==
    ASSUME TypeOK, [Next]_vars, ~Crash, NEW h \in Handlers, pc[h] \in Recorded, ~Forget(h)
    PROVE  pc'[h] \in Recorded /\ job'[h] = job[h]
<1>0. pc \in [Handlers -> Steps] /\ job \in [Handlers -> Jobs \cup {NoJob}]
    BY DEF TypeOK
<1>1. ASSUME NEW g \in Handlers, Handle(g) PROVE pc'[h] \in Recorded /\ job'[h] = job[h]
    <2>1. CASE g = h
        BY <1>0, <1>1, <2>1 DEF Recorded, Handle, PassPause, Lift, HoldForLimit, Claim,
            ClaimFails, Mark, Record, Report, EndUnreported, HandBack, HitLimit, Requeue,
            Release, Go, Finally
    <2>2. CASE g # h
        BY <1>0, <1>1, <2>2 DEF Handle, PassPause, Lift, HoldForLimit, Admit, Claim,
            ClaimFails, Mark, Record, Report, EndUnreported, HandBack, HitLimit, Requeue,
            Release, Forget, Go
    <2> QED
        BY <2>1, <2>2
<1>2. ASSUME NEW g \in Handlers, TakeJob(g) PROVE pc'[h] \in Recorded /\ job'[h] = job[h]
    BY <1>0, <1>2 DEF Recorded, TakeJob, Start, FastTake, FastSlot, Go
<1>3. CASE Dispatch \/ Recover \/ (Environment /\ ~Crash) \/ UNCHANGED vars
    BY <1>3 DEF vars, Dispatch, IdleTick, Discover, SkipCooling, SeeRoom, Submit, Recover,
        TakeOrphans, ReadOrphan, RequeueOrphan, Environment, Restart, LimitResets, Outside,
        Create, HoldExpires, Resume, StartNow, Cancel, SweptAndRetried, TakenElsewhere,
        FinishedElsewhere
<1> QED
    BY <1>1, <1>2, <1>3 DEF Next

\* What a step does to the records.
LEMMA RecordsStep ==
    ASSUME [Next]_vars
    PROVE  \/ UNCHANGED inFlight
           \/ Crash
           \/ \E h \in Handlers : Record(h) \/ Forget(h)
BY DEF Next, vars, Dispatch, IdleTick, Discover, SkipCooling, SeeRoom, Submit, TakeJob, Start,
       FastTake, FastSlot, Handle, PassPause, Lift, HoldForLimit, Claim, ClaimFails, Mark,
       Report, EndUnreported, HandBack, HitLimit, Requeue, Release, Recover, TakeOrphans,
       ReadOrphan, RequeueOrphan, Environment, Restart, LimitResets, Outside, Create,
       HoldExpires, Resume, StartNow, Cancel, SweptAndRetried, TakenElsewhere,
       FinishedElsewhere

LEMMA RecordsPreserved == TypeOK /\ RecordsAreLive /\ [Next]_vars => RecordsAreLive'
<1> SUFFICES ASSUME TypeOK, RecordsAreLive, [Next]_vars, NEW t \in inFlight'
             PROVE  \E h \in Handlers : pc'[h] \in Recorded /\ job'[h].task = t
    BY DEF RecordsAreLive, Recorded
<1>1. CASE Crash
    BY <1>1 DEF Crash
<1>2. ASSUME NEW h \in Handlers, Record(h), t \notin inFlight
      PROVE  pc'[h] \in Recorded /\ job'[h].task = t
    BY <1>2 DEF Record, Go, TypeOK, Recorded
<1>3. ASSUME t \in inFlight, ~Crash
      PROVE  \E h \in Handlers : pc'[h] \in Recorded /\ job'[h].task = t
    <2>1. PICK h \in Handlers : pc[h] \in Recorded /\ job[h].task = t
        BY <1>3 DEF RecordsAreLive, Recorded
    <2>2. ~Forget(h)
        BY <2>1 DEF Forget, WithoutRecord
    <2> QED
        BY <1>3, <2>1, <2>2, StaysRecorded
<1>4. ASSUME NEW h \in Handlers, Forget(h) PROVE t \in inFlight
    BY <1>4 DEF Forget, WithoutRecord
<1> QED
    BY <1>1, <1>2, <1>3, <1>4, RecordsStep

\* state_store.py's in-flight records are of the tasks in hand, whatever way
\* their runs end: the next life requeues nothing that was finished.
THEOREM RecordsLive == Spec => []RecordsAreLive
<1>1. Init => RecordsAreLive
    BY DEF Init, RecordsAreLive
<1> QED
    BY <1>1, TypeInitial, TypePreserved, RecordsPreserved, PTL DEF Spec
============================================================================
