---------------------------- MODULE IntakeLane ----------------------------
(* The request-intake lane of one runner process: the dispatch thread that *)
(* discovers due tasks and hands them to a worker pool, the fast lane, the *)
(* handlers that claim, mark, record and run a task, the housekeeping      *)
(* thread's recovery of what a killed process was holding, and the state   *)
(* store that survives a kill (poller.py, state_store.py).  The task rows  *)
(* of the Quest backend are external and behave as its client uses them:   *)
(* every PATCH is unconditional, and moves the row's updated_at, except    *)
(* that a cancelled row, or the claim of a paused one, is answered 409.    *)
EXTENDS Integers, FiniteSets

CONSTANTS
    Tasks,         \* task ids
    Workers,       \* the pool's threads: max_concurrent_tasks of them
    Fast,          \* the fast lane's thread
    NoJob,         \* what a thread with nothing to do holds
    RealTime,      \* tasks with real_time set: the fast lane is given them too
    ContextTasks,  \* tasks that carry a context_request
    NotOurs,       \* tasks whose requested_action belongs to another runner
    Unclaimable,   \* tasks whose claim PATCH is always refused
    Shared,        \* tasks that another environment may take
    Age,           \* Age[t]: the order of creation
    CooldownTicks, \* dispatch ticks a refused task is left alone
    MayHappen,     \* the kinds of accident that may happen, out of Accidents
    MaxAccidents   \* and how many of them in all: the bound on behaviours

Handlers == Workers \cup {Fast}
MaxConcurrent == Cardinality(Workers)

\* A kill; a usage limit; an outage or a person's pause; a press of "Start
\* now"; a cancel; a request that is lost or refused, or a run that raises;
\* an overloaded host, or a spent token budget (sampled, so not counted).
Accidents == {"crash", "limit", "handBack", "start", "cancel", "fault", "load"}

\* A task as one discovery saw it: its version (updated_at) and the limit
\* during which its owner last pressed "Start now" (0: never).
Jobs == [task : Tasks, ver : Nat, start : Nat]

\* A row of the backend.  "done" stands for every status a terminal report
\* sets; a row is held until start_at ("timed") or by a person's pause.
Statuses == {"absent", "queued", "in_progress", "done", "cancelled"}
HoldKinds == {"no", "timed", "person"}
Rows == [status : Statuses, ver : Nat, held : HoldKinds, start : Nat]

ASSUME LaneAssumption ==
    /\ IsFiniteSet(Workers) /\ Workers # {} /\ Fast \notin Workers
    /\ NoJob \notin Jobs
    /\ RealTime \subseteq Tasks /\ ContextTasks \subseteq Tasks
    /\ NotOurs \subseteq Tasks /\ Unclaimable \subseteq Tasks
    /\ Shared \subseteq Tasks
    /\ Age \in [Tasks -> Nat]
    /\ CooldownTicks \in Nat
    /\ MayHappen \subseteq Accidents /\ MaxAccidents \in Nat

\* Tasks this runner can never have.
Unobtainable == Unclaimable \cup (NotOurs \ ContextTasks)

VARIABLES
    row,         \* the backend's row of each task
    elsewhere,   \* tasks another environment is running
    up,          \* is the process alive?
    handled,     \* the store's signatures (memory and disk agree)
    inFlight,    \* StateStore._in_flight
    disk,        \* in_flight in the state file
    orphans,     \* StateStore._orphans
    slots,       \* Poller._inflight
    cooldown,    \* Poller._claim_cooldown, in dispatch ticks left
    limited,     \* is a usage limit on record and still active?
    epoch,       \* how many usage limits were recorded (seen_at)
    dpc, batch,  \* the dispatch thread: where it is, what it still considers
    pool,        \* submitted jobs no worker has started
    pc, job,     \* each handler: where it is, what it handles
    rpc, todo,   \* the recovery: where it is, the orphans it took
    started,     \* signatures that were run (history)
    left         \* accidents that may still happen (bound)

rowVars   == <<row, elsewhere>>
storeVars == <<handled, inFlight, disk, orphans>>
hostVars  == <<limited, epoch>>
dispVars  == <<dpc, batch, pool>>
runVars   == <<pc, job>>
recVars   == <<rpc, todo>>
histVars  == <<started>>
vars == <<rowVars, up, storeVars, slots, cooldown, hostVars, dispVars,
          runVars, recVars, histVars, left>>

----------------------------------------------------------------------------
(* Rows and signatures                                                     *)

Sig(j) == <<j.task, j.ver>>
Snapshot(t) == [task |-> t, ver |-> row[t].ver, start |-> row[t].start]

\* Queued work whose start time has come and nobody has paused.
Due(t) == row[t].status = "queued" /\ row[t].held = "no"

\* PATCH the row's status and hold.
Put(t, status, held) ==
    row' = [row EXCEPT ![t] = [status |-> status, ver |-> row[t].ver + 1,
                               held |-> held, start |-> row[t].start]]

\* PATCH a status, unless the row was cancelled: that write is answered 409.
PutUnlessCancelled(t, status, held) ==
    IF row[t].status = "cancelled" THEN UNCHANGED row ELSE Put(t, status, held)

\* dispatch_order: started by its owner, then real-time, then the oldest.
Kind(j) == IF j.start > 0 THEN 0 ELSE IF j.task \in RealTime THEN 1 ELSE 2
Ahead(j, k) == \/ Kind(j) < Kind(k)
               \/ Kind(j) = Kind(k) /\ Age[j.task] < Age[k.task]
IsFirst(j) == j \in batch /\ \A k \in batch \ {j} : Ahead(j, k)

Happens(accident) ==
    /\ accident \in MayHappen /\ left > 0
    /\ left' = left - 1

\* The slots, counted and taken under _inflight_lock.
Full == Cardinality(slots) >= MaxConcurrent

\* Mutant of Taken: the guard lets everybody in.
NeverTaken(t) == FALSE
Taken(t) == t \in slots

----------------------------------------------------------------------------
Init ==
    /\ row = [t \in Tasks |-> [status |-> "absent", ver |-> 0, held |-> "no",
                               start |-> 0]]
    /\ elsewhere = {}
    /\ up = TRUE
    /\ handled = {} /\ inFlight = {} /\ disk = {} /\ orphans = {}
    /\ slots = {}
    /\ cooldown = [t \in Tasks |-> 0]
    /\ limited = FALSE /\ epoch = 0
    /\ dpc = "idle" /\ batch = {} /\ pool = {}
    /\ pc = [h \in Handlers |-> "idle"] /\ job = [h \in Handlers |-> NoJob]
    /\ rpc = "pending" /\ todo = {}
    /\ started = {}
    /\ left = MaxAccidents

----------------------------------------------------------------------------
(* The dispatch thread: one tick every dispatch_interval_seconds           *)

\* Mutant of Cooled: a cooldown that ran out goes on counting.
CooledBelowZero == [t \in Tasks |-> cooldown[t] - 1]

\* A tick later on the clock.  The slot of a refused task is given back at
\* once, not ticks later, so its cooldown runs from there.
Cooled == [t \in Tasks |-> IF cooldown[t] > 0 /\ t \notin slots
                            THEN cooldown[t] - 1 ELSE cooldown[t]]

\* Fresh work: discovered as due, and its signature never handled.
Fresh == {j \in {Snapshot(t) : t \in {u \in Tasks : Due(u)}} :
             Sig(j) \notin handled}

\* A tick that discovers nothing: no free slot, an overloaded host, or a
\* failed GET (which discover_due answers with an empty list).  It changes
\* no more than the clock, and is not counted as an accident.
IdleTick ==
    /\ up /\ dpc = "idle"
    /\ Full \/ Fresh = {} \/ {"load", "fault"} \cap MayHappen # {}
    /\ cooldown' = Cooled
    /\ UNCHANGED <<rowVars, up, storeVars, slots, hostVars, dispVars, runVars,
                   recVars, histVars, left>>

Discover ==
    /\ up /\ dpc = "idle" /\ ~Full /\ Fresh # {}
    /\ batch' = Fresh
    /\ dpc' = "batch"
    /\ cooldown' = Cooled
    /\ UNCHANGED <<rowVars, up, storeVars, slots, hostVars, pool, runVars,
                   recVars, histVars, left>>

\* The batch without j, and where that leaves the dispatch thread.
Considered(j) ==
    /\ batch' = batch \ {j}
    /\ dpc' = IF batch' = {} THEN "idle" ELSE "batch"

SkipCooling ==
    /\ up /\ dpc = "batch"
    /\ \E j \in batch : IsFirst(j) /\ cooldown[j.task] > 0 /\ Considered(j)
    /\ UNCHANGED <<rowVars, up, storeVars, slots, cooldown, hostVars, pool,
                   runVars, recVars, histVars, left>>

\* The count is read under the lock, the slot taken under it a second time.
SeeRoom ==
    /\ up /\ dpc = "batch"
    /\ \E j \in batch : IsFirst(j) /\ cooldown[j.task] = 0
    /\ IF Full THEN dpc' = "idle" /\ batch' = {}
               ELSE dpc' = "slot" /\ UNCHANGED batch
    /\ UNCHANGED <<rowVars, up, storeVars, slots, cooldown, hostVars, pool,
                   runVars, recVars, histVars, left>>

\* _claim_slot, and the submission of a task whose slot was free.
Submit ==
    /\ up /\ dpc = "slot"
    /\ \E j \in batch :
          /\ IsFirst(j) /\ Considered(j)
          /\ IF Taken(j.task)
             THEN UNCHANGED <<slots, pool>>
             ELSE slots' = slots \cup {j.task} /\ pool' = pool \cup {j}
    /\ UNCHANGED <<rowVars, up, storeVars, cooldown, hostVars, runVars,
                   recVars, histVars, left>>

----------------------------------------------------------------------------
(* How a handler comes by its job                                          *)

Go(h, step) == pc' = [pc EXCEPT ![h] = step]

\* Mutant of Finally: _release_slot is not reached.
SlotForgotten == "forget"
\* Where every return and every exception of _handle_one leads.
Finally == "release"

\* _handle_one answers a context request before it looks at any gate.
FirstStep(j) == IF j.task \in ContextTasks THEN "claim" ELSE "pause"

\* A pool thread takes a submitted task; its slot came with it.
Start(w) ==
    /\ up /\ pc[w] = "idle"
    /\ \E j \in pool :
          /\ pool' = pool \ {j}
          /\ job' = [job EXCEPT ![w] = j]
          /\ Go(w, FirstStep(j))
    /\ UNCHANGED <<rowVars, up, storeVars, slots, cooldown, hostVars, dpc,
                   batch, recVars, histVars, left>>

\* The wait channel delivers a real-time task, which is dropped when its
\* signature was handled.
FastTake ==
    /\ up /\ pc[Fast] = "idle"
    /\ \E t \in RealTime :
          /\ Due(t) /\ Sig(Snapshot(t)) \notin handled
          /\ job' = [job EXCEPT ![Fast] = Snapshot(t)]
    /\ Go(Fast, "seen")
    /\ UNCHANGED <<rowVars, up, storeVars, slots, cooldown, hostVars, dispVars,
                   recVars, histVars, left>>

FastSlot ==
    /\ up /\ pc[Fast] = "seen"
    /\ IF Taken(job[Fast].task)
       THEN /\ Go(Fast, "idle")
            /\ job' = [job EXCEPT ![Fast] = NoJob]
            /\ UNCHANGED slots
       ELSE /\ slots' = slots \cup {job[Fast].task}
            /\ Go(Fast, FirstStep(job[Fast]))
            /\ UNCHANGED job
    /\ UNCHANGED <<rowVars, up, storeVars, cooldown, hostVars, dispVars,
                   recVars, histVars, left>>

----------------------------------------------------------------------------
(* The gates a task passes before it is claimed                            *)

\* start_requested_at is later than the seen_at of the active limit.
Released(j) == j.start = epoch + 1

\* Mutant of Admit: the task is marked although nobody claimed it.
MarkFirst(h) == Go(h, "mark")

\* The gates after the pause: an overloaded host, or an action another
\* runner published, leaves the task in the queue, untouched.
Admit(h) ==
    \/ job[h].task \notin NotOurs /\ Go(h, "claim")
    \/ /\ job[h].task \in NotOurs \/ "load" \in MayHappen
       /\ Go(h, Finally)

PassPause(h) ==
    /\ up /\ pc[h] = "pause"
    /\ IF limited THEN Released(job[h]) /\ Go(h, "lift") ELSE Admit(h)
    /\ UNCHANGED <<rowVars, up, storeVars, slots, cooldown, hostVars, dispVars,
                   job, recVars, histVars, left>>

\* usage_limit.clear: whatever limit is on record now.
Lift(h) ==
    /\ up /\ pc[h] = "lift"
    /\ limited' = FALSE
    /\ Admit(h)
    /\ UNCHANGED <<rowVars, up, storeVars, slots, cooldown, epoch, dispVars,
                   job, recVars, histVars, left>>

\* hold_for_usage_limit: start_at and the reason, never the status.
HoldForLimit(h) ==
    /\ up /\ pc[h] = "pause" /\ limited /\ ~Released(job[h])
    /\ LET t == job[h].task
       IN  \/ PutUnlessCancelled(t, row[t].status, "timed") /\ UNCHANGED left
           \/ Happens("fault") /\ UNCHANGED row
    /\ Go(h, Finally)
    /\ UNCHANGED <<elsewhere, up, storeVars, slots, cooldown, hostVars,
                   dispVars, job, recVars, histVars>>

----------------------------------------------------------------------------
(* Claim, mark, record                                                     *)

Refused(t) == \/ t \in Unclaimable
              \/ row[t].status = "cancelled"
              \/ row[t].held = "person"


\* A refused task is left alone for a while, but a context request is not.
CooldownAfterRefusal(t) ==
    IF t \in ContextTasks THEN cooldown
    ELSE [cooldown EXCEPT ![t] = CooldownTicks]

\* Mutant of AfterClaim: the signature is never marked.
RunUnmarked == "record"

\* The signature is marked after the claim, and before the run.
AfterClaim == "mark"

Claim(h) ==
    /\ up /\ pc[h] = "claim"
    /\ ~Refused(job[h].task)
    /\ Put(job[h].task, "in_progress", row[job[h].task].held)
    /\ Go(h, AfterClaim)
    /\ cooldown' = IF job[h].task \in ContextTasks THEN cooldown
                   ELSE [cooldown EXCEPT ![job[h].task] = 0]
    /\ UNCHANGED <<elsewhere, up, storeVars, slots, hostVars, dispVars, job,
                   recVars, histVars, left>>

\* claim() is None: refused, never sent, or applied with its answer lost.
ClaimFails(h) ==
    /\ up /\ pc[h] = "claim"
    /\ LET t == job[h].task
       IN  /\ \/ Refused(t) /\ UNCHANGED <<row, left>>
              \/ /\ ~Refused(t) /\ Happens("fault")
                 /\ UNCHANGED row \/ Put(t, "in_progress", row[t].held)
           /\ cooldown' = CooldownAfterRefusal(t)
    /\ Go(h, Finally)
    /\ UNCHANGED <<elsewhere, up, storeVars, slots, hostVars, dispVars, job,
                   recVars, histVars>>

\* The history of runs, when the run of j begins.
Begin(j) == started' = started \cup {Sig(j)}

\* StateStore.mark.  Every save writes the in-flight records as they are
\* in memory.  A context request is answered next, without a record.
Mark(h) ==
    /\ up /\ pc[h] = "mark"
    /\ handled' = handled \cup {Sig(job[h])}
    /\ disk' = inFlight
    /\ IF job[h].task \in ContextTasks
       THEN Go(h, "run") /\ Begin(job[h])
       ELSE Go(h, "record") /\ UNCHANGED histVars
    /\ UNCHANGED <<rowVars, up, inFlight, orphans, slots, cooldown, hostVars,
                   dispVars, job, recVars, left>>

\* StateStore.claim_in_flight.
Record(h) ==
    /\ up /\ pc[h] = "record"
    /\ inFlight' = inFlight \cup {job[h].task}
    /\ disk' = inFlight'
    /\ Go(h, "run") /\ Begin(job[h])
    /\ UNCHANGED <<rowVars, up, handled, orphans, slots, cooldown, hostVars,
                   dispVars, job, recVars, left>>

----------------------------------------------------------------------------
(* How a run ends                                                          *)

\* A terminal report (done, failed or needs_you; "done" stands for all).
Report(h) ==
    /\ up /\ pc[h] = "run"
    /\ PutUnlessCancelled(job[h].task, "done", row[job[h].task].held)
    /\ Go(h, Finally)
    /\ UNCHANGED <<elsewhere, up, storeVars, slots, cooldown, hostVars,
                   dispVars, job, recVars, histVars, left>>

\* No report lands: its write failed (which reports never raise), or
\* something between the claim and the report raised.
EndUnreported(h) ==
    /\ up /\ pc[h] = "run" /\ Happens("fault")
    /\ Go(h, Finally)
    /\ UNCHANGED <<rowVars, up, storeVars, slots, cooldown, hostVars, dispVars,
                   job, recVars, histVars>>

\* A provider outage ("timed") or a person's pause ("person") puts the task
\* back in the queue; a write that fails is followed by a failed report.
HandBack(h) ==
    /\ up /\ pc[h] = "run" /\ job[h].task \notin ContextTasks
    /\ Happens("handBack")
    /\ LET t == job[h].task
       IN  \/ \E held \in {"timed", "person"} :
                 PutUnlessCancelled(t, "queued", held)
           \/ "fault" \in MayHappen
                 /\ PutUnlessCancelled(t, "done", row[t].held)
    /\ Go(h, Finally)
    /\ UNCHANGED <<elsewhere, up, storeVars, slots, cooldown, hostVars,
                   dispVars, job, recVars, histVars>>

\* The run hit the usage limit, which is recorded before the row is touched.
HitLimit(h) ==
    /\ up /\ pc[h] = "run" /\ job[h].task \notin ContextTasks
    /\ Happens("limit")
    /\ limited' = TRUE /\ epoch' = epoch + 1
    /\ Go(h, "requeue")
    /\ UNCHANGED <<rowVars, up, storeVars, slots, cooldown, dispVars, job,
                   recVars, histVars>>

\* Requeue with the hold; failing that without it; failing that, failed.
Requeue(h) ==
    /\ up /\ pc[h] = "requeue"
    /\ LET t == job[h].task
       IN  \/ PutUnlessCancelled(t, "queued", "timed") /\ UNCHANGED left
           \/ /\ Happens("fault")
              /\ \/ PutUnlessCancelled(t, "queued", row[t].held)
                 \/ PutUnlessCancelled(t, "done", row[t].held)
                 \/ UNCHANGED row
    /\ Go(h, Finally)
    /\ UNCHANGED <<elsewhere, up, storeVars, slots, cooldown, hostVars,
                   dispVars, job, recVars, histVars>>

\* The finally clause: the slot first,
Release(h) ==
    /\ up /\ pc[h] = "release"
    /\ slots' = slots \ {job[h].task}
    /\ Go(h, "forget")
    /\ UNCHANGED <<rowVars, up, storeVars, cooldown, hostVars, dispVars, job,
                   recVars, histVars, left>>

\* Mutant of WithoutRecord: the record outlives the run.
RecordKept(t) == inFlight

\* then the in-flight record, saved only when there was one.
WithoutRecord(t) == inFlight \ {t}

\* Mutant of Forget: the slot is released a second time.
SlotReleasedAgain(h) ==
    /\ up /\ pc[h] = "forget"
    /\ slots' = slots \ {job[h].task}
    /\ inFlight' = inFlight \ {job[h].task} /\ disk' = inFlight'
    /\ Go(h, "idle")
    /\ job' = [job EXCEPT ![h] = NoJob]
    /\ UNCHANGED <<rowVars, up, handled, orphans, cooldown, hostVars, dispVars,
                   recVars, histVars, left>>

Forget(h) ==
    /\ up /\ pc[h] = "forget"
    /\ inFlight' = WithoutRecord(job[h].task)
    /\ disk' = IF job[h].task \in inFlight THEN inFlight' ELSE disk
    /\ Go(h, "idle")
    /\ job' = [job EXCEPT ![h] = NoJob]
    /\ UNCHANGED <<rowVars, up, handled, orphans, slots, cooldown, hostVars,
                   dispVars, recVars, histVars, left>>

----------------------------------------------------------------------------
(* Housekeeping: recovery, once per process                                *)

\* take_orphans.  It comes when wait_until_ok lets the first scan through,
\* which an overloaded host may put off while the other threads work.
TakeOrphans ==
    /\ up /\ rpc = "pending"
    /\ todo' = orphans
    /\ orphans' = {}
    /\ disk' = IF orphans = {} THEN disk ELSE inFlight
    /\ rpc' = IF orphans = {} THEN "done" ELSE "read"
    /\ UNCHANGED <<rowVars, up, handled, inFlight, slots, cooldown, hostVars,
                   dispVars, runVars, histVars, left>>

\* The orphans in order, one GET each.
IsNext(t) == t \in todo /\ \A u \in todo \ {t} : Age[t] < Age[u]

\* Done with t: on to the next orphan.
Settled(t) ==
    /\ todo' = todo \ {t}
    /\ rpc' = IF todo' = {} THEN "done" ELSE "read"

\* Mutant of StillInProgress: the wrong status is tested.
StillQueued(t) == row[t].status = "queued"
StillInProgress(t) == row[t].status = "in_progress"

\* The row is left alone unless it is still in_progress, or when the GET
\* failed.
ReadOrphan ==
    /\ up /\ rpc = "read"
    /\ \E t \in todo :
          /\ IsNext(t)
          /\ \/ StillInProgress(t) /\ rpc' = "write" /\ UNCHANGED todo
             \/ ~StillInProgress(t) /\ Settled(t)
             \/ "fault" \in MayHappen /\ Settled(t)
    /\ UNCHANGED <<rowVars, up, storeVars, slots, cooldown, hostVars, dispVars,
                   runVars, histVars, left>>

RequeueOrphan ==
    /\ up /\ rpc = "write"
    /\ \E t \in todo :
          /\ IsNext(t)
          /\ \/ PutUnlessCancelled(t, "queued", row[t].held)
             \/ "fault" \in MayHappen /\ UNCHANGED row
          /\ Settled(t)
    /\ UNCHANGED <<elsewhere, up, storeVars, slots, cooldown, hostVars,
                   dispVars, runVars, histVars, left>>

----------------------------------------------------------------------------
(* The process dies and is started again                                   *)

\* SIGKILL, OOM, power: memory is gone, the state file and the rows are not.
Crash ==
    /\ up /\ Happens("crash")
    /\ up' = FALSE
    /\ inFlight' = {} /\ orphans' = {} /\ slots' = {}
    /\ cooldown' = [t \in Tasks |-> 0]
    /\ dpc' = "idle" /\ batch' = {} /\ pool' = {}
    /\ pc' = [h \in Handlers |-> "idle"] /\ job' = [h \in Handlers |-> NoJob]
    /\ rpc' = "pending" /\ todo' = {}
    /\ UNCHANGED <<rowVars, handled, disk, hostVars, histVars>>

\* StateStore._load: what the file holds is what a previous life abandoned.
Restart ==
    /\ ~up
    /\ up' = TRUE
    /\ orphans' = disk
    /\ UNCHANGED <<rowVars, handled, inFlight, disk, slots, cooldown, hostVars,
                   dispVars, runVars, recVars, histVars, left>>

----------------------------------------------------------------------------
(* The host, the person and the other environments                         *)

LimitResets ==
    /\ limited /\ limited' = FALSE
    /\ UNCHANGED <<rowVars, up, storeVars, slots, cooldown, epoch, dispVars,
                   runVars, recVars, histVars, left>>

\* Only the row changes, by somebody else's hand.
Outside == UNCHANGED <<up, storeVars, slots, cooldown, hostVars, dispVars,
                       runVars, recVars, histVars>>

\* A held task's start_at, the reset of the limit, has come.
HoldExpires(t) ==
    /\ row[t].held = "timed" /\ ~limited
    /\ Put(t, row[t].status, "no")
    /\ UNCHANGED <<elsewhere, left>> /\ Outside

Resume(t) ==
    /\ row[t].held = "person"
    /\ Put(t, row[t].status, "no")
    /\ UNCHANGED <<elsewhere, left>> /\ Outside

\* A person, Autopilot or a workflow creates the task.
Create(t) ==
    /\ row[t].status = "absent"
    /\ Put(t, "queued", "no")
    /\ UNCHANGED <<elsewhere, left>> /\ Outside

\* The owner presses "Start now" on a task that waits.
StartNow(t) ==
    /\ row[t].status = "queued" /\ row[t].held # "person"
    /\ Happens("start")
    /\ row' = [row EXCEPT ![t] = [status |-> "queued", ver |-> row[t].ver + 1,
                                  held |-> "no", start |-> epoch + 1]]
    /\ UNCHANGED elsewhere /\ Outside

Cancel(t) ==
    /\ row[t].status \in {"queued", "in_progress"}
    /\ Happens("cancel")
    /\ Put(t, "cancelled", row[t].held)
    /\ UNCHANGED elsewhere /\ Outside

\* One process serves a queue at a time (discover_due's docstring), so that
\* another environment takes work only while this one is down.  The backend's
\* sweep then fails an abandoned row, and its owner has it tried again.
SweptAndRetried(t) ==
    /\ ~up /\ t \in Shared \ elsewhere /\ row[t].status = "in_progress"
    /\ Put(t, "queued", row[t].held)
    /\ UNCHANGED <<elsewhere, left>> /\ Outside

TakenElsewhere(t) ==
    /\ ~up /\ t \in Shared \ elsewhere /\ Due(t)
    /\ Put(t, "in_progress", row[t].held)
    /\ elsewhere' = elsewhere \cup {t}
    /\ UNCHANGED left /\ Outside

FinishedElsewhere(t) ==
    /\ t \in elsewhere
    /\ PutUnlessCancelled(t, "done", row[t].held)
    /\ elsewhere' = elsewhere \ {t}
    /\ UNCHANGED left /\ Outside

----------------------------------------------------------------------------
Dispatch == IdleTick \/ Discover \/ SkipCooling \/ SeeRoom \/ Submit

TakeJob(h) == IF h = Fast THEN FastTake \/ FastSlot ELSE Start(h)

Handle(h) ==
    \/ PassPause(h) \/ Lift(h) \/ HoldForLimit(h)
    \/ Claim(h) \/ ClaimFails(h) \/ Mark(h) \/ Record(h)
    \/ Report(h) \/ EndUnreported(h) \/ HandBack(h)
    \/ HitLimit(h) \/ Requeue(h) \/ Release(h) \/ Forget(h)

Recover == TakeOrphans \/ ReadOrphan \/ RequeueOrphan

Environment ==
    \/ Crash \/ Restart \/ LimitResets
    \/ \E t \in Tasks : \/ Create(t) \/ HoldExpires(t) \/ Resume(t)
                        \/ StartNow(t) \/ Cancel(t)
                        \/ SweptAndRetried(t)
                        \/ TakenElsewhere(t) \/ FinishedElsewhere(t)

Next ==
    \/ Dispatch
    \/ \E h \in Handlers : TakeJob(h) \/ Handle(h)
    \/ Recover
    \/ Environment

Spec == Init /\ [][Next]_vars

\* The pool's queue is first in, first out: a job in it is started in the
\* end, whatever jobs are submitted after it and by whichever thread.
StartTask(t) == \E w \in Workers : Start(w) /\ job'[w].task = t

\* Every thread of a live process goes on, a killed process is started
\* again by its supervisor, a limit resets, a timed hold ends, and a person
\* resumes what they paused.
Fairness ==
    /\ WF_vars(Dispatch)
    /\ \A t \in Tasks : SF_vars(StartTask(t))
    /\ WF_vars(TakeJob(Fast))
    /\ \A h \in Handlers : WF_vars(Handle(h))
    /\ WF_vars(Recover)
    /\ WF_vars(Restart)
    /\ WF_vars(LimitResets)
    /\ \A t \in Tasks : WF_vars(HoldExpires(t)) /\ WF_vars(Resume(t))

FairSpec == Spec /\ Fairness

----------------------------------------------------------------------------
(* Safety                                                                  *)

Steps == {"idle", "seen", "pause", "lift", "claim", "mark", "record",
          "run", "requeue", "release", "forget"}

\* Every variable has its type; nothing of a dead process is left.
TypeOK ==
    /\ row \in [Tasks -> Rows]
    /\ elsewhere \subseteq Shared
    /\ up \in BOOLEAN
    /\ handled \subseteq Tasks \X Nat
    /\ inFlight \subseteq Tasks /\ disk \subseteq Tasks
    /\ orphans \subseteq Tasks /\ todo \subseteq Tasks
    /\ slots \subseteq Tasks
    /\ cooldown \in [Tasks -> 0 .. CooldownTicks]
    /\ limited \in BOOLEAN /\ epoch \in Nat /\ left \in Nat
    /\ dpc \in {"idle", "batch", "slot"}
    /\ batch \subseteq Jobs /\ pool \subseteq Jobs
    /\ pc \in [Handlers -> Steps]
    /\ job \in [Handlers -> Jobs \cup {NoJob}]
    /\ \A h \in Handlers : pc[h] = "idle" <=> job[h] = NoJob
    /\ rpc \in {"pending", "read", "write", "done"}
    /\ started \subseteq Tasks \X Nat

\* A handler holds a task from the moment it has the slot to its release.
Holding == Steps \ {"idle", "seen", "forget"}
Holds(h, t) == pc[h] \in Holding /\ job[h].task = t
Pooled(t) == \E j \in pool : j.task = t

\* No task is handled by two threads of the process at once, nor handled
\* while it waits in the pool: the promise of _claim_slot.
OneHandlerPerTask ==
    /\ \A g, h \in Handlers : pc[g] \in Holding /\ pc[h] \in Holding
                                  /\ job[g].task = job[h].task => g = h
    /\ \A h \in Handlers, t \in Tasks : Holds(h, t) => ~Pooled(t)
    /\ \A j, k \in pool : j.task = k.task => j = k

\* A slot is taken exactly while somebody holds the task: a slot that leaks
\* would keep its task, and a place of max_concurrent_tasks, for good.
SlotsAreHeld ==
    slots = {t \in Tasks : Pooled(t) \/ \E h \in Handlers : Holds(h, t)}

\* A run that began is in the signature store, whatever crashed since: the
\* restarted process does not run the same version of the task again.
RunsAreMarked == started \subseteq handled

\* A task that waits in the queue is never one whose signature was handled:
\* it would be filtered out of every discovery and never run.
QueuedWorkIsOffered == \A t \in Tasks : Sig(Snapshot(t)) \notin handled

\* An in-flight record belongs to a task some handler is still on: a record
\* left behind makes the next life requeue work that was finished.
RecordsAreLive ==
    \A t \in inFlight : \E h \in Handlers :
        /\ pc[h] \in {"run", "requeue", "release", "forget"}
        /\ job[h].task = t

----------------------------------------------------------------------------
(* The claim guard implements the abstract lease                           *)

HoldersOf(t) == {h \in Handlers : Holds(h, t)}
                  \cup (IF Pooled(t) THEN {"pool"} ELSE {})

Lease == INSTANCE SlotLease WITH
             Holders <- Handlers, Pool <- "pool",
             leases <- [t \in Tasks |-> HoldersOf(t)]

\* Submit, FastSlot, Start, Release and Crash are the steps of a lease, and
\* no other step of the lane touches one.
LeaseSpec == Lease!Spec

----------------------------------------------------------------------------
(* What the source says and the code does not do                           *)

\* state_store.py:119-120 "Consumed once: the returned ids are cleared from
\* the store": until they are returned they stay in the state file.
OrphansStayRecorded == up => orphans \subseteq disk

----------------------------------------------------------------------------
(* Progress                                                                *)

\* What the previous life was running does not stay in_progress with nobody
\* on it: the recovery returns it to the queue, or finds it ended.
OrphansAreReturned ==
    \A t \in Tasks : up /\ t \in orphans ~> \/ ~up
                                            \/ row[t].status # "in_progress"
                                            \/ \E h \in Handlers : Holds(h, t)

\* Those of them that want a slot again at every tick: no cooldown is set for
\* an action that is not ours (poller.py:616-617) or for a context request
\* (723-725), and the fast lane looks at none.
Persistent == Unobtainable \ (Unclaimable \ (NotOurs \cup ContextTasks \cup RealTime))

\* Those that can be ahead of t: in dispatch_order, or by the fast lane.
AheadOf(t) == {u \in Persistent : \/ u \in RealTime \/ Age[u] < Age[t]
                                  \/ "start" \in MayHappen}

==========================================================================
