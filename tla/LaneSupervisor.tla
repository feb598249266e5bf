-------------------------- MODULE LaneSupervisor --------------------------
(* The built-in supervisor of a lane (lane_supervisor.py): the callers of  *)
(* `lane start|stop|restart|status|ensure`, the supervisors they start,    *)
(* and each supervisor's lane process, over the two flocks lane.lock and   *)
(* start.lock and the file lane.pid.  A supervisor leads a process group   *)
(* of its own, whose id is its pid; its lane is a member of that group.    *)
EXTENDS Naturals, FiniteSets

CONSTANTS
    Callers,      \* processes that run a `lane` command, one after another
    Pids,         \* the supervisors that may be started: the model's bound
    None,
    MayDieAlone   \* supervisors that a kill -9 or the OOM killer may take
                  \* without their lane

ASSUME SupervisorAssumption ==
    /\ IsFiniteSet(Pids) /\ IsFiniteSet(Callers)
    /\ None \notin Pids \cup Callers
    /\ Pids \cap Callers = {}
    /\ MayDieAlone \subseteq Pids

VARIABLES
    lock,       \* who holds the flock of lane.lock: a supervisor or a probe
    startLock,  \* which caller holds the flock of start.lock
    pidFile,    \* what lane.pid says
    spc,        \* each supervisor: where it is
    stopping,   \* its flag of that name
    lane,       \* does its lane process live?
    cpc, op,    \* each caller: where it is, in which command
    seen,       \* the pid it read
    probe,      \* its probe of lane.lock
    spawned     \* has this start already started a supervisor?

fileVars   == <<lock, startLock, pidFile>>
superVars  == <<spc, stopping, lane>>
callerVars == <<cpc, op, seen, probe, spawned>>
vars == <<fileVars, superVars, callerVars>>

Commands == {"ensure", "stop", "restart", "status"}

\* Where a caller asks for the lock: lock_is_held.
Probing == {"status", "grace", "recheck", "verdict"}

\* Where a supervisor holds the lane lock, and where it has its handlers.
Armed == {"loop", "spawn", "wait", "delay"}
Locked == {"locked", "named"} \cup Armed
Alive == {"boot"} \cup Locked

Unborn == {p \in Pids : spc[p] = "unborn"}
Busy == {c \in Callers : cpc[c] # "idle"}

\* process_group_members
HasMembers(p) == spc[p] \in Alive \/ lane[p]

Init ==
    /\ lock = None /\ startLock = None /\ pidFile = None
    /\ spc = [p \in Pids |-> "unborn"]
    /\ stopping = [p \in Pids |-> FALSE]
    /\ lane = [p \in Pids |-> FALSE]
    /\ cpc = [c \in Callers |-> "idle"]
    /\ op = [c \in Callers |-> "status"]
    /\ seen = [c \in Callers |-> None]
    /\ probe = [c \in Callers |-> "asked"]
    /\ spawned = [c \in Callers |-> FALSE]

----------------------------------------------------------------------------
(* A supervisor: supervise                                                 *)

Step(p, at) == spc' = [spc EXCEPT ![p] = at]
Release(p) == lock' = IF lock = p THEN None ELSE lock

\* Mutant of Refused: the second supervisor serves without the lock.
ServesAnyway(p) == Step(p, "locked")

\* "another supervisor holds the lane lock; exiting"
Refused(p) == Step(p, "dead")

TakeLock(p) ==
    /\ spc[p] = "boot"
    /\ IF lock = None THEN lock' = p /\ Step(p, "locked")
                      ELSE UNCHANGED lock /\ Refused(p)
    /\ UNCHANGED <<startLock, pidFile, stopping, lane, callerVars>>

WritePid(p) ==
    /\ spc[p] = "locked"
    /\ pidFile' = p
    /\ Step(p, "named")
    /\ UNCHANGED <<lock, startLock, stopping, lane, callerVars>>

\* The handlers of TERM and INT; until here a TERM kills.
Arm(p) ==
    /\ spc[p] = "named" /\ Step(p, "loop")
    /\ UNCHANGED <<fileVars, stopping, lane, callerVars>>

\* The test at the head of the loop.
Loop(p) ==
    /\ spc[p] = "loop"
    /\ IF stopping[p] THEN Step(p, "dead") /\ Release(p)
                      ELSE Step(p, "spawn") /\ UNCHANGED lock
    /\ UNCHANGED <<startLock, pidFile, stopping, lane, callerVars>>

\* Popen of the lane's command, which may fail.
Spawn(p) ==
    /\ spc[p] = "spawn"
    /\ \/ lane' = [lane EXCEPT ![p] = TRUE] /\ Step(p, "wait")
       \/ UNCHANGED lane /\ Step(p, "delay")
    /\ UNCHANGED <<fileVars, stopping, callerVars>>

Reap(p) ==
    /\ spc[p] = "wait" /\ ~lane[p]
    /\ Step(p, "delay")
    /\ UNCHANGED <<fileVars, stopping, lane, callerVars>>

\* The delay before the restart, cut short by a TERM.
Delay(p) ==
    /\ spc[p] = "delay" /\ Step(p, "loop")
    /\ UNCHANGED <<fileVars, stopping, lane, callerVars>>

Supervise(p) ==
    \/ TakeLock(p) \/ WritePid(p) \/ Arm(p) \/ Loop(p)
    \/ Spawn(p) \/ Reap(p) \/ Delay(p)

\* A lane ends: of itself, in a crash, or on the TERM of its group.
LaneExits(p) ==
    /\ lane[p] /\ lane' = [lane EXCEPT ![p] = FALSE]
    /\ UNCHANGED <<fileVars, spc, stopping, callerVars>>

\* A kill of the supervisor alone.  The kernel releases its flock, which the
\* lane did not inherit.
DieAlone(p) ==
    /\ p \in MayDieAlone /\ spc[p] \in Alive
    /\ Step(p, "dead") /\ Release(p)
    /\ UNCHANGED <<startLock, pidFile, stopping, lane, callerVars>>

----------------------------------------------------------------------------
(* A caller's look at the lane: lane_status and lock_is_held               *)

Go(c, at) == cpc' = [cpc EXCEPT ![c] = at]
AskAgain(c) == probe' = [probe EXCEPT ![c] = "asked"]

\* The bound: no command that starts, unless a supervisor is left for it.
Call(c, command) ==
    /\ cpc[c] = "idle"
    /\ command \notin {"stop", "status"} =>
           Cardinality(Unborn) > Cardinality(Busy)
    /\ op' = [op EXCEPT ![c] = command]
    /\ Go(c, IF command = "ensure" THEN "guard" ELSE "read")
    /\ UNCHANGED <<fileVars, superVars, seen, probe, spawned>>

\* start_lane's flock of start.lock, which blocks.
Guard(c) ==
    /\ cpc[c] = "guard" /\ startLock = None
    /\ startLock' = c
    /\ Go(c, "read")
    /\ UNCHANGED <<lock, pidFile, superVars, op, seen, probe, spawned>>

ReadPid(c) ==
    /\ cpc[c] = "read"
    /\ seen' = [seen EXCEPT ![c] = pidFile]
    /\ Go(c, "status")
    /\ UNCHANGED <<fileVars, superVars, op, probe, spawned>>

\* The probe takes the lock to find out that it is free,
AskLock(c) ==
    /\ cpc[c] \in Probing /\ probe[c] = "asked"
    /\ IF lock = None
       THEN lock' = c /\ probe' = [probe EXCEPT ![c] = "holding"]
       ELSE UNCHANGED lock /\ probe' = [probe EXCEPT ![c] = "held"]
    /\ UNCHANGED <<startLock, pidFile, superVars, cpc, op, seen, spawned>>

\* and gives it back.
LetGo(c) ==
    /\ probe[c] = "holding"
    /\ lock' = None
    /\ probe' = [probe EXCEPT ![c] = "free"]
    /\ UNCHANGED <<startLock, pidFile, superVars, cpc, op, seen, spawned>>

Asked(c, at) == cpc[c] = at /\ probe[c] \in {"held", "free"}

\* Mutant of Running: the pid file is not asked for.
LockIsHeld(c) == probe[c] = "held"

\* "a live supervisor holds the lane lock", and its pid is known.
Running(c) == probe[c] = "held" /\ seen[c] # None

\* The command ends with its answer; start.lock is closed with it.
Return(c) ==
    /\ Go(c, "idle") /\ AskAgain(c)
    /\ seen' = [seen EXCEPT ![c] = None]
    /\ spawned' = [spawned EXCEPT ![c] = FALSE]
    /\ op' = [op EXCEPT ![c] = "status"]
    /\ startLock' = IF startLock = c THEN None ELSE startLock

Status(c) ==
    /\ Asked(c, "status") /\ op[c] = "status"
    /\ Return(c)
    /\ UNCHANGED <<lock, pidFile, superVars>>

----------------------------------------------------------------------------
(* start_lane                                                              *)

\* Running already, or at last; or the wait for it has lasted too long.
Started(c) ==
    /\ Asked(c, "status") /\ op[c] = "ensure"
    /\ Running(c) \/ spawned[c]
    /\ Return(c)
    /\ UNCHANGED <<lock, pidFile, superVars>>

\* Popen of a supervisor.
Start(c) ==
    /\ Asked(c, "status") /\ op[c] = "ensure" /\ ~Running(c) /\ ~spawned[c]
    /\ \E p \in Unborn : Step(p, "boot")
    /\ spawned' = [spawned EXCEPT ![c] = TRUE]
    /\ Go(c, "read") /\ AskAgain(c)
    /\ UNCHANGED <<fileVars, stopping, lane, op, seen>>

\* Every 50 ms.
LookAgain(c) ==
    /\ Asked(c, "status") /\ op[c] = "ensure" /\ ~Running(c) /\ spawned[c]
    /\ Go(c, "read") /\ AskAgain(c)
    /\ UNCHANGED <<fileVars, superVars, op, seen, spawned>>

----------------------------------------------------------------------------
(* stop_lane and restart_lane                                              *)

\* restart stops a running lane and starts one that is down; with if_idle
\* it leaves a lane alone that has a deep run in flight.
Restart(c) ==
    /\ Asked(c, "status") /\ op[c] = "restart"
    /\ \/ Running(c) /\ Return(c)
       \/ /\ op' = [op EXCEPT ![c] = IF Running(c) THEN "replace" ELSE "ensure"]
          /\ Go(c, IF Running(c) THEN "read" ELSE "guard") /\ AskAgain(c)
          /\ UNCHANGED <<startLock, seen, spawned>>
    /\ UNCHANGED <<lock, pidFile, superVars>>

\* A lane that is not running loses its pid file, and that is all.
StopIfRunning(c) ==
    /\ Asked(c, "status") /\ op[c] \in {"stop", "replace"}
    /\ Go(c, IF Running(c) THEN "term" ELSE "stale") /\ AskAgain(c)
    /\ UNCHANGED <<fileVars, superVars, op, seen, spawned>>

\* TERM to the group.  A supervisor without handlers dies of it, one with
\* them takes note; a lane that lives may exit (LaneExits), or not.
Terminate(c) ==
    /\ cpc[c] = "term"
    /\ LET p == seen[c]
       IN  \/ /\ spc[p] \in Armed
              /\ stopping' = [stopping EXCEPT ![p] = TRUE]
              /\ UNCHANGED <<spc, lock>>
           \/ /\ spc[p] \in Alive \ Armed
              /\ Step(p, "dead") /\ Release(p)
              /\ UNCHANGED stopping
           \/ /\ spc[p] \notin Alive
              /\ UNCHANGED <<spc, lock, stopping>>
    /\ Go(c, "grace")
    /\ UNCHANGED <<startLock, pidFile, lane, op, seen, probe, spawned>>

\* Mutant of StillThere: a free lock is taken for an empty group.
LockOnly(c) == probe[c] = "held"

\* Is anything left of the lane?
StillThere(c) == probe[c] = "held" \/ HasMembers(seen[c])

\* The wait of grace seconds: while something is left,
Linger(c) ==
    /\ Asked(c, "grace") /\ StillThere(c)
    /\ AskAgain(c)
    /\ UNCHANGED <<fileVars, superVars, cpc, op, seen, spawned>>

\* and no longer than that.
GraceEnds(c) ==
    /\ Asked(c, "grace")
    /\ Go(c, "recheck") /\ AskAgain(c)
    /\ UNCHANGED <<fileVars, superVars, op, seen, spawned>>

\* Mutant of Recheck: the wait is thought to be enough.
NoKill(c) ==
    /\ Asked(c, "recheck")
    /\ Go(c, "unlink")
    /\ AskAgain(c)
    /\ UNCHANGED <<fileVars, superVars, op, seen, spawned>>

Recheck(c) ==
    /\ Asked(c, "recheck")
    /\ Go(c, IF StillThere(c) THEN "kill" ELSE "unlink")
    /\ AskAgain(c)
    /\ UNCHANGED <<fileVars, superVars, op, seen, spawned>>

\* KILL to the group: the lane dies with its supervisor.
Kill(c) ==
    /\ cpc[c] = "kill"
    /\ LET p == seen[c]
       IN  Step(p, "dead") /\ Release(p) /\ lane' = [lane EXCEPT ![p] = FALSE]
    /\ Go(c, "unlink")
    /\ UNCHANGED <<startLock, pidFile, stopping, op, seen, probe, spawned>>

\* The pid file goes, whoever wrote it.
Unlink(c) ==
    /\ cpc[c] = "unlink"
    /\ pidFile' = None
    /\ Go(c, "verdict")
    /\ UNCHANGED <<lock, startLock, superVars, op, seen, probe, spawned>>

\* The stop is over; a restart goes on to start.
Over(c) ==
    IF op[c] = "replace"
    THEN /\ op' = [op EXCEPT ![c] = "ensure"]
         /\ Go(c, "guard") /\ AskAgain(c)
         /\ UNCHANGED <<startLock, seen, spawned>>
    ELSE Return(c)

UnlinkStale(c) ==
    /\ cpc[c] = "stale"
    /\ pidFile' = None
    /\ Over(c)
    /\ UNCHANGED <<lock, superVars>>

Verdict(c) ==
    /\ Asked(c, "verdict")
    /\ Over(c)
    /\ UNCHANGED <<lock, pidFile, superVars>>

----------------------------------------------------------------------------
Command(c) ==
    \/ Guard(c) \/ ReadPid(c) \/ AskLock(c) \/ LetGo(c)
    \/ Status(c) \/ Started(c) \/ Start(c) \/ LookAgain(c)
    \/ Restart(c) \/ StopIfRunning(c) \/ Terminate(c) \/ Linger(c)
    \/ GraceEnds(c) \/ Recheck(c) \/ Kill(c) \/ Unlink(c)
    \/ UnlinkStale(c) \/ Verdict(c)

Next ==
    \/ \E p \in Pids : Supervise(p) \/ LaneExits(p) \/ DieAlone(p)
    \/ \E c \in Callers : \/ Command(c)
                          \/ \E command \in Commands : Call(c, command)

Spec == Init /\ [][Next]_vars

\* The processes run on, and the deadline of the grace period comes.
Fairness ==
    /\ \A p \in Pids : WF_vars(Supervise(p))
    /\ \A c \in Callers : WF_vars(Command(c)) /\ SF_vars(GraceEnds(c))

FairSpec == Spec /\ Fairness

----------------------------------------------------------------------------
(* Properties                                                              *)

Steps == {"unborn", "dead"} \cup Alive
CallerSteps == Probing \cup {"idle", "guard", "read", "term", "kill",
                             "unlink", "stale"}

\* Every variable has its type.
TypeOK ==
    /\ lock \in Pids \cup Callers \cup {None}
    /\ startLock \in Callers \cup {None}
    /\ pidFile \in Pids \cup {None}
    /\ spc \in [Pids -> Steps]
    /\ stopping \in [Pids -> BOOLEAN] /\ lane \in [Pids -> BOOLEAN]
    /\ cpc \in [Callers -> CallerSteps]
    /\ op \in [Callers -> Commands \cup {"replace"}]
    /\ seen \in [Callers -> Pids \cup {None}]
    /\ probe \in [Callers -> {"asked", "holding", "held", "free"}]
    /\ spawned \in [Callers -> BOOLEAN]
    /\ \A c \in Callers : cpc[c] \in {"term", "grace", "recheck", "kill"}
                              => seen[c] # None

\* lane_supervisor.py:1 "keep one `poll` lane alive": two lanes would work
\* one queue and one state file.  Whatever commands and probes interleave,
\* living supervisors have one lane between them, and a lane without its
\* supervisor is one whose supervisor was killed alone.
Orphans == {p \in Pids : lane[p] /\ spc[p] \notin Alive}

OneLane ==
    /\ Orphans \subseteq MayDieAlone
    /\ \A p, q \in Pids \ Orphans : lane[p] /\ lane[q] => p = q

\* deployment.md:99: stop TERMs "the whole process group (the lane and every
\* child), KILL after a 15 second grace": when it takes the pid file away,
\* no process of the group is left, though a lane ignores the TERM, was not
\* yet started when it came, or lost its supervisor.
StopKillsItsGroup ==
    \A c \in Callers : cpc[c] = "verdict" => ~HasMembers(seen[c])

\* A supervisor that was told to stop ends.  A TERM that comes between the
\* loop's test and Popen reaches no lane, and the supervisor waits for a lane
\* that does not know of it.
TermedSupervisorEnds ==
    \A p \in Pids : stopping[p] ~> spc[p] = "dead"
==========================================================================
