----------------------- MODULE LaneSupervisor_proofs -----------------------
(* Type correctness of LaneSupervisor; that supervisors which are not      *)
(* killed alone never have two lanes between them; and that a stop leaves  *)
(* nothing of the process group it was aimed at.                           *)
EXTENDS LaneSupervisor, TLAPS

\* Who holds lane.lock is who the program counters say: a supervisor from
\* its flock to its end, or a caller in the middle of a probe.
LockInv ==
    /\ \A p \in Pids : spc[p] \in Locked <=> lock = p
    /\ \A c \in Callers : probe[c] = "holding" =>
           lock = c /\ cpc[c] \in Probing

\* A lane is waited for, or its supervisor was killed alone.
LaneInv ==
    \A p \in Pids : lane[p] =>
        spc[p] = "wait" \/ (p \in MayDieAlone /\ spc[p] = "dead")

\* A pid in the file, or in a caller's hands, is one of a process that was
\* started; and the process whose pid file a stop takes away is dead.
SeenInv ==
    /\ pidFile # None => spc[pidFile] # "unborn"
    /\ \A c \in Callers : seen[c] # None => spc[seen[c]] # "unborn"
    /\ \A c \in Callers : cpc[c] \in {"unlink", "verdict"} =>
           seen[c] # None /\ spc[seen[c]] = "dead" /\ ~lane[seen[c]]

Inv == LockInv /\ LaneInv /\ SeenInv

----------------------------------------------------------------------------
\* A command that answers, and one that goes on to start a lane, keep the
\* types of what the callers have.
LEMMA ReturnTyped ==
    ASSUME TypeOK, NEW c \in Callers, Return(c),
           UNCHANGED <<lock, superVars>>, pidFile' \in {pidFile, None}
    PROVE  TypeOK'
BY SupervisorAssumption
   DEF TypeOK, Return, Go, AskAgain, superVars, Steps, CallerSteps, Commands,
       Alive, Locked, Armed, Probing

LEMMA OverTyped ==
    ASSUME TypeOK, NEW c \in Callers, Over(c),
           UNCHANGED <<lock, superVars>>, pidFile' \in {pidFile, None}
    PROVE  TypeOK'
<1>1. CASE op[c] = "replace"
    BY <1>1
       DEF TypeOK, Over, Go, AskAgain, superVars, Steps, CallerSteps,
           Commands, Alive, Locked, Armed, Probing
<1>2. CASE op[c] # "replace"
    BY <1>2, ReturnTyped DEF Over
<1> QED
    BY <1>1, <1>2

\* Every step keeps the types.
LEMMA TypeStep ==
    ASSUME TypeOK, [Next]_vars
    PROVE  TypeOK'
<1> USE SupervisorAssumption
    DEF TypeOK, Steps, CallerSteps, Commands, Alive, Locked, Armed,
        Probing, fileVars, superVars, callerVars
<1>1. ASSUME NEW p \in Pids, TakeLock(p) PROVE TypeOK'
    BY <1>1 DEF TakeLock, Refused, Step
<1>2. ASSUME NEW p \in Pids, WritePid(p) PROVE TypeOK'
    BY <1>2 DEF WritePid, Step
<1>3. ASSUME NEW p \in Pids, Arm(p) PROVE TypeOK'
    BY <1>3 DEF Arm, Step
<1>4. ASSUME NEW p \in Pids, Loop(p) PROVE TypeOK'
    BY <1>4 DEF Loop, Step, Release
<1>5. ASSUME NEW p \in Pids, Spawn(p) PROVE TypeOK'
    <2>1. spc' \in [Pids -> Steps]
        BY <1>5 DEF Spawn, Step
    <2>2. lane' \in [Pids -> BOOLEAN]
        BY <1>5 DEF Spawn
    <2> QED
        BY <1>5, <2>1, <2>2 DEF Spawn
<1>6. ASSUME NEW p \in Pids, Reap(p) PROVE TypeOK'
    BY <1>6 DEF Reap, Step
<1>7. ASSUME NEW p \in Pids, Delay(p) PROVE TypeOK'
    BY <1>7 DEF Delay, Step
<1>8. ASSUME NEW p \in Pids, LaneExits(p) PROVE TypeOK'
    BY <1>8 DEF LaneExits
<1>9. ASSUME NEW p \in Pids, DieAlone(p) PROVE TypeOK'
    BY <1>9 DEF DieAlone, Step, Release
<1>10. ASSUME NEW c \in Callers, Guard(c) PROVE TypeOK'
    BY <1>10 DEF Guard, Go
<1>11. ASSUME NEW c \in Callers, ReadPid(c) PROVE TypeOK'
    BY <1>11 DEF ReadPid, Go
<1>12. ASSUME NEW c \in Callers, AskLock(c) PROVE TypeOK'
    BY <1>12 DEF AskLock
<1>13. ASSUME NEW c \in Callers, LetGo(c) PROVE TypeOK'
    BY <1>13 DEF LetGo
<1>14. ASSUME NEW c \in Callers, Status(c) PROVE TypeOK'
    BY <1>14 DEF Status, Asked, Return, Go, AskAgain
<1>15. ASSUME NEW c \in Callers, Started(c) PROVE TypeOK'
    BY <1>15 DEF Started, Asked, Return, Go, AskAgain
<1>16. ASSUME NEW c \in Callers, Start(c) PROVE TypeOK'
    BY <1>16 DEF Start, Unborn, Asked, Step, Go, AskAgain
<1>17. ASSUME NEW c \in Callers, LookAgain(c) PROVE TypeOK'
    BY <1>17 DEF LookAgain, Asked, Go, AskAgain
<1>18. ASSUME NEW c \in Callers, Restart(c) PROVE TypeOK'
    <2>1. CASE Return(c)
        BY <1>18, <2>1, ReturnTyped DEF Restart
    <2>2. CASE ~Return(c)
        BY <1>18, <2>2 DEF Restart, Asked, Running, Go, AskAgain
    <2> QED
        BY <1>18, <2>1, <2>2 DEF Restart
<1>19. ASSUME NEW c \in Callers, StopIfRunning(c) PROVE TypeOK'
    BY <1>19 DEF StopIfRunning, Asked, Running, Go, AskAgain
<1>20. ASSUME NEW c \in Callers, Terminate(c) PROVE TypeOK'
    BY <1>20 DEF Terminate, Step, Release, Go
<1>21. ASSUME NEW c \in Callers, Linger(c) PROVE TypeOK'
    BY <1>21 DEF Linger, Asked, AskAgain
<1>22. ASSUME NEW c \in Callers, GraceEnds(c) PROVE TypeOK'
    BY <1>22 DEF GraceEnds, Asked, Go, AskAgain
<1>23. ASSUME NEW c \in Callers, Recheck(c) PROVE TypeOK'
    BY <1>23 DEF Recheck, Asked, StillThere, Go, AskAgain
<1>24. ASSUME NEW c \in Callers, Kill(c) PROVE TypeOK'
    BY <1>24 DEF Kill, Step, Release, Go
<1>25. ASSUME NEW c \in Callers, Unlink(c) PROVE TypeOK'
    BY <1>25 DEF Unlink, Go
<1>26. ASSUME NEW c \in Callers, UnlinkStale(c) PROVE TypeOK'
    BY <1>26, OverTyped DEF UnlinkStale
<1>27. ASSUME NEW c \in Callers, Verdict(c) PROVE TypeOK'
    BY <1>27, OverTyped DEF Verdict
<1>28. ASSUME NEW c \in Callers, NEW command \in Commands,
             Call(c, command)
      PROVE  TypeOK'
    BY <1>28 DEF Call, Go
<1>29. CASE UNCHANGED vars
    BY <1>29 DEF vars
<1> HIDE DEF TypeOK
<1> QED
    BY <1>1, <1>2, <1>3, <1>4, <1>5, <1>6, <1>7, <1>8, <1>9, <1>10, <1>11,
       <1>12, <1>13, <1>14, <1>15, <1>16, <1>17, <1>18, <1>19, <1>20,
       <1>21, <1>22, <1>23, <1>24, <1>25, <1>26, <1>27, <1>28, <1>29
       DEF Next, Supervise, Command

\* Every step keeps the lock's account, leaves no lane without its supervisor
\* but where that one was killed alone, and starts no supervisor twice.
LEMMA SafeStep ==
    ASSUME TypeOK, Inv, [Next]_vars
    PROVE  Inv'
<1> USE SupervisorAssumption
    DEF TypeOK, Inv, LockInv, LaneInv, SeenInv, Steps, CallerSteps,
        Commands, Alive, Locked, Armed, Probing, fileVars, superVars,
        callerVars
<1>1. ASSUME NEW p \in Pids, TakeLock(p) PROVE Inv'
    BY <1>1 DEF TakeLock, Refused, Step
<1>2. ASSUME NEW p \in Pids, WritePid(p) PROVE Inv'
    BY <1>2 DEF WritePid, Step
<1>3. ASSUME NEW p \in Pids, Arm(p) PROVE Inv'
    BY <1>3 DEF Arm, Step
<1>4. ASSUME NEW p \in Pids, Loop(p) PROVE Inv'
    BY <1>4 DEF Loop, Step, Release
<1>5. ASSUME NEW p \in Pids, Spawn(p) PROVE Inv'
    BY <1>5 DEF Spawn, Step
<1>6. ASSUME NEW p \in Pids, Reap(p) PROVE Inv'
    BY <1>6 DEF Reap, Step
<1>7. ASSUME NEW p \in Pids, Delay(p) PROVE Inv'
    BY <1>7 DEF Delay, Step
<1>8. ASSUME NEW p \in Pids, LaneExits(p) PROVE Inv'
    BY <1>8 DEF LaneExits
<1>9. ASSUME NEW p \in Pids, DieAlone(p) PROVE Inv'
    BY <1>9 DEF DieAlone, Step, Release
<1>10. ASSUME NEW c \in Callers, Guard(c) PROVE Inv'
    BY <1>10 DEF Guard, Go
<1>11. ASSUME NEW c \in Callers, ReadPid(c) PROVE Inv'
    BY <1>11 DEF ReadPid, Go
<1>12. ASSUME NEW c \in Callers, AskLock(c) PROVE Inv'
    BY <1>12 DEF AskLock
<1>13. ASSUME NEW c \in Callers, LetGo(c) PROVE Inv'
    BY <1>13 DEF LetGo
<1>14. ASSUME NEW c \in Callers, Status(c) PROVE Inv'
    BY <1>14 DEF Status, Asked, Return, Go, AskAgain
<1>15. ASSUME NEW c \in Callers, Started(c) PROVE Inv'
    BY <1>15 DEF Started, Asked, Return, Go, AskAgain
<1>16. ASSUME NEW c \in Callers, Start(c) PROVE Inv'
    BY <1>16 DEF Start, Unborn, Asked, Step, Go, AskAgain
<1>17. ASSUME NEW c \in Callers, LookAgain(c) PROVE Inv'
    BY <1>17 DEF LookAgain, Asked, Go, AskAgain
<1>18. ASSUME NEW c \in Callers, Restart(c) PROVE Inv'
    BY <1>18 DEF Restart, Asked, Running, Return, Go, AskAgain
<1>19. ASSUME NEW c \in Callers, StopIfRunning(c) PROVE Inv'
    BY <1>19 DEF StopIfRunning, Asked, Running, Go, AskAgain
<1>20. ASSUME NEW c \in Callers, Terminate(c) PROVE Inv'
    BY <1>20 DEF Terminate, Step, Release, Go
<1>21. ASSUME NEW c \in Callers, Linger(c) PROVE Inv'
    BY <1>21 DEF Linger, Asked, AskAgain
<1>22. ASSUME NEW c \in Callers, GraceEnds(c) PROVE Inv'
    BY <1>22 DEF GraceEnds, Asked, Go, AskAgain
<1>23. ASSUME NEW c \in Callers, Recheck(c) PROVE Inv'
    BY <1>23 DEF Recheck, Asked, StillThere, Go, AskAgain, HasMembers
<1>24. ASSUME NEW c \in Callers, Kill(c) PROVE Inv'
    BY <1>24 DEF Kill, Step, Release, Go
<1>25. ASSUME NEW c \in Callers, Unlink(c) PROVE Inv'
    BY <1>25 DEF Unlink, Go
<1>26. ASSUME NEW c \in Callers, UnlinkStale(c) PROVE Inv'
    BY <1>26 DEF UnlinkStale, Over, Return, Go, AskAgain
<1>27. ASSUME NEW c \in Callers, Verdict(c) PROVE Inv'
    BY <1>27 DEF Verdict, Asked, Over, Return, Go, AskAgain
<1>28. ASSUME NEW c \in Callers, NEW command \in Commands,
             Call(c, command)
      PROVE  Inv'
    BY <1>28 DEF Call, Go
<1>29. CASE UNCHANGED vars
    BY <1>29 DEF vars
<1> HIDE DEF TypeOK, Inv
<1> QED
    BY <1>1, <1>2, <1>3, <1>4, <1>5, <1>6, <1>7, <1>8, <1>9, <1>10, <1>11,
       <1>12, <1>13, <1>14, <1>15, <1>16, <1>17, <1>18, <1>19, <1>20,
       <1>21, <1>22, <1>23, <1>24, <1>25, <1>26, <1>27, <1>28, <1>29
       DEF Next, Supervise, Command

----------------------------------------------------------------------------
\* Type correctness, for any callers and supervisors.
THEOREM TypeCorrect == Spec => []TypeOK
<1>1. Init => TypeOK
    BY SupervisorAssumption
       DEF Init, TypeOK, Steps, CallerSteps, Commands, Alive, Locked, Armed,
           Probing
<1>2. TypeOK /\ [Next]_vars => TypeOK'
    BY TypeStep
<1> QED
    BY <1>1, <1>2, PTL DEF Spec

\* The inductive invariant of the two theorems below.
LEMMA Safe == Spec => []Inv
<1>1. Init => Inv
    BY SupervisorAssumption
       DEF Init, Inv, LockInv, LaneInv, SeenInv, Locked, Armed
<1>2. TypeOK /\ Inv /\ [Next]_vars => Inv'
    BY SafeStep
<1> QED
    BY <1>1, <1>2, TypeCorrect, PTL DEF Spec

\* Supervisors have at most one lane between them, except for the lanes of
\* those that were killed alone: with MayDieAlone = {}, one lane.
THEOREM Exclusion == Spec => []OneLane
<1>1. TypeOK /\ Inv => OneLane
    <2> SUFFICES ASSUME TypeOK, Inv PROVE OneLane
        OBVIOUS
    <2>1. Orphans \subseteq MayDieAlone
        BY DEF Inv, LaneInv, Orphans, Alive, Locked, Armed
    <2>2. ASSUME NEW p \in Pids \ Orphans, lane[p] PROVE lock = p
        BY <2>2 DEF Inv, LockInv, LaneInv, Orphans, Alive, Locked, Armed
    <2> QED
        BY <2>1, <2>2 DEF OneLane
<1> QED
    BY <1>1, TypeCorrect, Safe, PTL

\* When a stop takes the pid file away, nothing is left of the group whose
\* pid it read.
THEOREM NothingLeft == Spec => []StopKillsItsGroup
<1>1. TypeOK /\ Inv => StopKillsItsGroup
    BY SupervisorAssumption
       DEF TypeOK, Inv, SeenInv, StopKillsItsGroup, HasMembers, Alive,
           Locked, Armed
<1> QED
    BY <1>1, TypeCorrect, Safe, PTL
==========================================================================
