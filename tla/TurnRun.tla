------------------------------ MODULE TurnRun ------------------------------
(* One turn of the orchestrator: the bounded plan loop with its gates      *)
(* (orchestrator_run_loop.py), the route of its final action and the nets  *)
(* behind an answer (orchestrator_run_answer.py), the deferred work and    *)
(* the goal loop (orchestrator_run_close.py), and the deep runs all of     *)
(* these start.  What a model, a judge, a tool or a runner says is free.   *)
(* The turn is one thread; a person stops it, and the read budget runs     *)
(* out, at any time.  Tools that change something, retrieval and web are   *)
(* wired.                                                                  *)
EXTENDS Naturals, FiniteSets

CONSTANTS
    Settings,      \* the turns of an instance, see SettingType
    Planned,       \* the plans a planner makes in an instance
    Calls,         \* tool calls that change something
    Gates,         \* the gates that are on
    MaxSteps,      \* max_steps
    MaxReads,      \* max_consecutive_reads
    MaxPending,    \* PENDING_READ_MAX_RUNS
    MaxSignals,    \* overseer_max_signals
    MaxRemedies,   \* max_remediations
    MaxTries       \* answer_goal_max_iterations

\* typed: a person typed the message, else it is the brief of a task; mode: the
\* latch of the conversation, held, or released by this message; runner: the
\* deep runner.  On: overseer; signals, mode_signals_enabled; budget, a bound on
\* the time of reads; cancel, the turn can be stopped; queue,
\* deferred_deep_queued; asks, interim_replies; cue, the message concerns a
\* milestone; veto, it forbids a task.
Features == {"overseer", "signals", "budget", "cancel", "queue", "asks", "cue", "veto"}
SettingType == [typed : BOOLEAN, mode : {"normal", "held", "released"},
                runner : {"none", "inline", "background"}, on : SUBSET Features]

\* What a plan does, where a deep run of it would land (deep_target, or staged
\* subtasks), and what it says of its answer: deferred_deep; act_declined or a
\* declining shape; asks_first or an asking shape.
Terminal == {"answer", "deep", "confirm", "clarify"}
Actions  == Terminal \cup {"read", "tool"}
Plans ==
    [action : Actions, target : {"none", "quest", "code", "staged", "chat"},
     reply : {"plain", "handoff", "declines", "waits"}]

\* The gates that replace the action of a plan, those that are spent whether
\* they find something or not, and what each takes and gives.
GateNames == {"full text", "pending", "detail", "dated", "past", "web"}
SpentOnce == {"detail", "dated", "past"}
Takes(g) == CASE g = "detail" -> {"answer", "read"}
              [] g \in {"dated", "past"} -> {"answer", "clarify"}
              [] OTHER -> {"answer"}
Gives(g) == IF g = "detail" THEN "tool" ELSE "read"

ASSUME TurnAssumption ==
    /\ \A s \in Settings : s \in SettingType /\ ("veto" \in s.on => s.typed)
    /\ Planned \subseteq Plans
    /\ IsFiniteSet(Calls) /\ "look" \notin Calls
    /\ Gates \subseteq GateNames
    /\ {MaxReads, MaxPending, MaxSignals, MaxRemedies} \subseteq Nat
    /\ MaxSteps \in Nat \ {0} /\ MaxTries \in Nat \ {0, 1}

VARIABLES
    set,       \* the settings of this turn
    pc,        \* where the turn is
    why,       \* what a deep run in progress was started for
    stopped,   \* the person stopped the turn
    turn,      \* what the plan loop leaves behind
    loop,      \* what is only the loop's
    did,       \* what was executed
    end        \* what the close of the turn knows

vars == <<set, pc, why, stopped, turn, loop, did, end>>

\* user_intent; "none" is also a remark.
Intents  == {"none", "ask", "act", "hold"}
NoPlan   == [action |-> "answer", target |-> "none", reply |-> "plain"]

\* consulting: a consult of the overseer is out; owed: records_gate_runs;
\* late: the read budget is exhausted.
NoLoop == [step |-> 0, reads |-> 0, repeats |-> 0, owed |-> 0, opened |-> FALSE,
           spent |-> [g \in Gates |-> 0], consulting |-> FALSE,
           signalled |-> FALSE, late |-> FALSE,
           settled |-> {}, effects |-> [c \in Calls |-> 0]]

On(feature) == feature \in set.on

Init ==
    /\ set \in Settings /\ pc = "step" /\ why = "none" /\ stopped = FALSE
    /\ turn = [intent |-> "none", plan |-> NoPlan, handed |-> 0, empty |-> FALSE,
               latched |-> set.mode = "held" \/ On("veto"), gathered |-> FALSE,
               submitted |-> 0, decided |-> "none", chat |-> FALSE, cued |-> FALSE]
    /\ loop = [NoLoop EXCEPT !.signalled = set.mode = "released"]
    /\ did = [record |-> {}, wrote |-> FALSE, ran |-> FALSE,
              deep |-> FALSE, landed |-> FALSE]
    /\ end = [handedOff |-> FALSE, parked |-> FALSE, unconfirmed |-> FALSE,
              corrected |-> FALSE, unopenable |-> FALSE, own |-> FALSE,
              supported |-> FALSE, declined |-> FALSE, remedies |-> 0, tries |-> 1,
              round |-> FALSE, last |-> "none", text |-> "unjudged",
              said |-> "none", exit |-> "none"]

----------------------------------------------------------------------------
(* Facts of the turn                                                       *)

Capable   == set.runner # "none"
Mutated   == did.record \cap {"success", "failure"} # {}
CanReplan == loop.step < MaxSteps /\ ~loop.late

\* The intent the nets go by: a brief cannot hold off.
NetsIntent == IF turn.intent = "hold" /\ ~set.typed THEN "none" ELSE turn.intent

\* Where an escalation to a deep run goes.
Route(intent) ==
    LET target == turn.plan.target IN
    IF target = "chat" THEN "inline"
    ELSE IF target \in {"code", "staged"} \/ (target # "quest" /\ intent # "act") THEN "deep"
    ELSE IF did.wrote \/ turn.handed > 0 THEN "inline" ELSE "tool"

\* Mutant of SearchUntried: the latch is not looked at.
SearchIgnoresLatch == ~end.own /\ ~did.deep /\ Capable /\ ~Mutated

\* The read-only search is still to be tried, and safe.
SearchUntried == /\ ~end.own /\ ~turn.latched /\ ~did.deep
                 /\ Capable /\ ~Mutated

\* Mutant of CanExecute: what already ran is not looked at.
ExecuteAgain == Capable /\ ~turn.latched /\ end.remedies < MaxRemedies

\* A run the verifier asks for because nothing ran for what the reply claims.
CanExecute == /\ Capable /\ ~turn.latched
              /\ did.record = {} /\ end.remedies < MaxRemedies

----------------------------------------------------------------------------
(* Steps                                                                   *)

Go(step) == pc' = step /\ UNCHANGED <<set, stopped>>

\* finish() sends the text on as it is, or drops, strips or appends to it
\* (private sentences, links, DOIs, the metric, dashes), or has code write
\* another in its place (everything already set; an internal command).  The
\* exit stays what it is, and no verdict follows.
Says(exit) == IF exit = "cancelled" THEN {"none"} ELSE {"as is", "changed"}

Finish(exit) ==
    /\ Go("done")
    /\ \E said \in Says(exit) : end' = [end EXCEPT !.exit = exit, !.said = said]
    /\ why' = "none" /\ loop' = NoLoop /\ UNCHANGED turn

Leave(t) ==
    Go("route") /\ turn' = t /\ loop' = NoLoop /\ UNCHANGED <<why, did, end>>

\* _run_deep: a stopped turn starts none.
StartDeep(w, e) ==
    \/ /\ stopped /\ Go("done") /\ end' = [e EXCEPT !.exit = "cancelled"]
       /\ UNCHANGED <<why, did, turn, loop>>
    \/ /\ ~stopped /\ Go("deep") /\ why' = w /\ end' = e
       /\ did' = [did EXCEPT !.deep = TRUE] /\ UNCHANGED <<turn, loop>>

\* Mutant of Settling: a call whose outcome nobody knows may be repeated.
SettlingWhenKnown == {"applied", "held", "refused"}

\* A call of a tool: it may be settled already; what was refused, held, applied
\* or may have happened is settled.  A no-op counts as applied, and a
\* call turned back for its ids leaves no fact.
Settling == {"applied", "held", "unknown", "refused"}

FactsOf(o) == CASE o = "applied" -> {"success"}
                [] o = "held" -> {"held"}
                [] o \in {"unknown", "failed"} -> {"failure"}
                [] OTHER -> {}

Called(c, o) ==
    [did EXCEPT !.wrote = TRUE, !.ran = TRUE,
                !.record = @ \cup IF c \in loop.settled THEN {} ELSE FactsOf(o)]

AfterCall(c, o) ==
    IF c \in loop.settled THEN loop
    ELSE [loop EXCEPT !.settled = IF o \in Settling THEN @ \cup {c} ELSE @,
                      !.effects[c] = @ + IF o \in {"applied", "held", "unknown"} THEN 1 ELSE 0]

CallOutcomes == {"applied", "held", "unknown", "refused", "failed", "turned"}

----------------------------------------------------------------------------
(* The plan loop                                                           *)

More == loop.step < MaxSteps

\* An information turn plans twice.
ReadEnough == loop.step >= 2 /\ turn.intent = "ask" /\ turn.gathered /\ ~Mutated

LeaveSpent == pc = "step" /\ (~More \/ ReadEnough) /\ Leave(turn)

AtStep == pc = "step" /\ More /\ ~ReadEnough

SeeStop == AtStep /\ stopped /\ Finish("cancelled") /\ UNCHANGED did

\* The step goes on to the planner.  A consult that is out may stay out, or
\* say something that changes no action: a hint, an escalation a latched turn
\* does not follow, one that is routed to a tool or to the reply.
BeginStep ==
    /\ AtStep /\ ~stopped /\ Go("plan")
    /\ \E still \in {FALSE, loop.consulting} :
         loop' = [loop EXCEPT !.step = @ + 1, !.consulting = still]
    /\ UNCHANGED <<why, turn, did, end>>

\* What the overseer said one step ago ends the loop, or takes the step.
OverseerAnswers ==
    /\ AtStep /\ ~stopped /\ loop.consulting
    /\ Leave([turn EXCEPT !.plan.action = "answer", !.decided = "answer"])

OverseerEscalates ==
    /\ AtStep /\ ~stopped /\ loop.consulting
    /\ ~turn.latched /\ Route(turn.intent) = "deep"
    /\ Leave([turn EXCEPT !.plan.action = "deep", !.decided = "deep"])

OverseerAsks ==
    /\ AtStep /\ ~stopped /\ loop.consulting /\ ~turn.latched
    /\ Leave([turn EXCEPT !.plan.action = "confirm", !.decided = "human"])

OverseerSendsBack ==
    /\ AtStep /\ ~stopped /\ loop.consulting
    /\ ~turn.latched /\ Route(turn.intent) = "tool" /\ loop.step + 1 < MaxSteps
    /\ Go("step") /\ turn' = [turn EXCEPT !.handed = @ + 1]
    /\ loop' = [loop EXCEPT !.step = @ + 1, !.consulting = FALSE]
    /\ UNCHANGED <<why, did, end>>

\* Under the latch a plan may neither act nor escalate; a tool that only reads
\* still runs.  Text for the reply is never a deep run.
Gated(p, latched) ==
    IF latched /\ p.action \in {"deep", "confirm", "clarify"}
    THEN {[p EXCEPT !.action = "answer"]}
    ELSE IF latched /\ p.action = "tool" THEN {p, [p EXCEPT !.action = "answer"]}
    ELSE IF p.action = "deep" /\ p.target = "chat" /\ set.typed
    THEN {[p EXCEPT !.action = "answer",
                    !.reply = IF @ = "handoff" THEN "plain" ELSE @]}
    ELSE {p}

\* The planner's intent stands until it reports another; it may engage the
\* latch once, and cannot lift it.
Plan(p, i, enter) ==
    /\ enter => On("signals") /\ ~loop.signalled
    /\ LET latched == turn.latched \/ enter IN
       \E g \in Gated(p, latched) :
         turn' = [turn EXCEPT !.plan = g, !.intent = i, !.latched = latched,
                              !.chat = @ \/ p.target = "chat"]
    /\ loop' = [loop EXCEPT !.signalled = @ \/ enter]

Intent(i) == i = turn.intent \/ i \in Intents \ {"none"}

\* The keyed next step of a milestone is due for an order that changed nothing.
CueIsDue(p, i) == /\ On("cue") /\ ~turn.cued /\ i = "act"
                  /\ p.action # "tool" /\ "success" \notin did.record

PlanStep ==
    /\ pc = "plan" /\ Go("gates")
    /\ \E p \in Planned, i \in Intents, enter \in BOOLEAN :
         Intent(i) /\ ~CueIsDue(p, i) /\ Plan(p, i, enter)
    /\ UNCHANGED <<why, did, end>>

\* The plan is settled to agree with what code wrote.
Settle(p) ==
    IF p.action = "read" \/ (p.action = "deep" /\ p.target \in {"code", "staged"})
    THEN p ELSE [p EXCEPT !.action = "answer",
                          !.reply = IF @ \in {"handoff", "waits"} THEN "plain" ELSE @]

\* Code writes the step of a milestone, or finds a gap in its lane.
CueStep ==
    /\ pc = "plan" /\ Go("gates")
    /\ \E p \in Planned, i \in Intents, enter \in BOOLEAN, fact \in {"success", "failure"} :
         /\ Intent(i) /\ CueIsDue(p, i)
         /\ \E g \in Gated(Settle(p), turn.latched \/ enter) :
              turn' = [turn EXCEPT !.plan = g, !.intent = i, !.cued = TRUE,
                                   !.latched = @ \/ enter, !.gathered = TRUE,
                                   !.chat = @ \/ p.target = "chat"]
         /\ enter => On("signals") /\ ~loop.signalled
         /\ loop' = [loop EXCEPT !.signalled = @ \/ enter]
         /\ did' = [did EXCEPT !.record = @ \cup {fact}, !.wrote = @ \/ fact = "success"]
    /\ UNCHANGED <<why, end>>

\* A deep run that tools may do is handed back once.
HandDeepBack ==
    /\ turn.plan.action = "deep" /\ set.typed /\ turn.handed = 0
    /\ turn.plan.target # "staged" /\ CanReplan

\* An order answered with no change made is handed back, twice in all.
HandAnswerBack ==
    /\ turn.plan.action = "answer" /\ set.typed /\ turn.handed < 2
    /\ turn.intent = "act" /\ ~did.wrote /\ CanReplan
    /\ turn.plan.reply \notin {"handoff", "declines"}

HandBack ==
    /\ pc = "gates" /\ (HandDeepBack \/ HandAnswerBack)
    /\ Go("step") /\ turn' = [turn EXCEPT !.handed = @ + 1]
    /\ UNCHANGED <<why, loop, did, end>>

\* An order whose read shows the thing is confirmed by the keyed write.
EnsureStep ==
    /\ pc = "gates" /\ Go("gates")
    /\ set.typed /\ turn.intent = "act" /\ turn.plan.action = "answer" /\ ~did.wrote
    /\ \E c \in Calls, o \in CallOutcomes : did' = Called(c, o) /\ loop' = AfterCall(c, o)
    /\ turn' = [turn EXCEPT !.gathered = TRUE] /\ UNCHANGED <<why, end>>

\* An answer that rests on records none of which was read is handed back once;
\* the second time code reads those the context names.
OwesRecords == /\ turn.plan.action = "answer" /\ set.typed /\ loop.owed < 2
               /\ ~loop.opened /\ ~did.ran /\ ~did.wrote /\ CanReplan

HandRecordsBack ==
    /\ pc = "gates" /\ ~HandDeepBack /\ ~HandAnswerBack /\ OwesRecords /\ loop.owed = 0
    /\ Go("step") /\ loop' = [loop EXCEPT !.owed = 1]
    /\ UNCHANGED <<why, turn, did, end>>

\* A gate looks at the action the one before it left.
Limit(g) == IF g = "pending" THEN MaxPending ELSE 1
\* Mutant of Reaches: a gate takes one pass too many.
ReachesOnceMore(g, acc) ==
    /\ g \in Gates /\ acc.action \in Takes(g) /\ acc.spent[g] <= Limit(g)
    /\ g = "full text" \/ (CanReplan /\ (set.typed \/ g = "pending"))

Reaches(g, acc) ==
    /\ g \in Gates /\ acc.action \in Takes(g) /\ acc.spent[g] < Limit(g)
    /\ g = "full text" \/ (CanReplan /\ (set.typed \/ g = "pending"))

Pass(finds, acc, g) ==
    IF ~Reaches(g, acc) THEN acc
    ELSE [action |-> IF g \in finds THEN Gives(g) ELSE acc.action,
          spent |-> IF g \in finds \cup SpentOnce
                    THEN [acc.spent EXCEPT ![g] = @ + 1] ELSE acc.spent]

\* The gates in their order.
ThroughGates(finds, a) ==
    LET whole   == Pass(finds, [action |-> a, spent |-> loop.spent], "full text")
        pending == Pass(finds, whole, "pending")
        detail  == Pass(finds, pending, "detail")
        dated   == Pass(finds, detail, "dated")
        past    == Pass(finds, dated, "past")
    IN  Pass(finds, past, "web")

\* Reads in a row end in a deep run, or in an answer under the latch.
Forced(a) == IF a # "read" \/ loop.reads + 1 < MaxReads THEN a
             ELSE IF turn.latched THEN "answer" ELSE "deep"

\* A consult is sent with a read the loop goes on from.
MayConsult(a) ==
    /\ a = "read" /\ On("overseer") /\ ~loop.consulting /\ ~On("cue")
    /\ turn.submitted < MaxSignals
    /\ turn.intent = "ask" => Mutated

PassGates ==
    /\ pc = "gates" /\ ~HandDeepBack /\ ~HandAnswerBack /\ Go("act")
    /\ \E missing \in {FALSE, set.typed}, records \in {FALSE, OwesRecords /\ loop.owed = 1},
          found \in BOOLEAN, finds \in SUBSET Gates, consult \in BOOLEAN :
         LET first == IF missing THEN "answer"
                      ELSE IF records /\ found THEN "read" ELSE turn.plan.action
             g == ThroughGates(finds, first)
             a == Forced(g.action) IN
         /\ missing => ~records
         /\ consult => MayConsult(a)
         /\ turn' = [turn EXCEPT !.plan.action = a, !.submitted = @ + (IF consult THEN 1 ELSE 0),
                                 !.plan.reply = IF missing THEN "declines" ELSE @]
         /\ loop' = [loop EXCEPT !.spent = g.spent, !.consulting = @ \/ consult,
                                 !.owed = IF records THEN 2 ELSE @,
                                 !.reads = IF g.action = "read" THEN @ + 1 ELSE 0]
    /\ UNCHANGED <<why, did, end>>

\* The step is done: the next one, or the budget is exhausted.
Turn(t, l) ==
    \/ /\ ~loop.late /\ Go("step") /\ turn' = t /\ loop' = l
    \/ /\ loop.late /\ Go("route") /\ turn' = t /\ loop' = NoLoop

AfterTool(l) ==
    Turn([turn EXCEPT !.gathered = TRUE], [l EXCEPT !.opened = FALSE, !.repeats = 0])

ToolStep ==
    /\ pc = "act" /\ turn.plan.action = "tool"
    /\ \/ did' = [did EXCEPT !.ran = TRUE] /\ AfterTool(loop)
       \/ /\ ~turn.latched
          /\ \E c \in Calls, o \in CallOutcomes :
               did' = Called(c, o) /\ AfterTool(AfterCall(c, o))
    /\ UNCHANGED <<why, end>>

\* Reads that ran before are not run again; the second such step ends the loop.
RepeatedReads ==
    /\ pc = "act" /\ turn.plan.action = "read"
    /\ IF loop.repeats = 1 THEN Leave(turn)
       ELSE Turn(turn, [loop EXCEPT !.repeats = 1]) /\ UNCHANGED <<why, did, end>>

\* Reads find something, or nothing; those that fail are not on record.
FreshReads ==
    /\ pc = "act" /\ turn.plan.action = "read"
    /\ \E nothing, recorded \in BOOLEAN :
         Turn([turn EXCEPT !.gathered = TRUE, !.empty = nothing],
              [loop EXCEPT !.repeats = 0, !.opened = @ \/ recorded \/ ~nothing])
    /\ UNCHANGED <<why, did, end>>

\* No read is left of the plan, or it is a plan that ends the loop.
LeaveLoop ==
    /\ pc = "act"
    /\ \/ turn.plan.action \in Terminal /\ Leave(turn)
       \/ turn.plan.action = "read" /\ Leave([turn EXCEPT !.plan.action = "answer"])

----------------------------------------------------------------------------
(* The route of the final action                                           *)

\* A turn that ended on its tools answers; a latched one does nothing else.
Final ==
    LET a == turn.plan.action
        b == IF a = "tool" \/ (a = "read" /\ did.ran) THEN "answer" ELSE a IN
    IF turn.latched /\ b \in {"deep", "confirm", "clarify"} THEN "answer" ELSE b

AtRoute(a) == pc = "route" /\ Final = a

\* Reads spent: the request may be one for work.  A brief of the plan and, for
\* want of an intent, a judge say so freely.
MayBeWork == /\ ~turn.latched /\ Route(NetsIntent) = "deep"
IsWork    == MayBeWork /\ (turn.plan.reply = "handoff" \/ NetsIntent = "act")

MaySearchFirst ==
    /\ turn.plan.reply # "waits" /\ turn.empty /\ set.typed
    /\ NetsIntent # "hold" /\ SearchUntried

WrapUp ==
    /\ AtRoute("read") /\ ~IsWork /\ ~MaySearchFirst
    /\ turn.gathered \/ turn.latched
    /\ Finish("read_budget") /\ UNCHANGED did

SearchBeforeWrapUp ==
    AtRoute("read") /\ ~IsWork /\ MaySearchFirst /\ StartDeep("wrap-up", end)

DeepForReads ==
    /\ AtRoute("read") /\ (MayBeWork \/ (~turn.gathered /\ ~turn.latched))
    /\ StartDeep("planned", end)

PlannedDeep == AtRoute("deep") /\ StartDeep("planned", end)

Clarify == AtRoute("clarify") /\ Finish("clarify") /\ UNCHANGED did

Confirm ==
    /\ AtRoute("confirm") /\ UNCHANGED did
    /\ Finish(IF turn.decided = "human" THEN "overseer_escalated_human" ELSE "confirm")

\* What the loop read is not asked for any more.
Draft ==
    /\ AtRoute("answer") /\ Go("check") /\ UNCHANGED <<why, loop, did, end>>
    /\ turn' = [turn EXCEPT !.plan.action = "answer", !.gathered = FALSE, !.empty = FALSE]

----------------------------------------------------------------------------
(* The checkpoint on the draft, and the nets behind it                     *)

\* The draft ships; the overseer may have had it refined.  Its signals, too,
\* are done with.
Checked ==
    /\ pc = "check" /\ Go("nets") /\ UNCHANGED <<why, loop, did, end>>
    /\ turn' = [turn EXCEPT !.submitted = 0, !.cued = FALSE]

MayCheck == /\ pc = "check" /\ On("overseer") /\ ~turn.latched
            /\ turn.submitted < MaxSignals /\ ~turn.cued

CheckEscalates ==
    /\ MayCheck /\ Capable /\ Route(turn.intent) = "deep" /\ StartDeep("checkpoint", end)

CheckAsks == MayCheck /\ Finish("overseer_escalated_human") /\ UNCHANGED did

\* The planner's own hand-off; an order, or a release of the latch, that
\* changed nothing; what the planner, or for want of an intent a judge, says.
HandsOff  == turn.plan.reply = "handoff" /\ Route(turn.intent) = "deep"
NetsAreOn == /\ NetsIntent # "hold" /\ Route(NetsIntent) = "deep"
             /\ Capable \/ On("queue")

\* Mutant of OwesWork: only a release owes the work it ordered.
ReleaseOwesWork == ~Mutated /\ set.mode = "released"

OwesWork == ~Mutated /\ (set.mode = "released" \/ NetsIntent = "act")

MustDefer == HandsOff \/ (NetsAreOn /\ OwesWork)
MayDefer  == HandsOff \/ NetsAreOn

\* Records in conflict with the request decline the act, as the plan does.
Declining == {TRUE} \cup IF turn.plan.reply = "declines" THEN {} ELSE {FALSE}

Defer ==
    /\ pc = "nets" /\ ~turn.latched /\ MayDefer /\ FALSE \in Declining
    /\ StartDeep("deferred", end)

NoDeferral ==
    /\ pc = "nets" /\ Go("close")
    /\ \E declined \in Declining :
         /\ turn.latched \/ declined \/ ~MustDefer
         /\ end' = [end EXCEPT !.declined = declined]
    /\ UNCHANGED <<why, turn, loop, did>>

----------------------------------------------------------------------------
(* Deep runs                                                               *)

\* Started on the orchestrator's own judgement: work in the background that
\* nobody ordered is declined.
OwnRuns == {"checkpoint", "search", "last resort", "wrap-up"}

\* Met, met with a part parked on an approval, all of it parked, not met, an
\* error or no output, nothing started, a receipt of the queue.
DeepOutcomes ==
    IF ~Capable THEN IF why = "deferred" /\ On("queue")
                     THEN {"queued", "empty"} ELSE {"nothing"}
    ELSE IF why \in OwnRuns /\ set.runner = "background" /\ turn.intent # "act"
    THEN {"nothing"}
    ELSE {"met", "mixed", "parked", "unmet", "empty"}
         \cup IF On("queue") THEN {"queued"} ELSE {}

DeepFacts(o) == CASE o \in {"met", "queued"} -> {"success"}
                  [] o = "mixed" -> {"success", "failure"}
                  [] o = "nothing" -> {}
                  [] OTHER -> {"failure"}

\* own_escalation_adds_nothing: with an error, not without.
AddsNothing(o) == CASE o \in {"nothing", "empty"} -> {TRUE}
                    [] o = "unmet" -> BOOLEAN
                    [] OTHER -> {FALSE}

\* What came back of the deferred run.
Deferred(o) ==
    [end EXCEPT !.handedOff = o = "queued",
                !.parked = o \in {"mixed", "parked"},
                !.unconfirmed = o = "unmet"]

\* The run is over for the turn: its result is the reply, or a step follows.
DeepIsReply(adds) == why = "planned" \/ (why \in OwnRuns /\ adds)
ExitOf == IF why = "checkpoint" \/ turn.decided = "deep" THEN "overseer_escalated_deep"
          ELSE IF why = "planned" THEN "deep" ELSE "escalated_deep"

\* Mutant of Follows: the draft is checked again after the run its check asked for.
FollowsWithCheck == [c \in {"checkpoint", "deferred", "repair", "search", "last resort"} |->
    CASE c = "checkpoint" -> "check"
      [] c = "deferred" -> "close"
      [] c = "repair" -> "verify"
      [] c = "search" -> "improve"
      [] c = "last resort" -> "ask"]

Follows == [c \in {"checkpoint", "deferred", "repair", "search", "last resort"} |->
              CASE c = "checkpoint" -> "nets"
                [] c = "deferred" -> "close"
                [] c = "repair" -> "verify"
                [] c = "search" -> "improve"
                [] c = "last resort" -> "ask"]

EndDeep ==
    /\ pc = "deep"
    /\ \E o \in DeepOutcomes :
         /\ did' = [did EXCEPT !.record = @ \cup DeepFacts(o),
                               !.landed = @ \/ o \in {"met", "mixed", "queued"}]
         /\ IF stopped THEN Finish("cancelled")
            ELSE \E nothing \in AddsNothing(o) :
                 IF DeepIsReply(~nothing) THEN Finish(ExitOf)
                 ELSE IF why = "wrap-up" THEN Finish("read_budget")
                 ELSE /\ Go(Follows[why]) /\ why' = "none" /\ UNCHANGED <<turn, loop>>
                      /\ end' = CASE why = "deferred" -> Deferred(o)
                                  [] why = "search" -> [end EXCEPT !.own = TRUE]
                                  [] why = "repair" -> [end EXCEPT !.text = "unjudged"]
                                  [] OTHER -> end

----------------------------------------------------------------------------
(* The goal loop and the end of an answer                                  *)

InfoTurn == turn.intent = "ask" /\ turn.plan.reply = "plain" /\ ~Mutated

\* A request the worker raised itself becomes the ask of the turn.
AdoptAsk ==
    /\ pc = "close" /\ On("asks") /\ ~end.parked /\ (did.ran \/ did.deep)
    /\ Go("end") /\ end' = [end EXCEPT !.parked = TRUE]
    /\ UNCHANGED <<why, turn, loop, did>>

\* Mutant of SkipsVerifier: a parked turn is verified like any other.
VerifiesParked == end.handedOff \/ end.unconfirmed \/ InfoTurn

SkipsVerifier == end.handedOff \/ end.parked \/ end.unconfirmed \/ InfoTurn

CloseAnswer ==
    /\ pc = "close" /\ Go(IF SkipsVerifier THEN "last" ELSE "verify")
    /\ UNCHANGED <<why, turn, loop, did, end>>

\* A verdict, or none, and what the loop does about it, in the code's order.
Verdict(e, step) ==
    /\ pc = "verify" /\ end.tries < MaxTries
    /\ Go(step) /\ end' = e /\ UNCHANGED <<why, turn, loop, did>>

Waits == turn.plan.reply = "waits"
Unmet(last) == [end EXCEPT !.last = last, !.text = "unjudged"]

NoVerdict == Verdict([end EXCEPT !.tries = @ + 1], "verify")

FileAsk ==
    /\ On("asks") /\ ~end.parked
    /\ \E met \in BOOLEAN :
         Verdict([end EXCEPT !.last = IF met THEN "met" ELSE "unmet", !.parked = TRUE,
                             !.text = IF met THEN "met" ELSE "unjudged"], "last")

\* The reply is the one question the turn needs.
AsksPerson ==
    /\ Waits \/ turn.intent # "act"
    /\ Verdict([end EXCEPT !.last = "met", !.text = "question"], "last")

Met == Verdict([end EXCEPT !.last = "met", !.text = "met"], "last")

\* The verdict rests on a source nobody can open, or no page it names opens.
EvidenceOnly == ~Waits /\ Verdict([Unmet("unmet") EXCEPT !.unopenable = TRUE], "last")

Blocked ==
    /\ ~Waits /\ On("asks") /\ ~SearchUntried
    /\ \E filed \in BOOLEAN : Verdict([Unmet("unmet") EXCEPT !.parked = filed], "last")

Repair ==
    /\ pc = "verify" /\ end.tries < MaxTries /\ ~Waits /\ CanExecute
    /\ StartDeep("repair", [Unmet("unmet") EXCEPT !.remedies = @ + 1])

Correct ==
    /\ ~Waits /\ ~CanExecute
    /\ Verdict([Unmet("unmet") EXCEPT !.corrected = TRUE, !.tries = @ + 1], "verify")

\* Pages the verdict names are opened, each once, and the answer rewritten, at
\* no cost of an attempt: the next verdict may always name others.
ReadPages ==
    /\ ~Waits /\ ~turn.latched
    /\ Verdict([Unmet("unmet") EXCEPT !.round = ~@], "verify")

SearchFurther ==
    /\ pc = "verify" /\ end.tries < MaxTries /\ ~Waits
    /\ ~turn.latched /\ ~turn.chat /\ ~end.own /\ Capable
    /\ StartDeep("search", Unmet("unmet"))

\* Claims nothing supports are rewritten once; any other gap is worked on.
AtImprove == pc = "improve" \/ (pc = "verify" /\ end.tries < MaxTries /\ ~Waits)

Improve ==
    /\ AtImprove /\ UNCHANGED <<why, turn, loop, did>>
    /\ \/ /\ end.supported /\ Go("last") /\ end' = Unmet("unsupported")
       \/ /\ ~end.supported /\ Go("verify")
          /\ end' = [Unmet("unsupported") EXCEPT !.supported = TRUE, !.tries = @ + 1]
       \/ /\ Go("verify") /\ end' = [Unmet("unmet") EXCEPT !.tries = @ + 1]

OutOfTries ==
    /\ pc = "verify" /\ end.tries = MaxTries /\ Go("last")
    /\ UNCHANGED <<why, turn, loop, did, end>>

MaySearchLast ==
    /\ ~turn.chat /\ ~end.handedOff /\ ~end.parked /\ ~end.unconfirmed
    /\ ~end.corrected /\ ~end.unopenable /\ end.last = "unmet" /\ SearchUntried

SearchLast == pc = "last" /\ MaySearchLast /\ StartDeep("last resort", end)

GiveUp ==
    /\ pc = "last" /\ ~MaySearchLast /\ Go("end")
    /\ UNCHANGED <<why, turn, loop, did, end>>

\* What the search could not find only the person can give.
AskLast ==
    /\ pc = "ask" /\ Go("end")
    /\ \E filed \in {FALSE, On("asks")} : end' = [end EXCEPT !.parked = filed]
    /\ UNCHANGED <<why, turn, loop, did>>

\* Mutant of Exit: an answer nobody found fault with counts as verified.
ExitUnlessUnmet ==
    IF end.handedOff THEN "deferred"
    ELSE IF end.parked THEN "parked"
    ELSE IF end.last # "unmet" THEN "verified" ELSE "max_turns"

Exit ==
    IF end.handedOff THEN "deferred"
    ELSE IF end.parked THEN "parked"
    ELSE IF end.last = "met" THEN "verified"
    ELSE IF end.last # "none" THEN "max_turns"
    ELSE IF turn.decided = "answer" THEN "overseer_answer_now" ELSE "unverified"

FinishAnswer == pc = "end" /\ Finish(Exit) /\ UNCHANGED did

----------------------------------------------------------------------------

\* The person stops the turn; the time for reads runs out.
Stop ==
    /\ On("cancel") /\ pc # "done" /\ ~stopped /\ stopped' = TRUE
    /\ UNCHANGED <<set, pc, why, turn, loop, did, end>>

SpendBudget ==
    /\ On("budget") /\ pc \in {"step", "plan", "gates", "act"} /\ ~loop.late
    /\ loop' = [loop EXCEPT !.late = TRUE]
    /\ UNCHANGED <<set, pc, why, stopped, turn, did, end>>

LoopStep ==
    \/ LeaveSpent \/ SeeStop \/ BeginStep
    \/ OverseerAnswers \/ OverseerEscalates \/ OverseerAsks \/ OverseerSendsBack
    \/ PlanStep \/ CueStep \/ HandBack \/ EnsureStep \/ HandRecordsBack \/ PassGates
    \/ ToolStep \/ RepeatedReads \/ FreshReads \/ LeaveLoop

RouteStep ==
    \/ WrapUp \/ SearchBeforeWrapUp \/ DeepForReads \/ PlannedDeep
    \/ Clarify \/ Confirm \/ Draft \/ Checked \/ CheckEscalates \/ CheckAsks
    \/ Defer \/ NoDeferral \/ EndDeep

CloseStep ==
    \/ AdoptAsk \/ CloseAnswer \/ NoVerdict \/ FileAsk \/ AsksPerson \/ Met
    \/ EvidenceOnly \/ Blocked \/ Repair \/ Correct \/ ReadPages
    \/ SearchFurther \/ Improve \/ OutOfTries \/ SearchLast \/ GiveUp \/ AskLast
    \/ FinishAnswer

Step == LoopStep \/ RouteStep \/ CloseStep

Next == Step \/ Stop \/ SpendBudget

\* Only a turn that is done has no next step.
Spec == Init /\ [][Next]_vars /\ WF_vars(Step)

----------------------------------------------------------------------------
(* Properties                                                              *)

Exits == {"none", "cancelled", "read_budget", "clarify", "confirm", "deep",
          "overseer_escalated_human", "overseer_escalated_deep", "escalated_deep",
          "deferred", "parked", "verified", "max_turns", "overseer_answer_now",
          "unverified"}

\* Every variable has its type, the counters their bounds.
TypeOK ==
    /\ set \in Settings /\ stopped \in BOOLEAN
    /\ pc \in {"step", "plan", "gates", "act", "route", "check", "nets", "deep",
               "close", "verify", "improve", "last", "ask", "end", "done"}
    /\ why \in {"none", "planned"} \cup OwnRuns \cup {"deferred", "repair"}
    /\ (why = "none") = (pc # "deep")
    /\ turn.plan \in Plans /\ turn.intent \in Intents /\ turn.handed \in 0..3
    /\ turn.submitted \in 0..MaxSignals /\ loop.step \in 0..MaxSteps
    /\ loop.reads \in {1} \cup 0..MaxReads /\ \A g \in Gates : loop.spent[g] \in 0..Limit(g)
    /\ did.record \subseteq {"success", "failure", "held"} /\ loop.settled \subseteq Calls
    /\ end.remedies \in 0..MaxRemedies /\ end.tries \in 1..MaxTries
    /\ end.exit \in Exits /\ end.said \in {"none", "as is", "changed"}

\* A call whose effect may have happened, applied, held for approval or with an
\* outcome nobody knows, is not made a second time in the turn, whoever plans
\* it again: the planner, or the step that confirms an order
\* (tool_ok_signatures in run_tool_calls).  "failed" is taken to mean that it
\* did not happen, as the code takes it, also of an exception nobody typed.
CallTakesEffectOnce == \A c \in Calls : loop.effects[c] <= 1

\* A turn that says "verified" ends with the text the verifier judged met, or
\* with the question the turn needed: no draft, repair or rewrite the verifier
\* did not see, no text of an attempt whose verifier failed (exit reason in
\* _run_verify_answer).  It is the text as finish() gets it, not the one the
\* person reads: what finish() edits or replaces (end.said) stays "verified".
VerifiedTextWasJudged ==
    end.exit = "verified" => end.text \in {"met", "question"}

AnswerExits == {"read_budget", "max_turns", "verified", "unverified", "overseer_answer_now"}

\* An order that a deep run would be accepted for does not end as words: when
\* the turn ends as an answer, something was attempted, or the act declined
\* (the wrap-up of spent reads and the nets behind the answer).
OrderIsPursued ==
    /\ pc = "done" /\ end.exit \in AnswerExits /\ NetsIntent = "act"
    /\ Capable /\ ~turn.latched /\ ~end.declined /\ Route("act") = "deep"
    => did.deep \/ Mutated

StartsDeep == pc # "deep" /\ pc' = "deep"

\* What landed is not done again: after a change no run starts to make good a
\* claim or as a last resort, and after a deep run that landed only the
\* search the verifier asks for (any_success in the claim check, search_untried).
ChangeIsNotRedone ==
    [][StartsDeep => /\ "success" \in did.record =>
                          why' \notin {"repair", "last resort", "wrap-up"}
                     /\ did.landed => why' = "search"]_vars

\* A turn whose work was handed to the queue, is parked on an approval, or was
\* reported unconfirmed starts no further run: nothing is queued twice, no
\* parked change is made behind the person's back
\* (the gates of the goal loop and of the last resort).
EndingStands ==
    [][end.handedOff \/ end.parked \/ end.unconfirmed => ~StartsDeep]_vars

\* No path starts a deep run in a turn that is latched, also by its own
\* message or by a signal in its middle, or in one the person stopped.
HeldTurnStartsNoDeepRun == [][StartsDeep => ~turn.latched /\ ~stopped]_vars

\* Every turn ends, although a repaired reply is verified again without using
\* up an attempt, unless its verifier asks for pages without end: each verdict
\* names new ones that open, and nothing in the goal loop bounds these rounds.
TurnEnds == <>(pc = "done") \/ []<><<ReadPages>>_vars

\* "a latched turn executes nothing and creates no decision-request": no
\* change, no write held for approval, no ask.
LatchedTurnExecutesNothing ==
    [][turn.latched => did'.record = did.record /\ end'.parked = end.parked]_vars
=============================================================================
