--------------------------- MODULE TurnRun_proofs ---------------------------
(* Theorems about one turn of the orchestrator, for any settings, plans,   *)
(* tool calls and limits.                                                  *)
EXTENDS TurnRun, TLAPS

----------------------------------------------------------------------------
(* The records of the turn, field by field.                                *)

TurnType ==
    [intent : Intents, plan : Plans, handed : 0..3, empty : BOOLEAN, latched : BOOLEAN,
     gathered : BOOLEAN, submitted : 0..MaxSignals,
     decided : {"none", "answer", "deep", "human"}, chat : BOOLEAN, cued : BOOLEAN]

SpentType == {f \in [Gates -> Nat] : \A g \in Gates : f[g] <= Limit(g)}

LoopType ==
    [step : 0..MaxSteps, reads : {1} \cup 0..MaxReads, repeats : {0, 1}, owed : 0..2,
     opened : BOOLEAN, spent : SpentType, consulting : BOOLEAN, signalled : BOOLEAN,
     late : BOOLEAN, settled : SUBSET Calls, effects : [Calls -> Nat]]

DidType ==
    [record : SUBSET {"success", "failure", "held"}, wrote : BOOLEAN, ran : BOOLEAN,
     deep : BOOLEAN, landed : BOOLEAN]

EndType ==
    [handedOff : BOOLEAN, parked : BOOLEAN, unconfirmed : BOOLEAN, corrected : BOOLEAN,
     unopenable : BOOLEAN, own : BOOLEAN, supported : BOOLEAN, declined : BOOLEAN,
     remedies : 0..MaxRemedies, tries : 1..MaxTries, round : BOOLEAN,
     last : {"none", "met", "unmet", "unsupported"},
     text : {"unjudged", "met", "question"},
     said : {"none", "as is", "changed"}, exit : Exits]

Places == {"step", "plan", "gates", "act", "route", "check", "nets", "deep", "close",
           "verify", "improve", "last", "ask", "end", "done"}

\* A read that goes on is not the last the turn may make in a row; an attempt
\* that searches is not the last.
Room ==
    /\ loop.reads < MaxReads \/ loop.reads = 0
       \/ (pc = "act" /\ turn.plan.action \in Terminal)
    /\ pc = "improve" \/ why = "search" => end.tries < MaxTries

Shape ==
    /\ set \in Settings /\ stopped \in BOOLEAN
    /\ pc \in Places
    /\ why \in {"none", "planned"} \cup OwnRuns \cup {"deferred", "repair"}
    /\ (why = "none") = (pc # "deep")
    /\ turn \in TurnType
    /\ loop \in LoopType
    /\ did \in DidType
    /\ end \in EndType
    /\ Room

LEMMA Counters ==
    ASSUME NEW e \in EndType PROVE e.tries \in 1..MaxTries /\ e.remedies \in 0..MaxRemedies
    BY DEF EndType

LEMMA MoreOf == ASSUME NEW n \in Nat, NEW m \in 0..n, m < n PROVE m + 1 \in 0..n
    OBVIOUS

LEMMA ShapeGivesTypes == Shape => TypeOK
<1> SUFFICES ASSUME Shape PROVE TypeOK
    OBVIOUS
<1>1. end.exit \in Exits /\ end.said \in {"none", "as is", "changed"}
    BY DEF Shape, EndType
<1>2. end.tries \in 1..MaxTries /\ end.remedies \in 0..MaxRemedies
    BY Counters DEF Shape
<1>3. did.record \subseteq {"success", "failure", "held"}
    BY DEF Shape, DidType
<1>4. /\ loop.step \in 0..MaxSteps /\ loop.reads \in {1} \cup 0..MaxReads
      /\ loop.settled \subseteq Calls /\ \A g \in Gates : loop.spent[g] \in 0..Limit(g)
    BY DEF Shape, LoopType, SpentType
<1>5. /\ turn.plan \in Plans /\ turn.intent \in Intents /\ turn.handed \in 0..3
      /\ turn.submitted \in 0..MaxSignals
    BY DEF Shape, TurnType
<1> QED
    BY <1>1, <1>2, <1>3, <1>4, <1>5 DEF Shape, TypeOK, Places

LEMMA Limits == \A g \in GateNames : Limit(g) \in Nat
    BY TurnAssumption DEF Limit, GateNames

LEMMA SettingsTyped == ASSUME NEW s \in Settings PROVE s \in SettingType
    BY TurnAssumption

LEMMA NoLoopTyped == NoLoop \in LoopType /\ NoLoop.reads = 0
<1>1. [g \in Gates |-> 0] \in SpentType
    BY TurnAssumption, Limits DEF SpentType
<1>2. [c \in Calls |-> 0] \in [Calls -> Nat]
    OBVIOUS
<1> QED
    BY <1>1, <1>2, TurnAssumption DEF NoLoop, LoopType

LEMMA ShapeInitial == Init => Shape
<1> SUFFICES ASSUME Init PROVE Shape
    OBVIOUS
<1>1. set \in SettingType
    BY SettingsTyped DEF Init
<1>2. NoPlan \in Plans
    BY DEF NoPlan, Plans, Actions, Terminal
<1>3. turn \in TurnType
    BY <1>1, <1>2, TurnAssumption DEF Init, TurnType, Intents, On, SettingType
<1>4. loop \in LoopType /\ loop.reads = 0
    BY <1>1, NoLoopTyped DEF Init, LoopType, SettingType, NoLoop
<1>5. did \in DidType
    BY DEF Init, DidType
<1>6. end \in EndType
    BY TurnAssumption DEF Init, EndType, Exits
<1> QED
    BY <1>3, <1>4, <1>5, <1>6 DEF Init, Shape, Room, Places

----------------------------------------------------------------------------
(* Ways to the next step that many actions share.                          *)

LEMMA LeaveKeeps ==
    ASSUME Shape, NEW t \in TurnType, Leave(t), pc # "deep" PROVE Shape'
    BY NoLoopTyped DEF Shape, Room, Leave, Go, Places

LEMMA FinishKeeps ==
    ASSUME Shape, NEW x \in Exits, Finish(x), did' \in DidType PROVE Shape'
<1>1. \A said \in Says(x) : [end EXCEPT !.exit = x, !.said = said] \in EndType
    BY DEF Shape, EndType, Says
<1> QED
    BY <1>1, NoLoopTyped DEF Shape, Room, Finish, Go, Places

Reasons == {"planned", "deferred", "repair"} \cup OwnRuns

LEMMA StartKeeps ==
    ASSUME Shape, pc # "deep", NEW w \in Reasons, NEW e \in EndType, StartDeep(w, e),
           w = "search" => e.tries < MaxTries, loop.reads < MaxReads \/ loop.reads = 0
    PROVE  Shape'
<1>1. [e EXCEPT !.exit = "cancelled"] \in EndType
    BY DEF EndType, Exits
<1>2. [did EXCEPT !.deep = TRUE] \in DidType
    BY DEF Shape, DidType
<1> QED
    BY <1>1, <1>2 DEF Shape, Room, StartDeep, Go, Places, Reasons, OwnRuns

LEMMA OutcomeTyped ==
    ASSUME Shape, NEW c \in Calls, NEW o \in CallOutcomes
    PROVE  /\ Called(c, o) \in DidType /\ AfterCall(c, o) \in LoopType
           /\ AfterCall(c, o).reads = loop.reads
<1>1. FactsOf(o) \in SUBSET {"success", "failure", "held"}
    BY DEF FactsOf, CallOutcomes
<1>2. Called(c, o) \in DidType
    BY <1>1 DEF Shape, DidType, Called
<1>3. AfterCall(c, o) \in LoopType /\ AfterCall(c, o).reads = loop.reads
    <2>1. CASE c \in loop.settled
        BY <2>1 DEF Shape, AfterCall
    <2>2. CASE c \notin loop.settled
        <3> DEFINE s == IF o \in Settling THEN loop.settled \cup {c} ELSE loop.settled
                   n == loop.effects[c] + IF o \in {"applied", "held", "unknown"} THEN 1 ELSE 0
                   f == [loop.effects EXCEPT ![c] = n]
        <3>1. s \in SUBSET Calls
            BY DEF Shape, LoopType
        <3>2. f \in [Calls -> Nat]
            BY DEF Shape, LoopType
        <3>3. AfterCall(c, o) = [loop EXCEPT !.settled = s, !.effects = f]
            BY <2>2 DEF Shape, LoopType, AfterCall
        <3> QED
            BY <3>1, <3>2, <3>3 DEF Shape, LoopType
    <2> QED
        BY <2>1, <2>2
<1> QED
    BY <1>2, <1>3

----------------------------------------------------------------------------
(* The plan loop keeps the types.                                          *)

LEMMA OverseerKeeps ==
    ASSUME Shape, OverseerAnswers \/ OverseerEscalates \/ OverseerAsks \/ OverseerSendsBack
    PROVE  Shape'
<1> DEFINE T(a, d) == [turn EXCEPT !.plan.action = a, !.decided = d]
<1>1. \A a \in Terminal, d \in {"answer", "deep", "human"} : T(a, d) \in TurnType
    BY DEF Shape, TurnType, Plans, Actions
<1>2. CASE OverseerAnswers
    BY <1>1, <1>2, LeaveKeeps DEF OverseerAnswers, AtStep, Terminal
<1>3. CASE OverseerEscalates
    BY <1>1, <1>3, LeaveKeeps DEF OverseerEscalates, AtStep, Terminal
<1>4. CASE OverseerAsks
    BY <1>1, <1>4, LeaveKeeps DEF OverseerAsks, AtStep, Terminal
<1>5. CASE OverseerSendsBack
    <2>1. turn.handed = 0
        BY <1>5 DEF Shape, TurnType, OverseerSendsBack, Route
    <2>2. [turn EXCEPT !.handed = @ + 1] \in TurnType
        BY <2>1 DEF Shape, TurnType
    <2>3. loop.step + 1 \in 0..MaxSteps
        BY <1>5, TurnAssumption DEF Shape, LoopType, OverseerSendsBack
    <2>4. [loop EXCEPT !.step = @ + 1, !.consulting = FALSE] \in LoopType
        BY <2>3 DEF Shape, LoopType
    <2> QED
        BY <1>5, <2>2, <2>4
        DEF Shape, Room, OverseerSendsBack, AtStep, Go, Places, LoopType, OwnRuns
<1> QED
    BY <1>2, <1>3, <1>4, <1>5

LEMMA GatedTyped ==
    ASSUME NEW p \in Plans, NEW latched \in BOOLEAN, NEW g \in Gated(p, latched)
    PROVE  g \in Plans
    BY DEF Gated, Plans, Actions, Terminal

LEMMA SettleTyped == ASSUME NEW p \in Plans PROVE Settle(p) \in Plans
    BY DEF Settle, Plans, Actions, Terminal

LEMMA PlanningKeeps == ASSUME Shape, PlanStep \/ CueStep PROVE Shape'
<1>0. Planned \subseteq Plans
    BY TurnAssumption
<1>1. CASE PlanStep
    <2>1. PICK p \in Planned, i \in Intents, enter \in BOOLEAN : Plan(p, i, enter)
        BY <1>1 DEF PlanStep
    <2>2. PICK g \in Gated(p, turn.latched \/ enter) :
              turn' = [turn EXCEPT !.plan = g, !.intent = i, !.latched = turn.latched \/ enter,
                                   !.chat = @ \/ p.target = "chat"]
        BY <2>1 DEF Plan
    <2>3. g \in Plans
        BY <1>0, GatedTyped DEF Shape, TurnType
    <2>4. turn' \in TurnType
        BY <2>2, <2>3 DEF Shape, TurnType
    <2>5. loop' \in LoopType /\ loop'.reads = loop.reads
        BY <2>1 DEF Plan, Shape, LoopType
    <2> QED
        BY <1>1, <2>4, <2>5 DEF Shape, Room, PlanStep, Go, Places
<1>2. CASE CueStep
    <2>1. PICK p \in Planned, i \in Intents, enter \in BOOLEAN,
               fact \in {"success", "failure"} :
            /\ Intent(i) /\ CueIsDue(p, i)
            /\ \E g \in Gated(Settle(p), turn.latched \/ enter) :
                 turn' = [turn EXCEPT !.plan = g, !.intent = i, !.cued = TRUE,
                                      !.latched = @ \/ enter, !.gathered = TRUE,
                                      !.chat = @ \/ p.target = "chat"]
            /\ enter => On("signals") /\ ~loop.signalled
            /\ loop' = [loop EXCEPT !.signalled = @ \/ enter]
            /\ did' = [did EXCEPT !.record = @ \cup {fact}, !.wrote = @ \/ fact = "success"]
        BY <1>2, Zenon DEF CueStep
    <2>2. PICK g \in Gated(Settle(p), turn.latched \/ enter) :
                 turn' = [turn EXCEPT !.plan = g, !.intent = i, !.cued = TRUE,
                                      !.latched = @ \/ enter, !.gathered = TRUE,
                                      !.chat = @ \/ p.target = "chat"]
        BY <2>1
    <2>3. g \in Plans
        BY <1>0, GatedTyped, SettleTyped DEF Shape, TurnType
    <2>4. turn' \in TurnType
        BY <2>2, <2>3 DEF Shape, TurnType
    <2>5. loop' \in LoopType /\ loop'.reads = loop.reads
        BY <2>1 DEF Shape, LoopType
    <2>6. did' \in DidType
        BY <2>1 DEF Shape, DidType
    <2> QED
        BY <1>2, <2>4, <2>5, <2>6 DEF Shape, Room, CueStep, Go, Places
<1> QED
    BY <1>1, <1>2

LEMMA HandingKeeps ==
    ASSUME Shape, HandBack \/ HandRecordsBack \/ EnsureStep PROVE Shape'
<1>1. CASE HandBack
    <2>1. turn.handed < 2
        BY <1>1 DEF Shape, TurnType, HandBack, HandDeepBack, HandAnswerBack
    <2>2. [turn EXCEPT !.handed = @ + 1] \in TurnType
        BY <2>1 DEF Shape, TurnType
    <2> QED
        BY <1>1, <2>2 DEF Shape, Room, HandBack, Go, Places
<1>2. CASE HandRecordsBack
    <2>1. [loop EXCEPT !.owed = 1] \in LoopType
        BY DEF Shape, LoopType
    <2> QED
        BY <1>2, <2>1 DEF Shape, Room, HandRecordsBack, Go, Places, LoopType
<1>3. CASE EnsureStep
    <2>1. PICK c \in Calls, o \in CallOutcomes : did' = Called(c, o) /\ loop' = AfterCall(c, o)
        BY <1>3 DEF EnsureStep
    <2>2. [turn EXCEPT !.gathered = TRUE] \in TurnType
        BY DEF Shape, TurnType
    <2> QED
        BY <1>3, <2>1, <2>2, OutcomeTyped DEF Shape, Room, EnsureStep, Go, Places
<1> QED
    BY <1>1, <1>2, <1>3

\* A gate gives an action and never spends more than its limit.
Acc == [action : Actions, spent : SpentType]

LEMMA PassKeeps ==
    ASSUME NEW finds, NEW acc \in Acc, NEW g \in GateNames PROVE Pass(finds, acc, g) \in Acc
<1>1. CASE ~Reaches(g, acc)
    BY <1>1 DEF Pass
<1>2. CASE Reaches(g, acc)
    <2>1. g \in Gates /\ acc.spent[g] < Limit(g)
        BY <1>2 DEF Reaches
    <2>2. [acc.spent EXCEPT ![g] = @ + 1] \in SpentType
        BY <2>1, TurnAssumption, Limits DEF Acc, SpentType
    <2> QED
        BY <1>2, <2>2 DEF Pass, Acc, Gives, Actions
<1> QED
    BY <1>1, <1>2

LEMMA GatesKeep ==
    ASSUME Shape, NEW finds, NEW a \in Actions PROVE ThroughGates(finds, a) \in Acc
<1> DEFINE whole   == Pass(finds, [action |-> a, spent |-> loop.spent], "full text")
           pending == Pass(finds, whole, "pending")
           detail  == Pass(finds, pending, "detail")
           dated   == Pass(finds, detail, "dated")
           past    == Pass(finds, dated, "past")
<1>1. whole \in Acc
    BY PassKeeps DEF Shape, LoopType, Acc, GateNames
<1> HIDE DEF whole
<1>2. pending \in Acc
    BY <1>1, PassKeeps DEF GateNames
<1> HIDE DEF pending
<1>3. detail \in Acc
    BY <1>2, PassKeeps DEF GateNames
<1> HIDE DEF detail
<1>4. dated \in Acc
    BY <1>3, PassKeeps DEF GateNames
<1> HIDE DEF dated
<1>5. past \in Acc
    BY <1>4, PassKeeps DEF GateNames
<1> HIDE DEF past
<1>6. Pass(finds, past, "web") \in Acc
    BY <1>5, PassKeeps DEF GateNames
<1> QED
    BY <1>6 DEF ThroughGates, whole, pending, detail, dated, past

LEMMA PassGatesKeeps == ASSUME Shape, PassGates PROVE Shape'
<1>1. PICK missing \in {FALSE, set.typed}, records \in {FALSE, OwesRecords /\ loop.owed = 1},
           found \in BOOLEAN, finds \in SUBSET Gates, consult \in BOOLEAN :
         LET first == IF missing THEN "answer"
                      ELSE IF records /\ found THEN "read" ELSE turn.plan.action
             g == ThroughGates(finds, first)
             a == Forced(g.action) IN
         /\ missing => ~records
         /\ consult => MayConsult(a)
         /\ turn' = [turn EXCEPT !.plan.action = a, !.submitted = @ + (IF consult THEN 1 ELSE 0),
                                 !.plan.reply = IF missing THEN "declines" ELSE @]
         /\ loop' = [loop EXCEPT !.spent = g.spent, !.consulting = @ \/ consult,
                                 !.owed = IF records THEN 2 ELSE @,
                                 !.reads = IF g.action = "read" THEN @ + 1 ELSE 0]
    BY Zenon DEF PassGates
<1> DEFINE first == IF missing THEN "answer"
                    ELSE IF records /\ found THEN "read" ELSE turn.plan.action
           g == ThroughGates(finds, first)
           a == Forced(g.action)
<1>2. first \in Actions
    BY DEF Shape, TurnType, Plans, Actions, Terminal
<1>3. g \in Acc
    BY <1>2, GatesKeep
<1> HIDE DEF g
<1>4. a \in Actions /\ (a \in Terminal \/ a = g.action)
      /\ (g.action = "read" => a \in Terminal \/ loop.reads + 1 < MaxReads)
    BY <1>3 DEF Forced, Acc, Actions, Terminal
<1> HIDE DEF a, first
<1>5. turn' = [turn EXCEPT !.plan.action = a, !.submitted = @ + (IF consult THEN 1 ELSE 0),
                           !.plan.reply = IF missing THEN "declines" ELSE @]
    BY <1>1 DEF a, g, first
<1>6. loop' = [loop EXCEPT !.spent = g.spent, !.consulting = @ \/ consult,
                           !.owed = IF records THEN 2 ELSE @,
                           !.reads = IF g.action = "read" THEN @ + 1 ELSE 0]
    BY <1>1 DEF a, g, first
<1>7. consult => turn.submitted < MaxSignals
    BY <1>1 DEF MayConsult, a, g, first
<1>8. turn.submitted + (IF consult THEN 1 ELSE 0) \in 0..MaxSignals
    BY <1>7, TurnAssumption DEF Shape, TurnType
<1>9. turn' \in TurnType /\ turn'.plan.action = a
    BY <1>4, <1>5, <1>8 DEF Shape, TurnType, Plans
<1>10. loop.reads < MaxReads \/ loop.reads = 0
    BY DEF Shape, Room, PassGates
<1>11. (IF g.action = "read" THEN loop.reads + 1 ELSE 0) \in {1} \cup 0..MaxReads
    BY <1>10, TurnAssumption DEF Shape, LoopType
<1>12. loop' \in LoopType
    <2> DEFINE n == IF g.action = "read" THEN loop.reads + 1 ELSE 0
               out == loop.consulting \/ consult
               owed == IF records THEN 2 ELSE loop.owed
    <2>1. out \in BOOLEAN /\ owed \in 0..2 /\ g.spent \in SpentType
        BY <1>3 DEF Acc, Shape, LoopType
    <2>2. n \in {1} \cup 0..MaxReads
        BY <1>11
    <2>3. loop' = [loop EXCEPT !.spent = g.spent, !.consulting = out, !.owed = owed,
                               !.reads = n]
        BY <1>6
    <2> HIDE DEF n, out, owed
    <2> QED
        BY <2>1, <2>2, <2>3 DEF Shape, LoopType
<1>13. loop'.reads < MaxReads \/ loop'.reads = 0 \/ a \in Terminal
    BY <1>4, <1>6, <1>12 DEF LoopType, Shape
<1> QED
    BY <1>9, <1>12, <1>13 DEF Shape, Room, PassGates, Go, Places

LEMMA TurnKeeps ==
    ASSUME Shape, NEW t \in TurnType, NEW l \in LoopType, Turn(t, l), pc = "act",
           l.reads = loop.reads, turn.plan.action \notin Terminal,
           did' \in DidType, why' = why, end' = end
    PROVE  Shape'
    BY NoLoopTyped DEF Shape, Room, Turn, Go, Places

LEMMA ActingKeeps ==
    ASSUME Shape, ToolStep \/ RepeatedReads \/ FreshReads \/ LeaveLoop PROVE Shape'
<1>1. CASE ToolStep
    <2>1. [turn EXCEPT !.gathered = TRUE] \in TurnType
        BY DEF Shape, TurnType
    <2>2. ASSUME NEW l \in LoopType, l.reads = loop.reads, AfterTool(l), did' \in DidType
          PROVE  Shape'
        <3>1. [l EXCEPT !.opened = FALSE, !.repeats = 0] \in LoopType
              /\ [l EXCEPT !.opened = FALSE, !.repeats = 0].reads = loop.reads
            BY <2>2 DEF LoopType
        <3> QED
            BY <1>1, <2>1, <2>2, <3>1, TurnKeeps DEF ToolStep, AfterTool, Terminal
    <2>3. CASE did' = [did EXCEPT !.ran = TRUE] /\ AfterTool(loop)
        <3>1. did' \in DidType
            BY <2>3 DEF Shape, DidType
        <3> QED
            BY <2>2, <2>3, <3>1 DEF Shape
    <2>4. CASE \E c \in Calls, o \in CallOutcomes :
                  did' = Called(c, o) /\ AfterTool(AfterCall(c, o))
        BY <2>2, <2>4, OutcomeTyped
    <2> QED
        BY <1>1, <2>3, <2>4 DEF ToolStep
<1>2. CASE RepeatedReads
    <2>1. CASE loop.repeats = 1
        BY <1>2, <2>1, LeaveKeeps DEF RepeatedReads, Shape
    <2>2. CASE loop.repeats # 1
        <3>1. [loop EXCEPT !.repeats = 1] \in LoopType
              /\ [loop EXCEPT !.repeats = 1].reads = loop.reads
            BY DEF Shape, LoopType
        <3> QED
            BY <1>2, <2>2, <3>1, TurnKeeps DEF RepeatedReads, Shape, Terminal
    <2> QED
        BY <2>1, <2>2
<1>3. CASE FreshReads
    <2>1. PICK nothing \in BOOLEAN, recorded \in BOOLEAN :
               Turn([turn EXCEPT !.gathered = TRUE, !.empty = nothing],
                    [loop EXCEPT !.repeats = 0, !.opened = @ \/ recorded \/ ~nothing])
        BY <1>3, Zenon DEF FreshReads
    <2> DEFINE t == [turn EXCEPT !.gathered = TRUE, !.empty = nothing]
               l == [loop EXCEPT !.repeats = 0, !.opened = @ \/ recorded \/ ~nothing]
    <2>2. t \in TurnType
        BY DEF Shape, TurnType
    <2>3. l \in LoopType /\ l.reads = loop.reads
        BY DEF Shape, LoopType
    <2>4. Turn(t, l)
        BY <2>1
    <2> HIDE DEF t, l
    <2> QED
        BY <1>3, <2>2, <2>3, <2>4, TurnKeeps DEF FreshReads, Shape, Terminal
<1>4. CASE LeaveLoop
    <2>1. [turn EXCEPT !.plan.action = "answer"] \in TurnType
        BY DEF Shape, TurnType, Plans, Actions, Terminal
    <2> QED
        BY <1>4, <2>1, LeaveKeeps DEF LeaveLoop, Shape
<1> QED
    BY <1>1, <1>2, <1>3, <1>4

LEMMA LoopKeeps == ASSUME Shape, LoopStep PROVE Shape'
<1>1. CASE LeaveSpent
    BY <1>1, LeaveKeeps DEF LeaveSpent, Shape
<1>2. CASE SeeStop
    BY <1>2, FinishKeeps DEF SeeStop, Shape, Exits
<1>3. CASE BeginStep
    <2>1. PICK still \in {FALSE, loop.consulting} :
              loop' = [loop EXCEPT !.step = @ + 1, !.consulting = still]
        BY <1>3 DEF BeginStep
    <2>2. still \in BOOLEAN
        BY DEF Shape, LoopType
    <2>3. loop.step + 1 \in 0..MaxSteps
        BY <1>3, TurnAssumption DEF Shape, LoopType, BeginStep, AtStep, More
    <2>4. loop' \in LoopType /\ loop'.reads = loop.reads
        BY <2>1, <2>2, <2>3 DEF Shape, LoopType
    <2> QED
        BY <1>3, <2>4 DEF Shape, Room, BeginStep, AtStep, Go, Places
<1> QED
    BY <1>1, <1>2, <1>3, OverseerKeeps, PlanningKeeps, HandingKeeps, PassGatesKeeps,
       ActingKeeps DEF LoopStep

----------------------------------------------------------------------------
(* The route, the deep runs and the close keep the types.                  *)

LEMMA RouteKeeps ==
    ASSUME Shape,
           \/ WrapUp \/ SearchBeforeWrapUp \/ DeepForReads \/ PlannedDeep
           \/ Clarify \/ Confirm \/ Draft
    PROVE  Shape'
<1>0. loop.reads < MaxReads \/ loop.reads = 0 \/ pc = "act"
    BY DEF Shape, Room
<1>1. CASE WrapUp
    BY <1>1, FinishKeeps DEF WrapUp, Shape, Exits
<1>2. CASE SearchBeforeWrapUp
    BY <1>0, <1>2, StartKeeps DEF SearchBeforeWrapUp, AtRoute, Shape, Reasons, OwnRuns
<1>3. CASE DeepForReads
    BY <1>0, <1>3, StartKeeps DEF DeepForReads, AtRoute, Shape, Reasons, OwnRuns
<1>4. CASE PlannedDeep
    BY <1>0, <1>4, StartKeeps DEF PlannedDeep, AtRoute, Shape, Reasons, OwnRuns
<1>5. CASE Clarify
    BY <1>5, FinishKeeps DEF Clarify, Shape, Exits
<1>6. CASE Confirm
    BY <1>6, FinishKeeps DEF Confirm, Shape, Exits
<1>7. CASE Draft
    <2>1. turn' \in TurnType
        BY <1>7 DEF Draft, Shape, TurnType, Plans, Actions, Terminal
    <2> QED
        BY <1>7, <2>1 DEF Draft, AtRoute, Go, Shape, Room, Places
<1> QED
    BY <1>1, <1>2, <1>3, <1>4, <1>5, <1>6, <1>7

LEMMA NetsKeep ==
    ASSUME Shape,
           Checked \/ CheckEscalates \/ CheckAsks \/ Defer \/ NoDeferral
    PROVE  Shape'
<1>0. loop.reads < MaxReads \/ loop.reads = 0 \/ pc = "act"
    BY DEF Shape, Room
<1>1. CASE Checked
    <2>1. turn' \in TurnType
        <3>1. 0 \in 0..MaxSignals
            BY TurnAssumption
        <3> QED
            BY <1>1, <3>1 DEF Checked, Shape, TurnType
    <2> QED
        BY <1>1, <2>1 DEF Checked, Go, Shape, Room, Places
<1>2. CASE CheckEscalates
    BY <1>0, <1>2, StartKeeps DEF CheckEscalates, MayCheck, Shape, Reasons, OwnRuns
<1>3. CASE CheckAsks
    BY <1>3, FinishKeeps DEF CheckAsks, Shape, Exits
<1>4. CASE Defer
    BY <1>0, <1>4, StartKeeps DEF Defer, Shape, Reasons, OwnRuns
<1>5. CASE NoDeferral
    <2>1. PICK declined \in Declining : end' = [end EXCEPT !.declined = declined]
        BY <1>5 DEF NoDeferral
    <2>2. declined \in BOOLEAN
        BY DEF Declining
    <2>3. end' \in EndType
        BY <2>1, <2>2 DEF Shape, EndType
    <2> QED
        BY <1>5, <2>3 DEF NoDeferral, Go, Shape, Room, Places
<1> QED
    BY <1>1, <1>2, <1>3, <1>4, <1>5

LEMMA EndDeepKeeps == ASSUME Shape, EndDeep PROVE Shape'
<1>1. PICK o \in DeepOutcomes :
         /\ did' = [did EXCEPT !.record = @ \cup DeepFacts(o),
                               !.landed = @ \/ o \in {"met", "mixed", "queued"}]
         /\ IF stopped THEN Finish("cancelled")
            ELSE \E nothing \in AddsNothing(o) :
                 IF DeepIsReply(~nothing) THEN Finish(ExitOf)
                 ELSE IF why = "wrap-up" THEN Finish("read_budget")
                 ELSE /\ Go(Follows[why]) /\ why' = "none" /\ UNCHANGED <<turn, loop>>
                      /\ end' = CASE why = "deferred" -> Deferred(o)
                                  [] why = "search" -> [end EXCEPT !.own = TRUE]
                                  [] why = "repair" -> [end EXCEPT !.text = "unjudged"]
                                  [] OTHER -> end
    BY Zenon DEF EndDeep
<1>2. did' \in DidType
    <2>1. DeepFacts(o) \in SUBSET {"success", "failure", "held"}
        BY DEF DeepFacts
    <2> DEFINE facts == did.record \cup DeepFacts(o)
               landed == did.landed \/ o \in {"met", "mixed", "queued"}
    <2>2. did' = [did EXCEPT !.record = facts, !.landed = landed]
        BY <1>1
    <2>3. facts \in SUBSET {"success", "failure", "held"} /\ landed \in BOOLEAN
        BY <2>1 DEF Shape, DidType
    <2> HIDE DEF facts, landed
    <2> QED
        BY <2>2, <2>3 DEF Shape, DidType
<1>3. ExitOf \in Exits /\ "cancelled" \in Exits /\ "read_budget" \in Exits
    BY DEF ExitOf, Exits
<1>4. CASE \E x \in Exits : Finish(x)
    BY <1>2, <1>4, FinishKeeps
<1>5. CASE /\ Go(Follows[why]) /\ why' = "none" /\ UNCHANGED <<turn, loop>>
           /\ why \notin {"planned", "wrap-up"}
           /\ end' = CASE why = "deferred" -> Deferred(o)
                       [] why = "search" -> [end EXCEPT !.own = TRUE]
                       [] why = "repair" -> [end EXCEPT !.text = "unjudged"]
                       [] OTHER -> end
    <2>1. pc = "deep" /\ (loop.reads < MaxReads \/ loop.reads = 0)
        BY DEF EndDeep, Shape, Room
    <2>2. why \in {"checkpoint", "deferred", "repair", "search", "last resort"}
        BY <1>5, <2>1 DEF Shape, OwnRuns
    <2>3. pc' \in Places \ {"deep"} /\ (pc' = "improve" => why = "search")
        BY <1>5, <2>2 DEF Go, Follows, Places
    <2>4. Deferred(o) \in EndType
        <3> DEFINE h == o = "queued"
                   p == o \in {"mixed", "parked"}
                   u == o = "unmet"
        <3>1. Deferred(o) = [end EXCEPT !.handedOff = h, !.parked = p, !.unconfirmed = u]
              /\ h \in BOOLEAN /\ p \in BOOLEAN /\ u \in BOOLEAN
            BY DEF Deferred
        <3> HIDE DEF h, p, u
        <3> QED
            BY <3>1 DEF Shape, EndType
    <2>5. end' \in EndType /\ (why = "search" => end'.tries = end.tries)
        BY <1>5, <2>4 DEF Shape, EndType
    <2> QED
        BY <1>2, <1>5, <2>1, <2>3, <2>5 DEF Shape, Room, Go
<1>6. \/ \E x \in Exits : Finish(x)
      \/ /\ Go(Follows[why]) /\ why' = "none" /\ UNCHANGED <<turn, loop>>
         /\ why \notin {"planned", "wrap-up"}
         /\ end' = CASE why = "deferred" -> Deferred(o)
                     [] why = "search" -> [end EXCEPT !.own = TRUE]
                     [] why = "repair" -> [end EXCEPT !.text = "unjudged"]
                     [] OTHER -> end
    BY <1>1, <1>3, Zenon DEF DeepIsReply
<1> QED
    BY <1>4, <1>5, <1>6

LEMMA VerdictKeeps ==
    ASSUME Shape, NEW e \in EndType, NEW x \in {"verify", "last"}, Verdict(e, x)
    PROVE  Shape'
    BY DEF Verdict, Go, Shape, Room, Places

LEMMA UnmetTyped ==
    ASSUME Shape, NEW l \in {"unmet", "unsupported"}
    PROVE  /\ Unmet(l) \in EndType
           /\ \A f \in {"remedies", "tries", "own", "supported"} : Unmet(l)[f] = end[f]
    BY DEF Shape, EndType, Unmet

LEMMA MoreTries ==
    ASSUME Shape, end.tries < MaxTries PROVE end.tries + 1 \in 1..MaxTries
<1>1. end.tries \in 1..MaxTries /\ MaxTries \in Nat
    BY Counters, TurnAssumption DEF Shape
<1> QED
    BY <1>1

LEMMA VerdictsKeep ==
    ASSUME Shape,
           \/ NoVerdict \/ FileAsk \/ AsksPerson \/ Met \/ EvidenceOnly \/ Blocked
           \/ Correct \/ ReadPages
    PROVE  Shape'
<1>0. end \in EndType
    BY DEF Shape
<1>1. CASE NoVerdict
    <2>1. [end EXCEPT !.tries = @ + 1] \in EndType
        BY <1>1, MoreTries DEF NoVerdict, Verdict, Shape, EndType
    <2> QED
        BY <1>1, <2>1, VerdictKeeps DEF NoVerdict
<1>2. CASE FileAsk
    <2>1. PICK met \in BOOLEAN :
             Verdict([end EXCEPT !.last = IF met THEN "met" ELSE "unmet", !.parked = TRUE,
                                 !.text = IF met THEN "met" ELSE "unjudged"], "last")
        BY <1>2 DEF FileAsk
    <2>2. [end EXCEPT !.last = IF met THEN "met" ELSE "unmet", !.parked = TRUE,
                      !.text = IF met THEN "met" ELSE "unjudged"] \in EndType
        BY <1>0 DEF EndType
    <2> QED
        BY <2>1, <2>2, VerdictKeeps
<1>3. CASE AsksPerson
    <2>1. [end EXCEPT !.last = "met", !.text = "question"] \in EndType
        BY <1>0 DEF EndType
    <2> QED
        BY <1>3, <2>1, VerdictKeeps DEF AsksPerson
<1>4. CASE Met
    <2>1. [end EXCEPT !.last = "met", !.text = "met"] \in EndType
        BY <1>0 DEF EndType
    <2> QED
        BY <1>4, <2>1, VerdictKeeps DEF Met
<1>5. CASE EvidenceOnly
    <2>1. [Unmet("unmet") EXCEPT !.unopenable = TRUE] \in EndType
        BY UnmetTyped DEF EndType
    <2> QED
        BY <1>5, <2>1, VerdictKeeps DEF EvidenceOnly
<1>6. CASE Blocked
    <2>1. \A filed \in BOOLEAN : [Unmet("unmet") EXCEPT !.parked = filed] \in EndType
        BY UnmetTyped DEF EndType
    <2> QED
        BY <1>6, <2>1, VerdictKeeps DEF Blocked
<1>7. CASE Correct
    <2>1. [Unmet("unmet") EXCEPT !.corrected = TRUE, !.tries = @ + 1] \in EndType
        BY <1>7, UnmetTyped, MoreTries DEF Correct, Verdict, EndType
    <2> QED
        BY <1>7, <2>1, VerdictKeeps DEF Correct
<1>8. CASE ReadPages
    <2>1. [Unmet("unmet") EXCEPT !.round = ~@] \in EndType
        BY UnmetTyped DEF EndType
    <2> QED
        BY <1>8, <2>1, VerdictKeeps DEF ReadPages
<1> QED
    BY <1>1, <1>2, <1>3, <1>4, <1>5, <1>6, <1>7, <1>8

LEMMA CloseKeeps == ASSUME Shape, CloseStep PROVE Shape'
<1>0. loop.reads < MaxReads \/ loop.reads = 0 \/ pc = "act"
    BY DEF Shape, Room
<1>1. CASE AdoptAsk
    <2>1. end' \in EndType
        BY <1>1 DEF AdoptAsk, Shape, EndType
    <2> QED
        BY <1>1, <2>1 DEF AdoptAsk, Go, Shape, Room, Places
<1>2. CASE CloseAnswer \/ OutOfTries \/ GiveUp
    BY <1>2 DEF CloseAnswer, OutOfTries, GiveUp, Go, Shape, Room, Places
<1>3. CASE Repair
    <2> DEFINE e == [Unmet("unmet") EXCEPT !.remedies = @ + 1]
    <2>1. end.remedies + 1 \in 0..MaxRemedies
        BY <1>3, Counters, MoreOf, TurnAssumption DEF Repair, CanExecute, Shape
    <2>2. e \in EndType
        BY <2>1, UnmetTyped DEF EndType
    <2>3. StartDeep("repair", e) /\ pc = "verify"
        BY <1>3 DEF Repair
    <2> HIDE DEF e
    <2> QED
        BY <1>0, <2>2, <2>3, StartKeeps DEF Reasons
<1>4. CASE SearchFurther
    <2>1. Unmet("unmet") \in EndType /\ Unmet("unmet").tries = end.tries
        BY UnmetTyped
    <2> QED
        BY <1>0, <1>4, <2>1, StartKeeps DEF SearchFurther, Reasons, OwnRuns
<1>5. CASE Improve
    <2>1. end.tries < MaxTries
        BY <1>5 DEF Improve, AtImprove, Shape, Room
    <2>2. end' \in EndType
        <3>1. /\ Unmet("unsupported") \in EndType
              /\ [Unmet("unsupported") EXCEPT !.supported = TRUE, !.tries = @ + 1] \in EndType
              /\ [Unmet("unmet") EXCEPT !.tries = @ + 1] \in EndType
            BY <2>1, MoreTries, UnmetTyped DEF EndType
        <3> QED
            BY <1>5, <3>1 DEF Improve
    <2>3. pc' \in {"last", "verify"} /\ pc # "deep" /\ UNCHANGED <<set, stopped>>
        BY <1>5 DEF Improve, AtImprove, Go
    <2> QED
        BY <1>0, <1>5, <2>2, <2>3 DEF Improve, AtImprove, Shape, Room, Places
<1>6. CASE SearchLast
    BY <1>0, <1>6, StartKeeps DEF SearchLast, Shape, Reasons, OwnRuns
<1>7. CASE AskLast
    <2>1. PICK filed \in {FALSE, On("asks")} : end' = [end EXCEPT !.parked = filed]
        BY <1>7 DEF AskLast
    <2>2. filed \in BOOLEAN
        <3>1. On("asks") = TRUE \/ On("asks") = FALSE
            BY DEF On
        <3> QED
            BY <3>1
    <2>3. end' \in EndType
        BY <2>1, <2>2 DEF Shape, EndType
    <2> QED
        BY <1>7, <2>3 DEF AskLast, Go, Shape, Room, Places
<1>8. CASE FinishAnswer
    <2>1. Exit \in Exits
        BY DEF Exit, Exits
    <2> QED
        BY <1>8, <2>1, FinishKeeps DEF FinishAnswer, Shape
<1> QED
    BY <1>1, <1>2, <1>3, <1>4, <1>5, <1>6, <1>7, <1>8, VerdictsKeep DEF CloseStep

LEMMA ShapePreserved == Shape /\ [Next]_vars => Shape'
<1> SUFFICES ASSUME Shape, [Next]_vars PROVE Shape'
    OBVIOUS
<1>1. CASE UNCHANGED vars
    BY <1>1 DEF vars, Shape, Room
<1>2. CASE Stop
    BY <1>2 DEF Stop, Shape, Room
<1>3. CASE SpendBudget
    <2>1. loop' \in LoopType /\ loop'.reads = loop.reads
        BY <1>3 DEF SpendBudget, Shape, LoopType
    <2> QED
        BY <1>3, <2>1 DEF SpendBudget, Shape, Room
<1> QED
    BY <1>1, <1>2, <1>3, LoopKeeps, RouteKeeps, NetsKeep, EndDeepKeeps, CloseKeeps
    DEF Next, Step, RouteStep

\* The turn is well typed, and its counters stay within their bounds: steps,
\* reads in a row, gates, signals, remedies and attempts.
THEOREM TypeCorrect == Spec => []TypeOK
    BY ShapeInitial, ShapePreserved, ShapeGivesTypes, PTL DEF Spec

----------------------------------------------------------------------------
(* Calls take effect once: what took effect is settled.                    *)

EffectsInv ==
    \A c \in Calls : loop.effects[c] <= 1 /\ (loop.effects[c] # 0 => c \in loop.settled)

\* What a step does to the calls of the turn: nothing, one call, or the loop
\* is over.
CallsAfter(l) ==
    \/ l.effects = loop.effects /\ l.settled = loop.settled
    \/ \E c \in Calls, o \in CallOutcomes :
           l.effects = AfterCall(c, o).effects /\ l.settled = AfterCall(c, o).settled

LEMMA CallsStep ==
    ASSUME Shape, [Next]_vars PROVE loop' = NoLoop \/ CallsAfter(loop')
<1>0. loop \in LoopType
    BY DEF Shape
<1>1. CASE UNCHANGED loop
    BY <1>1 DEF CallsAfter
<1>2. CASE LeaveSpent \/ OverseerAnswers \/ OverseerEscalates \/ OverseerAsks \/ LeaveLoop
    BY <1>2 DEF LeaveSpent, OverseerAnswers, OverseerEscalates, OverseerAsks, LeaveLoop, Leave
<1>3. CASE BeginStep \/ OverseerSendsBack
    BY <1>0, <1>3 DEF BeginStep, OverseerSendsBack, LoopType, CallsAfter
<1>4. CASE PlanStep
    BY <1>0, <1>4 DEF PlanStep, Plan, LoopType, CallsAfter
<1>5. CASE CueStep
    BY <1>0, <1>5 DEF CueStep, LoopType, CallsAfter
<1>6. CASE HandRecordsBack \/ SpendBudget
    BY <1>0, <1>6 DEF HandRecordsBack, SpendBudget, LoopType, CallsAfter
<1>7. CASE EnsureStep
    BY <1>7 DEF EnsureStep, CallsAfter
<1>8. CASE PassGates
    BY <1>0, <1>8 DEF PassGates, LoopType, CallsAfter
<1>9. CASE ToolStep
    <2>1. ASSUME NEW l \in LoopType, AfterTool(l)
          PROVE  loop' = NoLoop \/ (loop'.effects = l.effects /\ loop'.settled = l.settled)
        BY <2>1 DEF AfterTool, Turn, LoopType
    <2>2. CASE AfterTool(loop)
        BY <1>0, <2>1, <2>2 DEF CallsAfter
    <2>3. CASE \E c \in Calls, o \in CallOutcomes : AfterTool(AfterCall(c, o))
        BY <2>1, <2>3, OutcomeTyped DEF CallsAfter
    <2> QED
        BY <1>9, <2>2, <2>3 DEF ToolStep
<1>10. CASE RepeatedReads \/ FreshReads
    BY <1>0, <1>10 DEF RepeatedReads, FreshReads, Leave, Turn, LoopType, CallsAfter
<1>11. CASE EndDeep
    BY <1>1, <1>11 DEF EndDeep, Finish
<1>12. CASE SeeStop \/ HandBack
    BY <1>1, <1>12 DEF SeeStop, HandBack, Finish
<1>13. CASE RouteStep /\ ~EndDeep
    BY <1>1, <1>13
    DEF RouteStep, WrapUp, SearchBeforeWrapUp, DeepForReads, PlannedDeep, Clarify, Confirm,
        Draft, Checked, CheckEscalates, CheckAsks, Defer, NoDeferral, StartDeep, Finish
<1>14. CASE CloseStep
    BY <1>1, <1>14
    DEF CloseStep, AdoptAsk, CloseAnswer, NoVerdict, FileAsk, AsksPerson, Met, EvidenceOnly,
        Blocked, Repair, Correct, ReadPages, SearchFurther, Improve, OutOfTries, SearchLast,
        GiveUp, AskLast, FinishAnswer, Verdict, StartDeep, Finish
<1> QED
    BY <1>1, <1>2, <1>3, <1>4, <1>5, <1>6, <1>7, <1>8, <1>9, <1>10, <1>11, <1>12, <1>13,
       <1>14 DEF Next, Step, LoopStep, Stop, vars

LEMMA EffectsPreserved == Shape /\ EffectsInv /\ [Next]_vars => EffectsInv'
<1> SUFFICES ASSUME Shape, EffectsInv, [Next]_vars PROVE EffectsInv'
    OBVIOUS
<1>0. loop \in LoopType
    BY DEF Shape
<1>1. CASE loop' = NoLoop
    BY <1>1 DEF EffectsInv, NoLoop
<1>2. CASE loop'.effects = loop.effects /\ loop'.settled = loop.settled
    BY <1>2 DEF EffectsInv
<1>3. ASSUME NEW c \in Calls, NEW o \in CallOutcomes,
             loop'.effects = AfterCall(c, o).effects, loop'.settled = AfterCall(c, o).settled
      PROVE  EffectsInv'
    <2>1. CASE c \in loop.settled
        BY <1>3, <2>1 DEF AfterCall, EffectsInv
    <2>2. CASE c \notin loop.settled
        <3>1. loop.effects[c] = 0
            BY <2>2 DEF EffectsInv
        <3>2. /\ loop'.settled = IF o \in Settling THEN loop.settled \cup {c} ELSE loop.settled
              /\ loop'.effects =
                    [loop.effects EXCEPT ![c] = loop.effects[c] +
                         IF o \in {"applied", "held", "unknown"} THEN 1 ELSE 0]
            BY <1>0, <1>3, <2>2 DEF AfterCall, LoopType
        <3>3. loop.effects \in [Calls -> Nat]
            BY <1>0 DEF LoopType
        <3> QED
            BY <3>1, <3>2, <3>3 DEF EffectsInv, Settling
    <2> QED
        BY <2>1, <2>2
<1> QED
    BY <1>1, <1>2, <1>3, CallsStep DEF CallsAfter

\* However often a call is planned again, or made by code to confirm an order,
\* an effect that may have happened is not brought about a second time.
THEOREM EffectOnce == Spec => []CallTakesEffectOnce
<1>1. Init => EffectsInv
    BY DEF Init, EffectsInv, NoLoop
<1>2. EffectsInv => CallTakesEffectOnce
    BY DEF EffectsInv, CallTakesEffectOnce
<1> QED
    BY <1>1, <1>2, ShapeInitial, ShapePreserved, EffectsPreserved, PTL DEF Spec

----------------------------------------------------------------------------
(* Who starts a deep run.                                                  *)

\* What holds where a deep run is started, for each of its reasons.
Started ==
    /\ ~turn.latched /\ ~stopped
    /\ \/ pc = "route" /\ why' = "planned"
       \/ pc = "route" /\ why' = "wrap-up" /\ ~Mutated
       \/ pc = "check" /\ why' = "checkpoint"
       \/ pc = "nets" /\ why' = "deferred"
       \/ pc = "verify" /\ why' = "repair" /\ did.record = {}
       \/ pc = "verify" /\ why' = "search"
       \/ /\ pc = "last" /\ why' = "last resort" /\ ~Mutated
          /\ ~end.handedOff /\ ~end.parked /\ ~end.unconfirmed

LEMMA WhoStarts == ASSUME [Next]_vars, StartsDeep PROVE Started
<1>0. pc # "deep" /\ pc' = "deep"
    BY DEF StartsDeep
<1>1. CASE LoopStep
    BY <1>0, <1>1
    DEF LoopStep, LeaveSpent, SeeStop, BeginStep, OverseerAnswers, OverseerEscalates,
        OverseerAsks, OverseerSendsBack, PlanStep, CueStep, HandBack, EnsureStep,
        HandRecordsBack, PassGates, ToolStep, AfterTool, RepeatedReads, FreshReads, LeaveLoop,
        Leave, Finish, Turn, Go
<1>2. CASE SearchBeforeWrapUp \/ DeepForReads \/ PlannedDeep
    BY <1>0, <1>2
    DEF SearchBeforeWrapUp, DeepForReads, PlannedDeep, StartDeep, Go, Started, AtRoute, Final,
        MayBeWork, MaySearchFirst, SearchUntried
<1>3. CASE CheckEscalates \/ Defer
    BY <1>0, <1>3 DEF CheckEscalates, MayCheck, Defer, StartDeep, Go, Started
<1>4. CASE WrapUp \/ Clarify \/ Confirm \/ Draft \/ Checked \/ CheckAsks \/ NoDeferral
    BY <1>0, <1>4
    DEF WrapUp, Clarify, Confirm, Draft, Checked, CheckAsks, NoDeferral, Finish, Go
<1>5. CASE EndDeep
    BY <1>0, <1>5 DEF EndDeep
<1>6. CASE Repair \/ SearchFurther \/ SearchLast
    BY <1>0, <1>6
    DEF Repair, SearchFurther, SearchLast, StartDeep, Go, Started, CanExecute, MaySearchLast,
        SearchUntried
<1>7. CASE CloseStep /\ ~Repair /\ ~SearchFurther /\ ~SearchLast
    BY <1>0, <1>7
    DEF CloseStep, AdoptAsk, CloseAnswer, NoVerdict, FileAsk, AsksPerson, Met, EvidenceOnly,
        Blocked, Correct, ReadPages, Improve, OutOfTries, GiveUp, AskLast, FinishAnswer,
        Verdict, Finish, Go
<1>8. CASE Stop \/ SpendBudget \/ UNCHANGED vars
    BY <1>0, <1>8 DEF Stop, SpendBudget, vars
<1> QED
    BY <1>1, <1>2, <1>3, <1>4, <1>5, <1>6, <1>7, <1>8 DEF Next, Step, RouteStep

\* A turn held by its conversation, by its own message or by a signal in its
\* middle starts no deep run on any of the eight ways to one, nor does a turn
\* that the person stopped.
THEOREM HeldTurnRests == Spec => HeldTurnStartsNoDeepRun
<1>1. [Next]_vars => [StartsDeep => ~turn.latched /\ ~stopped]_vars
    BY WhoStarts DEF Started
<1> QED
    BY <1>1, PTL DEF Spec, HeldTurnStartsNoDeepRun

----------------------------------------------------------------------------
(* Where the flags of the close, a change that landed and a verdict may    *)
(* stand.                                                                  *)

Handed == end.handedOff \/ end.parked \/ end.unconfirmed

\* A flag of the close keeps the turn from the verifier and from deep runs.
FlagsInv == Handed => pc \in {"close", "last", "end", "done"}

\* A deep run that landed goes on only behind the nets.
LandedInv ==
    did.landed => /\ "success" \in did.record
                  /\ \/ pc \in {"close", "verify", "improve", "last", "ask", "end", "done"}
                     \/ pc = "deep" /\ why = "search"

LEMMA LoopPlaces == LoopStep => pc \in {"step", "plan", "gates", "act"}
    BY DEF LoopStep, LeaveSpent, SeeStop, BeginStep, OverseerAnswers, OverseerEscalates,
           OverseerAsks, OverseerSendsBack, PlanStep, CueStep, HandBack, EnsureStep, AtStep,
           HandRecordsBack, PassGates, ToolStep, RepeatedReads, FreshReads, LeaveLoop

LEMMA FlagsPreserved == Shape /\ FlagsInv /\ [Next]_vars => FlagsInv'
<1> SUFFICES ASSUME Shape, FlagsInv, [Next]_vars PROVE FlagsInv'
    OBVIOUS
<1>0. end \in EndType
    BY DEF Shape
<1> DEFINE Same == /\ end'.handedOff = end.handedOff /\ end'.parked = end.parked
                   /\ end'.unconfirmed = end.unconfirmed
<1>1. CASE Same /\ (pc' = pc \/ pc' \in {"close", "last", "end", "done"})
    BY <1>1 DEF FlagsInv, Handed
<1>2. CASE Same /\ ~Handed
    BY <1>2 DEF FlagsInv, Handed
<1>3. CASE pc' \in {"close", "last", "end", "done"}
    BY <1>3 DEF FlagsInv
<1>4. CASE LoopStep
    <2>1. pc \in {"step", "plan", "gates", "act"}
        BY <1>4, LoopPlaces
    <2>2. pc' = "done" \/ UNCHANGED end
        BY <1>4
        DEF LoopStep, LeaveSpent, SeeStop, BeginStep, OverseerAnswers, OverseerEscalates,
            OverseerAsks, OverseerSendsBack, PlanStep, CueStep, HandBack, EnsureStep,
            HandRecordsBack, PassGates, ToolStep, AfterTool, RepeatedReads, FreshReads,
            LeaveLoop, Leave, Finish, Turn, Go
    <2> QED
        BY <1>2, <1>3, <2>1, <2>2 DEF FlagsInv
<1>5. CASE SearchBeforeWrapUp \/ DeepForReads \/ PlannedDeep \/ CheckEscalates \/ Defer
           \/ SearchLast
    <2>1. \E w \in Reasons : StartDeep(w, end)
        BY <1>5
        DEF SearchBeforeWrapUp, DeepForReads, PlannedDeep, CheckEscalates, Defer, SearchLast,
            Reasons, OwnRuns
    <2>2. pc' = "done" \/ (UNCHANGED end /\ pc' = "deep")
        BY <2>1 DEF StartDeep, Go
    <2>3. ~Handed
        BY <1>5
        DEF SearchBeforeWrapUp, DeepForReads, PlannedDeep, CheckEscalates, MayCheck, Defer,
            SearchLast, MaySearchLast, AtRoute, FlagsInv, Handed
    <2> QED
        BY <1>2, <1>3, <2>2, <2>3
<1>6. CASE WrapUp \/ Clarify \/ Confirm \/ Draft \/ Checked \/ CheckAsks \/ NoDeferral
    BY <1>0, <1>1, <1>2, <1>3, <1>6
    DEF WrapUp, Clarify, Confirm, Draft, Checked, CheckAsks, NoDeferral, Finish, Go, AtRoute,
        FlagsInv
<1>7. CASE EndDeep
    <2>1. pc = "deep" /\ ~Handed
        BY <1>7 DEF EndDeep, FlagsInv
    <2>2. \/ pc' = "done"
          \/ pc' = Follows[why] /\ why \in {"deferred", "search", "repair"}
          \/ UNCHANGED end
        BY <1>7 DEF EndDeep, Finish, Go
    <2>3. CASE pc' = Follows[why] /\ why = "deferred"
        BY <1>3, <2>3 DEF Follows
    <2>4. CASE why \in {"search", "repair"} /\ pc' # "done"
        BY <1>0, <1>2, <1>7, <2>1, <2>4 DEF EndDeep, Finish, Go, EndType
    <2> QED
        BY <1>2, <1>3, <2>1, <2>2, <2>3, <2>4
<1>8. CASE CloseAnswer
    BY <1>0, <1>2, <1>3, <1>8 DEF CloseAnswer, Go, SkipsVerifier, Handed
<1>9. CASE Repair \/ SearchFurther
    <2>1. ~Handed
        BY <1>9 DEF Repair, SearchFurther, FlagsInv
    <2>2. Same \/ pc' = "done"
        BY <1>0, <1>9 DEF Repair, SearchFurther, StartDeep, Unmet, Go, EndType
    <2> QED
        BY <1>2, <1>3, <2>1, <2>2
<1>10. CASE NoVerdict \/ Correct \/ ReadPages \/ Improve
    <2>1. ~Handed
        BY <1>10 DEF NoVerdict, Correct, ReadPages, Improve, AtImprove, Verdict, FlagsInv
    <2>2. Same
        BY <1>0, <1>10 DEF NoVerdict, Correct, ReadPages, Improve, Verdict, Unmet, EndType
    <2> QED
        BY <1>2, <2>1, <2>2
<1>11. CASE AdoptAsk \/ FileAsk \/ AsksPerson \/ Met \/ EvidenceOnly \/ Blocked \/ OutOfTries
            \/ GiveUp \/ AskLast \/ FinishAnswer
    BY <1>3, <1>11
    DEF AdoptAsk, FileAsk, AsksPerson, Met, EvidenceOnly, Blocked, OutOfTries, GiveUp, AskLast,
        FinishAnswer, Verdict, Finish, Go
<1>12. CASE Stop \/ SpendBudget \/ UNCHANGED vars
    BY <1>1, <1>12 DEF Stop, SpendBudget, vars
<1> QED
    BY <1>4, <1>5, <1>6, <1>7, <1>8, <1>9, <1>10, <1>11, <1>12
    DEF Next, Step, RouteStep, CloseStep

LEMMA LandedPreserved == Shape /\ LandedInv /\ [Next]_vars => LandedInv'
<1> SUFFICES ASSUME Shape, LandedInv, [Next]_vars PROVE LandedInv'
    OBVIOUS
<1>0. did \in DidType
    BY DEF Shape
<1> DEFINE Late == {"close", "verify", "improve", "last", "ask", "end", "done"}
<1>1. CASE LoopStep
    <2>1. pc \in {"step", "plan", "gates", "act"}
        BY <1>1, LoopPlaces
    <2>2. CASE EnsureStep \/ ToolStep
        <3>1. \/ \E c \in Calls, o \in CallOutcomes : did' = Called(c, o)
              \/ did' = [did EXCEPT !.ran = TRUE]
            BY <2>2 DEF EnsureStep, ToolStep
        <3>2. did'.landed = did.landed
            BY <1>0, <3>1 DEF Called, DidType
        <3> QED
            BY <2>1, <3>2 DEF LandedInv
    <2>3. CASE CueStep
        <3>1. did'.landed = did.landed
            BY <1>0, <2>3 DEF CueStep, DidType
        <3> QED
            BY <2>1, <3>1 DEF LandedInv
    <2>4. CASE ~EnsureStep /\ ~ToolStep /\ ~CueStep
        <3>1. UNCHANGED did
            BY <1>1, <2>4
            DEF LoopStep, LeaveSpent, SeeStop, BeginStep, OverseerAnswers, OverseerEscalates,
                OverseerAsks, OverseerSendsBack, PlanStep, HandBack, HandRecordsBack,
                PassGates, RepeatedReads, FreshReads, LeaveLoop, Leave
        <3> QED
            BY <2>1, <3>1 DEF LandedInv
    <2> QED
        BY <2>2, <2>3, <2>4
<1>2. CASE StartsDeep
    <2>1. Started
        BY <1>2, WhoStarts
    <2>2. did' = [did EXCEPT !.deep = TRUE]
        BY <1>2
        DEF StartsDeep, Next, Step, LoopStep, RouteStep, CloseStep, LeaveSpent, SeeStop,
            BeginStep, OverseerAnswers, OverseerEscalates, OverseerAsks, OverseerSendsBack,
            PlanStep, CueStep, HandBack, EnsureStep, HandRecordsBack, PassGates, ToolStep,
            AfterTool, RepeatedReads, FreshReads, LeaveLoop, Leave, Turn, WrapUp,
            SearchBeforeWrapUp, DeepForReads, PlannedDeep, Clarify, Confirm, Draft, Checked,
            CheckEscalates, CheckAsks, Defer, NoDeferral, EndDeep, AdoptAsk, CloseAnswer,
            NoVerdict, FileAsk, AsksPerson, Met, EvidenceOnly, Blocked, Repair, Correct,
            ReadPages, SearchFurther, Improve, OutOfTries, SearchLast, GiveUp, AskLast,
            FinishAnswer, Verdict, Finish, StartDeep, Go, Stop, SpendBudget, vars
    <2>3. did'.landed = did.landed /\ did'.record = did.record
        BY <1>0, <2>2 DEF DidType
    <2>4. did.landed => why' = "search"
        BY <2>1 DEF Started, LandedInv, Mutated
    <2> QED
        BY <1>2, <2>3, <2>4 DEF StartsDeep, LandedInv
<1>3. CASE RouteStep /\ ~EndDeep /\ ~StartsDeep
    <2>1. UNCHANGED did /\ pc \in {"route", "check", "nets"}
        BY <1>3
        DEF RouteStep, WrapUp, SearchBeforeWrapUp, DeepForReads, PlannedDeep, Clarify, Confirm,
            Draft, Checked, CheckEscalates, MayCheck, CheckAsks, Defer, NoDeferral, StartDeep,
            Finish, Go, AtRoute, StartsDeep
    <2> QED
        BY <2>1 DEF LandedInv
<1>4. CASE EndDeep
    <2>1. PICK o \in DeepOutcomes :
             /\ did' = [did EXCEPT !.record = @ \cup DeepFacts(o),
                                   !.landed = @ \/ o \in {"met", "mixed", "queued"}]
             /\ \/ pc' = "done"
                \/ ~stopped /\ \E nothing \in AddsNothing(o) :
                      /\ ~DeepIsReply(~nothing) /\ why # "wrap-up"
                      /\ pc' = Follows[why]
        BY <1>4, Zenon DEF EndDeep, Finish, Go
    <2>2. did'.record = did.record \cup DeepFacts(o)
          /\ (did'.landed <=> did.landed \/ o \in {"met", "mixed", "queued"})
        <3> DEFINE facts == did.record \cup DeepFacts(o)
                   landed == did.landed \/ o \in {"met", "mixed", "queued"}
        <3>1. did' = [did EXCEPT !.record = facts, !.landed = landed]
            BY <2>1
        <3> HIDE DEF facts, landed
        <3>2. did'.record = facts /\ did'.landed = landed
            BY <1>0, <3>1 DEF DidType
        <3> QED
            BY <3>2 DEF facts, landed
    <2>3. o \in {"met", "mixed", "queued"} => "success" \in DeepFacts(o)
        BY DEF DeepFacts
    <2>4. pc = "deep"
        BY <1>4 DEF EndDeep
    <2>5. ASSUME did'.landed, pc' # "done" PROVE pc' \in Late
        <3>1. did.landed => why = "search"
            BY <2>4 DEF LandedInv
        <3>2. o \in {"met", "mixed", "queued"} => AddsNothing(o) = {FALSE}
            BY DEF AddsNothing
        <3>3. why \in {"deferred", "repair", "search", "checkpoint", "last resort"}
            BY <2>1, <2>4, <2>5 DEF Shape, OwnRuns, DeepIsReply
        <3>4. why \in {"deferred", "repair", "search"}
            BY <2>1, <2>2, <2>5, <3>1, <3>2, <3>3 DEF DeepIsReply, OwnRuns
        <3> QED
            BY <2>1, <2>5, <3>4 DEF Follows
    <2> QED
        BY <2>2, <2>3, <2>4, <2>5 DEF LandedInv
<1>5. CASE CloseStep /\ ~StartsDeep
    <2>1. UNCHANGED did /\ pc' \in Late
        BY <1>5
        DEF CloseStep, AdoptAsk, CloseAnswer, NoVerdict, FileAsk, AsksPerson, Met,
            EvidenceOnly, Blocked, Repair, Correct, ReadPages, SearchFurther, Improve,
            OutOfTries, SearchLast, GiveUp, AskLast, FinishAnswer, Verdict, Finish, StartDeep,
            Go, StartsDeep
    <2> QED
        BY <2>1 DEF LandedInv
<1>6. CASE Stop \/ SpendBudget \/ UNCHANGED vars
    BY <1>6 DEF Stop, SpendBudget, vars, LandedInv
<1> QED
    BY <1>1, <1>2, <1>3, <1>4, <1>5, <1>6 DEF Next, Step, RouteStep

\* Nothing is started anew behind a hand-over to the queue, a parked change or
\* a result nobody confirmed.
THEOREM EndingHolds == Spec => EndingStands
<1>1. Init => FlagsInv
    BY DEF Init, FlagsInv, Handed
<1>2. FlagsInv /\ [Next]_vars =>
          [end.handedOff \/ end.parked \/ end.unconfirmed => ~StartsDeep]_vars
    BY WhoStarts DEF Started, FlagsInv, Handed
<1> QED
    BY <1>1, <1>2, ShapeInitial, ShapePreserved, FlagsPreserved, PTL DEF Spec, EndingStands

\* What landed is not done again, whichever path started the run that landed
\* and whatever the verifier says of the reply.
THEOREM NotRedone == Spec => ChangeIsNotRedone
<1>1. Init => LandedInv
    BY DEF Init, LandedInv
<1>2. LandedInv /\ [Next]_vars =>
          [StartsDeep => /\ "success" \in did.record =>
                               why' \notin {"repair", "last resort", "wrap-up"}
                         /\ did.landed => why' = "search"]_vars
    BY WhoStarts DEF Started, LandedInv, Mutated
<1> QED
    BY <1>1, <1>2, ShapeInitial, ShapePreserved, LandedPreserved, PTL DEF Spec, ChangeIsNotRedone

----------------------------------------------------------------------------
(* What is called verified was judged.                                     *)

\* A text whose last verdict is "met" is the one that was judged, and nothing
\* but the end of the turn comes after it.
VerdictInv ==
    /\ end.last = "met" => /\ end.text \in {"met", "question"}
                           /\ pc \in {"last", "end", "done"}
    /\ pc # "done" => end.exit = "none"
    /\ end.exit = "verified" => end.last = "met"

LEMMA VerdictPreserved == Shape /\ VerdictInv /\ [Next]_vars => VerdictInv'
<1> SUFFICES ASSUME Shape, VerdictInv, [Next]_vars PROVE VerdictInv'
    OBVIOUS
<1>0. end \in EndType
    BY DEF Shape
<1> DEFINE Same == end'.last = end.last /\ end'.text = end.text
<1>1. ASSUME NEW x, x \in Exits \ {"verified"}, Finish(x) PROVE VerdictInv'
    BY <1>0, <1>1 DEF Finish, Go, VerdictInv, EndType
<1>2. ASSUME end.last # "met", pc # "done", NEW e \in EndType, e.last # "met",
             e.exit = "none", NEW w, StartDeep(w, e)
      PROVE  VerdictInv'
    BY <1>2 DEF StartDeep, Go, VerdictInv, EndType
<1>3. CASE UNCHANGED end /\ end.last # "met" /\ pc # "done"
    BY <1>3 DEF VerdictInv
<1>4. CASE LoopStep
    <2>1. pc \in {"step", "plan", "gates", "act"}
        BY <1>4, LoopPlaces
    <2>2. SeeStop \/ UNCHANGED end
        BY <1>4
        DEF LoopStep, LeaveSpent, BeginStep, OverseerAnswers, OverseerEscalates,
            OverseerAsks, OverseerSendsBack, PlanStep, CueStep, HandBack, EnsureStep,
            HandRecordsBack, PassGates, ToolStep, RepeatedReads, FreshReads, LeaveLoop, Leave
    <2>3. CASE SeeStop
        BY <1>1, <2>3 DEF SeeStop, Exits
    <2> QED
        BY <1>3, <2>1, <2>2, <2>3 DEF VerdictInv
<1>5. CASE SearchBeforeWrapUp \/ DeepForReads \/ PlannedDeep \/ CheckEscalates \/ Defer
           \/ SearchLast
    <2>1. /\ \E w \in Reasons : StartDeep(w, end)
          /\ pc \in {"route", "check", "nets", "last"} /\ end.last # "met"
        BY <1>5
        DEF SearchBeforeWrapUp, DeepForReads, PlannedDeep, CheckEscalates, MayCheck, Defer,
            SearchLast, MaySearchLast, AtRoute, Reasons, OwnRuns, VerdictInv
    <2> QED
        BY <1>0, <1>2, <2>1 DEF VerdictInv
<1>6. CASE WrapUp \/ Clarify \/ Confirm \/ CheckAsks
    BY <1>1, <1>6 DEF WrapUp, Clarify, Confirm, CheckAsks, Exits
<1>7. CASE Draft \/ Checked \/ NoDeferral
    BY <1>0, <1>7 DEF Draft, AtRoute, Checked, NoDeferral, Go, VerdictInv, EndType
<1>8. CASE EndDeep
    <2>1. pc = "deep" /\ end.last # "met" /\ end.exit = "none"
        BY <1>8 DEF EndDeep, VerdictInv
    <2>2. ExitOf \in Exits \ {"verified"} /\ {"cancelled", "read_budget"} \subseteq Exits
        BY DEF ExitOf, Exits
    <2>3. \/ \E x \in Exits \ {"verified"} : Finish(x)
          \/ UNCHANGED end
          \/ \E o \in DeepOutcomes : end' = Deferred(o)
          \/ end' = [end EXCEPT !.own = TRUE]
          \/ end' = [end EXCEPT !.text = "unjudged"]
        <3>1. PICK o \in DeepOutcomes :
                 IF stopped THEN Finish("cancelled")
                 ELSE \E nothing \in AddsNothing(o) :
                      IF DeepIsReply(~nothing) THEN Finish(ExitOf)
                      ELSE IF why = "wrap-up" THEN Finish("read_budget")
                      ELSE /\ Go(Follows[why]) /\ why' = "none" /\ UNCHANGED <<turn, loop>>
                           /\ end' = CASE why = "deferred" -> Deferred(o)
                                       [] why = "search" -> [end EXCEPT !.own = TRUE]
                                       [] why = "repair" -> [end EXCEPT !.text = "unjudged"]
                                       [] OTHER -> end
            BY <1>8, Zenon DEF EndDeep
        <3>2. \/ Finish("cancelled") \/ Finish(ExitOf) \/ Finish("read_budget")
              \/ end' = CASE why = "deferred" -> Deferred(o)
                          [] why = "search" -> [end EXCEPT !.own = TRUE]
                          [] why = "repair" -> [end EXCEPT !.text = "unjudged"]
                          [] OTHER -> end
            BY <3>1
        <3> QED
            BY <2>2, <3>2
    <2>4. CASE \E x \in Exits \ {"verified"} : Finish(x)
        BY <1>1, <2>4
    <2>5. CASE ~\E x \in Exits \ {"verified"} : Finish(x)
        <3>1. end'.last = end.last /\ end'.exit = end.exit
            BY <1>0, <2>3, <2>5 DEF Deferred, EndType
        <3> QED
            BY <2>1, <3>1 DEF VerdictInv
    <2> QED
        BY <2>4, <2>5
<1>9. CASE AdoptAsk \/ AskLast
    BY <1>0, <1>9 DEF AdoptAsk, AskLast, Go, VerdictInv, EndType
<1>10. CASE CloseAnswer \/ OutOfTries \/ GiveUp
    BY <1>10 DEF CloseAnswer, OutOfTries, GiveUp, Go, VerdictInv
<1>11. CASE NoVerdict
    BY <1>0, <1>11 DEF NoVerdict, Verdict, Go, VerdictInv, EndType
<1>12. CASE FileAsk
    BY <1>0, <1>12 DEF FileAsk, Verdict, Go, VerdictInv, EndType
<1>13. CASE AsksPerson \/ Met
    BY <1>0, <1>13 DEF AsksPerson, Met, Verdict, Go, VerdictInv, EndType
<1>14. CASE EvidenceOnly \/ Blocked \/ Correct \/ ReadPages
    BY <1>0, <1>14
    DEF EvidenceOnly, Blocked, Correct, ReadPages, Unmet, Verdict, Go, VerdictInv, EndType
<1>15. CASE Improve
    BY <1>0, <1>15 DEF Improve, AtImprove, Unmet, Go, VerdictInv, EndType
<1>16. CASE Repair \/ SearchFurther
    <2>1. pc = "verify" /\ end.last # "met" /\ end.exit = "none"
        BY <1>16 DEF Repair, SearchFurther, VerdictInv
    <2> DEFINE e == [Unmet("unmet") EXCEPT !.remedies = @ + 1]
    <2>2. Unmet("unmet") \in EndType /\ Unmet("unmet").last # "met"
          /\ Unmet("unmet").exit = "none"
        BY <1>0, <2>1 DEF Unmet, EndType
    <2>3. CASE Repair
        <3>1. e.last # "met" /\ e.exit = "none" /\ StartDeep("repair", e)
            BY <2>2, <2>3 DEF EndType, Repair
        <3>2. e \in EndType
            <4>1. end.remedies + 1 \in 0..MaxRemedies
                BY <1>0, <2>3, Counters, MoreOf, TurnAssumption DEF Repair, CanExecute
            <4> QED
                BY <4>1, UnmetTyped DEF EndType
        <3> HIDE DEF e
        <3> QED
            BY <1>2, <2>1, <3>1, <3>2
    <2>4. CASE SearchFurther
        BY <1>2, <2>1, <2>2, <2>4 DEF SearchFurther
    <2> QED
        BY <1>16, <2>3, <2>4
<1>17. CASE FinishAnswer
    <2>1. Exit = "verified" => end.last = "met"
        BY DEF Exit
    <2>2. pc' = "done" /\ pc = "end"
          /\ \E said \in Says(Exit) : end' = [end EXCEPT !.exit = Exit, !.said = said]
        BY <1>17 DEF FinishAnswer, Finish, Go
    <2> QED
        BY <1>0, <2>1, <2>2 DEF VerdictInv, EndType
<1>18. CASE Stop \/ SpendBudget \/ UNCHANGED vars
    BY <1>18 DEF Stop, SpendBudget, vars, VerdictInv
<1> QED
    BY <1>4, <1>5, <1>6, <1>7, <1>8, <1>9, <1>10, <1>11, <1>12, <1>13, <1>14, <1>15, <1>16,
       <1>17, <1>18 DEF Next, Step, RouteStep, CloseStep

\* The exit "verified" stands for a verdict, and the text that finish() gets is
\* the one it was given on, or the one question the turn needs; what finish()
\* then says in its place no verdict covers.
THEOREM VerifiedWasJudged == Spec => []VerifiedTextWasJudged
<1>1. Init => VerdictInv
    BY DEF Init, VerdictInv
<1>2. VerdictInv => VerifiedTextWasJudged
    BY DEF VerdictInv, VerifiedTextWasJudged
<1> QED
    BY <1>1, <1>2, ShapeInitial, ShapePreserved, VerdictPreserved, PTL DEF Spec

----------------------------------------------------------------------------
(* An order is pursued.                                                    *)

\* The turn owes its order an attempt: a deep run would be accepted.
OwesOrder ==
    /\ NetsIntent = "act" /\ Capable /\ ~turn.latched /\ ~end.declined
    /\ Route("act") = "deep"

\* Behind the nets the attempt was made.
PursuitInv ==
    /\ pc \in {"close", "verify", "improve", "last", "ask", "end"} /\ OwesOrder
           => did.deep \/ Mutated
    /\ pc = "deep" => did.deep
    /\ OrderIsPursued

\* The close of a turn changes nothing of what makes it owe.
LEMMA OwesAfterClose ==
    ASSUME Shape, CloseStep
    PROVE  /\ OwesOrder' <=> OwesOrder
           /\ did'.record = did.record /\ (did'.deep \/ did'.deep = did.deep)
<1>0. end \in EndType /\ did \in DidType
    BY DEF Shape
<1>1. UNCHANGED <<set, turn>>
    BY DEF CloseStep, AdoptAsk, CloseAnswer, NoVerdict, FileAsk, AsksPerson, Met,
           EvidenceOnly, Blocked, Repair, Correct, ReadPages, SearchFurther, Improve,
           OutOfTries, SearchLast, GiveUp, AskLast, FinishAnswer, Verdict, Finish, StartDeep, Go
<1>2. did' = did \/ did' = [did EXCEPT !.deep = TRUE]
    BY DEF CloseStep, AdoptAsk, CloseAnswer, NoVerdict, FileAsk, AsksPerson, Met,
           EvidenceOnly, Blocked, Repair, Correct, ReadPages, SearchFurther, Improve,
           OutOfTries, SearchLast, GiveUp, AskLast, FinishAnswer, Verdict, Finish, StartDeep
<1>3. did'.record = did.record /\ did'.wrote = did.wrote /\ (did'.deep \/ did'.deep = did.deep)
    BY <1>0, <1>2 DEF DidType
<1>4. end'.declined = end.declined
    <2>1. CASE AdoptAsk \/ CloseAnswer \/ OutOfTries \/ GiveUp \/ AskLast
        BY <1>0, <2>1 DEF AdoptAsk, CloseAnswer, OutOfTries, GiveUp, AskLast, EndType
    <2>2. CASE NoVerdict \/ FileAsk \/ AsksPerson \/ Met
        BY <1>0, <2>2 DEF NoVerdict, FileAsk, AsksPerson, Met, Verdict, EndType
    <2>3. CASE EvidenceOnly \/ Blocked \/ Correct \/ ReadPages
        BY <1>0, <2>3 DEF EvidenceOnly, Blocked, Correct, ReadPages, Unmet, Verdict, EndType
    <2>4. CASE Repair \/ SearchFurther \/ SearchLast
        BY <1>0, <2>4 DEF Repair, SearchFurther, SearchLast, Unmet, StartDeep, EndType
    <2>5. CASE Improve
        BY <1>0, <2>5 DEF Improve, Unmet, EndType
    <2>6. CASE FinishAnswer
        BY <1>0, <2>6 DEF FinishAnswer, Finish, EndType
    <2> QED
        BY <2>1, <2>2, <2>3, <2>4, <2>5, <2>6 DEF CloseStep
<1>5. Route("act")' = Route("act")
    BY <1>1, <1>3 DEF Route
<1> QED
    BY <1>1, <1>3, <1>4, <1>5 DEF OwesOrder, NetsIntent, Capable

LEMMA PursuitPreserved == Shape /\ PursuitInv /\ [Next]_vars => PursuitInv'
<1> SUFFICES ASSUME Shape, PursuitInv, [Next]_vars PROVE PursuitInv'
    OBVIOUS
<1>0. end \in EndType /\ did \in DidType
    BY DEF Shape
<1> DEFINE Behind == {"close", "verify", "improve", "last", "ask", "end"}
<1>1. ASSUME NEW x, x \notin AnswerExits, Finish(x) PROVE PursuitInv'
    <2>1. pc' = "done" /\ end'.exit = x
        BY <1>0, <1>1 DEF Finish, Go, EndType
    <2> QED
        BY <1>1, <2>1 DEF PursuitInv, OrderIsPursued
<1>2. ASSUME pc' \notin Behind \cup {"deep", "done"} PROVE PursuitInv'
    BY <1>2 DEF PursuitInv, OrderIsPursued
<1>3. ASSUME NEW w, NEW e \in EndType, StartDeep(w, e) PROVE PursuitInv'
    <2>1. \/ pc' = "done" /\ end'.exit = "cancelled"
          \/ pc' = "deep" /\ did'.deep
        BY <1>0, <1>3 DEF StartDeep, Go, EndType, DidType
    <2> QED
        BY <2>1 DEF PursuitInv, OrderIsPursued, AnswerExits
<1>4. CASE LoopStep
    <2>1. SeeStop \/ pc' \in {"step", "plan", "gates", "act", "route"}
        BY <1>4
        DEF LoopStep, LeaveSpent, BeginStep, OverseerAnswers, OverseerEscalates,
            OverseerAsks, OverseerSendsBack, PlanStep, CueStep, HandBack, EnsureStep,
            HandRecordsBack, PassGates, ToolStep, AfterTool, RepeatedReads, FreshReads,
            LeaveLoop, Leave, Turn, Go
    <2>2. CASE SeeStop
        BY <1>1, <2>2 DEF SeeStop, AnswerExits
    <2> QED
        BY <1>2, <2>1, <2>2
<1>5. CASE SearchBeforeWrapUp \/ DeepForReads \/ PlannedDeep \/ CheckEscalates \/ Defer
    BY <1>0, <1>3, <1>5
    DEF SearchBeforeWrapUp, DeepForReads, PlannedDeep, CheckEscalates, Defer
<1>6. CASE Clarify \/ Confirm \/ CheckAsks
    BY <1>1, <1>6 DEF Clarify, Confirm, CheckAsks, AnswerExits
<1>7. CASE Draft \/ Checked
    BY <1>2, <1>7 DEF Draft, Checked, Go
<1>8. CASE WrapUp
    <2>1. ~IsWork /\ pc' = "done" /\ UNCHANGED <<set, turn, did>>
        BY <1>8 DEF WrapUp, Finish, Go
    <2>2. Route(NetsIntent)' = Route(NetsIntent) /\ NetsIntent' = NetsIntent
        BY <2>1 DEF Route, NetsIntent
    <2>3. ~(NetsIntent' = "act" /\ ~turn'.latched /\ Route("act")' = "deep")
        BY <2>1, <2>2 DEF IsWork, MayBeWork, Route
    <2> QED
        BY <2>1, <2>3 DEF PursuitInv, OrderIsPursued
<1>9. CASE NoDeferral
    <2>1. PICK declined \in Declining :
              /\ turn.latched \/ declined \/ ~MustDefer
              /\ end' = [end EXCEPT !.declined = declined]
        BY <1>9 DEF NoDeferral
    <2>2. pc' = "close" /\ UNCHANGED <<set, turn, did>> /\ end'.declined = declined
        BY <1>0, <1>9, <2>1 DEF NoDeferral, Go, EndType
    <2>3. OwesOrder' => did.deep \/ Mutated
        BY <2>1, <2>2
        DEF OwesOrder, MustDefer, NetsAreOn, OwesWork, NetsIntent, Capable, Route
    <2> QED
        BY <2>2, <2>3 DEF PursuitInv, OrderIsPursued, Mutated
<1>10. CASE EndDeep
    <2>1. did.deep
        BY <1>10 DEF EndDeep, PursuitInv
    <2>2. did'.deep
        <3>1. PICK o \in DeepOutcomes :
                 did' = [did EXCEPT !.record = @ \cup DeepFacts(o),
                                    !.landed = @ \/ o \in {"met", "mixed", "queued"}]
            BY <1>10, Zenon DEF EndDeep
        <3> DEFINE landed == did.landed \/ o \in {"met", "mixed", "queued"}
                   facts == did.record \cup DeepFacts(o)
        <3>2. did' = [did EXCEPT !.record = facts, !.landed = landed]
            BY <3>1
        <3> HIDE DEF facts, landed
        <3> QED
            BY <1>0, <2>1, <3>2 DEF DidType
    <2> QED
        BY <2>2 DEF PursuitInv, OrderIsPursued
<1>11. CASE CloseStep
    <2>1. pc' \notin {"deep", "done"} => pc \in Behind
        BY <1>11
        DEF CloseStep, AdoptAsk, CloseAnswer, NoVerdict, FileAsk, AsksPerson, Met,
            EvidenceOnly, Blocked, Repair, Correct, ReadPages, SearchFurther, Improve,
            AtImprove, OutOfTries, SearchLast, GiveUp, AskLast, FinishAnswer, Verdict
    <2>2. CASE Repair \/ SearchFurther \/ SearchLast
        <3>1. CASE Repair
            <4> DEFINE e == [Unmet("unmet") EXCEPT !.remedies = @ + 1]
            <4>1. end.remedies + 1 \in 0..MaxRemedies
                BY <1>0, <3>1, Counters, MoreOf, TurnAssumption DEF Repair, CanExecute
            <4>2. e \in EndType
                BY <4>1, UnmetTyped DEF EndType
            <4>3. StartDeep("repair", e)
                BY <3>1 DEF Repair
            <4> HIDE DEF e
            <4> QED
                BY <1>3, <4>2, <4>3
        <3>2. CASE SearchFurther
            BY <1>3, <3>2, UnmetTyped DEF SearchFurther
        <3>3. CASE SearchLast
            BY <1>0, <1>3, <3>3 DEF SearchLast
        <3> QED
            BY <2>2, <3>1, <3>2, <3>3
    <2>3. CASE ~Repair /\ ~SearchFurther /\ ~SearchLast
        <3>1. pc \in Behind /\ pc' # "deep"
            BY <1>11, <2>1, <2>3
            DEF CloseStep, AdoptAsk, CloseAnswer, NoVerdict, FileAsk, AsksPerson, Met,
                EvidenceOnly, Blocked, Correct, ReadPages, Improve, OutOfTries, GiveUp,
                AskLast, FinishAnswer, Verdict, Finish, Go, AtImprove
        <3>2. OwesOrder' => did'.deep \/ Mutated'
            BY <1>11, <3>1, OwesAfterClose DEF PursuitInv, Mutated
        <3>3. OrderIsPursued'
            BY <3>2 DEF OrderIsPursued, OwesOrder
        <3> QED
            BY <3>1, <3>2, <3>3 DEF PursuitInv
    <2> QED
        BY <2>2, <2>3
<1>12. CASE Stop \/ SpendBudget \/ UNCHANGED vars
    <2>1. UNCHANGED <<set, pc, turn, did, end>>
        BY <1>12 DEF Stop, SpendBudget, vars
    <2> QED
        BY <2>1
        DEF PursuitInv, OwesOrder, OrderIsPursued, NetsIntent, Capable, Route, Mutated
<1> QED
    BY <1>4, <1>5, <1>6, <1>7, <1>8, <1>9, <1>10, <1>11, <1>12 DEF Next, Step, RouteStep

\* An order does not end as words while a deep run would be accepted for it:
\* whatever plans, gates, overseer and verifier say, there was an attempt, or
\* the act was declined.
THEOREM OrderPursued == Spec => []OrderIsPursued
<1>1. Init => PursuitInv
    BY DEF Init, PursuitInv, OrderIsPursued
<1>2. PursuitInv => OrderIsPursued
    BY DEF PursuitInv
<1> QED
    BY <1>1, <1>2, ShapeInitial, ShapePreserved, PursuitPreserved, PTL DEF Spec
=============================================================================
