------------------------ MODULE TaskMessages_proofs ------------------------
(* Proofs about the steering messages of a task, for every set of messages *)
(* and every bound on accidents: that its state is well typed, that no     *)
(* model is told a thing twice, that a message follows Mailbox, and what   *)
(* may be lost or left behind.                                             *)
EXTENDS TaskMessages, TLAPS

USE DEF taskVars, held, asked

----------------------------------------------------------------------------
(* Type correctness                                                        *)

\* A claim takes messages from the task, or none.
LEMMA ClaimTakes ==
    ASSUME TypeOK, NEW ms \in SUBSET box, Claimed(ms)
    PROVE  /\ box' \subseteq box \ ms
           /\ hit' \in [Accidents -> Nat]
           /\ hit' = hit => ms = box /\ box' = {}
BY MessagesAssumption DEF Claimed, Accident, TypeOK

\* The tally of accidents stays one.
LEMMA TallyTyped ==
    ASSUME TypeOK, NEW a, Accident(a)
    PROVE  hit' \in [Accidents -> Nat]
BY MessagesAssumption DEF Accident, TypeOK

\* What was given is still counted when more is given.
LEMMA GivenTyped ==
    ASSUME TypeOK, NEW ms, Give(ms)
    PROVE  given' \in [Messages -> Nat]
BY DEF Give, TypeOK

LEMMA PersonTyped == TypeOK /\ Person => TypeOK'
BY DEF TypeOK, Held, Person, Send, Pause, Resume, Cancel

LEMMA WorkerTyped == TypeOK /\ Worker => TypeOK'
<1> SUFFICES ASSUME TypeOK, Worker PROVE TypeOK'
    OBVIOUS
<1>1. CASE WorkerClaims
    BY <1>1, ClaimTakes DEF TypeOK, Held, WorkerClaims
<1>2. CASE WorkerEnds
    BY <1>2 DEF TypeOK, Held, WorkerEnds
<1>3. CASE WorkerDies
    BY <1>3, TallyTyped DEF TypeOK, Held, WorkerDies
<1>4. CASE WorkerPauses
    BY <1>4 DEF TypeOK, Held, WorkerPauses, Unseen
<1>5. ASSUME NEW m \in Messages, Confirm(m) PROVE TypeOK'
    BY <1>5, GivenTyped DEF TypeOK, Held, Confirm, Unconfirmed
<1> QED
    BY <1>1, <1>2, <1>3, <1>4, <1>5 DEF Worker

LEMMA FinishTyped == TypeOK /\ Finish => TypeOK'
<1> SUFFICES ASSUME TypeOK, Finish PROVE TypeOK'
    OBVIOUS
<1> USE DEF Accepted, Refused, Written
<1>1. CASE Quiet
    BY <1>1 DEF TypeOK, Held, Quiet
<1>2. CASE Looked
    BY <1>2 DEF TypeOK, Held, Looked
<1>3. CASE HandBack
    BY <1>3, TallyTyped DEF TypeOK, Held, HandBack, AfterPutBack
<1>4. CASE Returned \/ PutBack \/ Fail
    BY <1>4, TallyTyped DEF TypeOK, Held, Returned, PutBack, Fail
<1>5. CASE Report
    BY <1>5, TallyTyped DEF TypeOK, Held, Report, AfterReport
<1>6. CASE ClaimLate
    BY <1>6, ClaimTakes DEF TypeOK, Held, ClaimLate
<1>7. CASE Reopen
    BY <1>7, TallyTyped DEF TypeOK, Held, Reopen
<1>8. ASSUME NEW m \in Messages, Return(m) PROVE TypeOK'
    BY <1>8, TallyTyped DEF TypeOK, Held, Return
<1> QED
    BY <1>1, <1>2, <1>3, <1>4, <1>5, <1>6, <1>7, <1>8 DEF Finish

LEMMA TypePreserved == TypeOK /\ [Next]_vars => TypeOK'
<1> SUFFICES ASSUME TypeOK, [Next]_vars PROVE TypeOK'
    OBVIOUS
<1>1. CASE Person
    BY <1>1, PersonTyped
<1>2. CASE Claim \/ StartWorker \/ RunEnds \/ Recover
    BY <1>2 DEF TypeOK, Held, Claim, StartWorker, RunEnds, Recover
<1>3. CASE OpeningDrain
    BY <1>3, ClaimTakes DEF TypeOK, Held, OpeningDrain
<1>4. CASE Start
    BY <1>4, GivenTyped DEF TypeOK, Held, Start
<1>5. CASE Drain
    BY <1>5, ClaimTakes, GivenTyped DEF TypeOK, Held, Drain
<1>6. CASE Worker \/ Finish
    BY <1>6, WorkerTyped, FinishTyped
<1>7. CASE Kill
    BY <1>7, TallyTyped DEF TypeOK, Held, Kill
<1>8. CASE Over \/ UNCHANGED vars
    BY <1>8 DEF TypeOK, Held, Over, vars
<1> QED
    BY <1>1, <1>2, <1>3, <1>4, <1>5, <1>6, <1>7, <1>8 DEF Next, Executor

LEMMA TypeInitial == Init => TypeOK
<1> SUFFICES ASSUME Init PROVE TypeOK
    OBVIOUS
<1>1. hold \in BOOLEAN
    BY DEF Init
<1> QED
    BY <1>1 DEF Init, TypeOK, Held

\* The steering messages are well typed, and only a run that was claimed
\* holds any.
THEOREM TypeCorrect == Spec => []TypeOK
BY TypeInitial, TypePreserved, PTL DEF Spec

----------------------------------------------------------------------------
(* Exactly once.  GivenOnce is not inductive: a message that was given must *)
(* be nowhere it could be given from, what is held for one reason must not  *)
(* be held for another, nor wait, nor be announced as undelivered, and what *)
(* a run was opened with is in no other place.                              *)

\* The messages of the text a run has now, or had.
Opened == text \cup shown

GivenIsGone ==
    \A m \in Messages :
        given[m] > 0 => m \in sent /\ m \notin box \cup Held \cup told \cup Opened

PlacesApart ==
    /\ box \cap Held = {}
    /\ told \cap (box \cup Held) = {}
    /\ Opened \cap (box \cup Held \cup told) = {}

OnceInv == GivenOnce /\ GivenIsGone /\ PlacesApart

\* A step that opens no run leaves the text as it is, and no model reads
\* another text.
TextStays == text' = text /\ shown \subseteq shown' /\ shown' \subseteq shown \cup text

\* A step that gives nothing, and after which nothing is in some place that
\* was in none before, or was only just sent.
LEMMA NothingGiven ==
    ASSUME TypeOK, OnceInv, given' = given, sent \subseteq sent',
           \A m \in box' \cup Held' \cup told' \cup Opened' :
               m \in box \cup Held \cup told \cup Opened \/ m \notin sent
    PROVE  GivenOnce' /\ GivenIsGone'
BY DEF TypeOK, OnceInv, GivenOnce, GivenIsGone, Opened

\* A step that gives messages which were on the task or held, and keeps none
\* of them.
LEMMA SomeGiven ==
    ASSUME TypeOK, OnceInv, NEW ms \in SUBSET (box \cup Held), Give(ms), TextStays,
           UNCHANGED <<sent, told>>, box' \cup Held' \subseteq (box \cup Held) \ ms
    PROVE  GivenOnce' /\ GivenIsGone'
<1>1. \A m \in Messages : given'[m] = given[m] + (IF m \in ms THEN 1 ELSE 0)
    BY DEF Give
<1>2. \A m \in Messages : given[m] \in Nat
    BY DEF TypeOK
<1>3. Opened' \subseteq Opened
    BY DEF TextStays, Opened
<1>4. ms \subseteq sent /\ \A m \in ms : m \notin told /\ m \notin Opened
    BY DEF TypeOK, OnceInv, PlacesApart
<1>5. ASSUME NEW m \in Messages, given'[m] > 0
      PROVE  m \in sent' /\ m \notin box' \cup Held' \cup told' \cup Opened' /\ given'[m] <= 1
    <2>1. CASE m \in ms
        <3>1. m \in sent' /\ m \notin told' \cup Opened'
            BY <1>3, <1>4, <2>1
        <3>2. m \notin box' \cup Held'
            BY <2>1
        <3>3. given'[m] <= 1
            <4>1. ~(given[m] > 0)
                BY <2>1 DEF OnceInv, GivenIsGone, PlacesApart
            <4> QED
                BY <1>1, <1>2, <2>1, <4>1
        <3> QED
            BY <3>1, <3>2, <3>3
    <2>2. CASE m \notin ms
        <3>1. given[m] > 0 /\ given'[m] = given[m]
            BY <1>1, <1>2, <1>5, <2>2
        <3> QED
            BY <1>3, <3>1 DEF OnceInv, GivenIsGone, GivenOnce
    <2> QED
        BY <2>1, <2>2
<1>6. GivenIsGone'
    BY <1>5 DEF GivenIsGone
<1>7. \A m \in Messages : given'[m] \in Nat
    BY <1>1, <1>2
<1>8. GivenOnce'
    BY <1>5, <1>7 DEF GivenOnce, Opened
<1> QED
    BY <1>6, <1>8

LEMMA PersonOnce == TypeOK /\ OnceInv /\ Person => OnceInv'
<1> SUFFICES ASSUME TypeOK, OnceInv, Person PROVE OnceInv'
    OBVIOUS
<1>1. GivenOnce' /\ GivenIsGone'
    BY NothingGiven DEF Person, Send, Pause, Resume, Cancel, Held, Opened
<1>2. PlacesApart'
    BY DEF TypeOK, OnceInv, PlacesApart, Person, Send, Pause, Resume, Cancel, Held,
       Opened
<1> QED
    BY <1>1, <1>2 DEF OnceInv

LEMMA WorkerOnce == TypeOK /\ OnceInv /\ Worker => OnceInv'
<1> SUFFICES ASSUME TypeOK, OnceInv, Worker PROVE OnceInv'
    OBVIOUS
<1>1. CASE WorkerClaims
    <2>1. PICK ms \in SUBSET box : Claimed(ms) /\ carried' = carried \cup ms
        BY <1>1 DEF WorkerClaims
    <2>2. box' \subseteq box \ ms
        BY <2>1, ClaimTakes
    <2>3. GivenOnce' /\ GivenIsGone'
        BY <1>1, <2>1, <2>2, NothingGiven DEF WorkerClaims, Held, Opened
    <2>4. PlacesApart'
        BY <1>1, <2>1, <2>2 DEF WorkerClaims, OnceInv, PlacesApart, Held, Opened
    <2> QED
        BY <2>3, <2>4 DEF OnceInv
<1>2. CASE WorkerEnds \/ WorkerDies \/ WorkerPauses
    <2>1. GivenOnce' /\ GivenIsGone'
        BY <1>2, NothingGiven DEF WorkerEnds, WorkerDies, WorkerPauses, Unseen,
           Held, Opened
    <2>2. PlacesApart'
        BY <1>2 DEF WorkerEnds, WorkerDies, WorkerPauses, Unseen, OnceInv,
            PlacesApart, Held, Opened
    <2> QED
        BY <2>1, <2>2 DEF OnceInv
<1>3. ASSUME NEW m \in Messages, Confirm(m) PROVE OnceInv'
    <2>1. GivenOnce' /\ GivenIsGone'
        <3>1. m \notin box \cup text \cup brief \cup unseen \cup late
            BY <1>3 DEF Confirm, Unconfirmed, TypeOK, OnceInv, PlacesApart, Held,
               Opened
        <3> QED
            BY <1>3, <3>1, SomeGiven DEF Confirm, Unconfirmed, Held, Opened, TextStays
    <2>2. PlacesApart'
        BY <1>3 DEF Confirm, Unconfirmed, OnceInv, PlacesApart, Held, Opened
    <2> QED
        BY <2>1, <2>2 DEF OnceInv
<1> QED
    BY <1>1, <1>2, <1>3 DEF Worker

LEMMA FinishOnce == TypeOK /\ OnceInv /\ Finish => OnceInv'
<1> SUFFICES ASSUME TypeOK, OnceInv, Finish PROVE OnceInv'
    OBVIOUS
<1>1. CASE Quiet \/ Looked \/ HandBack \/ Returned \/ PutBack \/ Fail \/ Report
    <2>1. /\ UNCHANGED <<sent, box, asked, brief, carried, late, given, told>>
          /\ unseen' \subseteq unseen
        BY <1>1 DEF Quiet, Looked, HandBack, Returned, PutBack, Fail, Report
    <2>2. GivenOnce' /\ GivenIsGone'
        BY <2>1, NothingGiven DEF Held, Opened
    <2>3. PlacesApart'
        BY <2>1 DEF OnceInv, PlacesApart, Held, Opened
    <2> QED
        BY <2>2, <2>3 DEF OnceInv
<1>2. CASE ClaimLate
    <2>1. PICK ms \in SUBSET box : Claimed(ms) /\ late' = ms
        BY <1>2 DEF ClaimLate
    <2>2. box' \subseteq box \ ms
        BY <2>1, ClaimTakes
    <2>3. GivenOnce' /\ GivenIsGone'
        BY <1>2, <2>1, <2>2, NothingGiven DEF ClaimLate, Held, Opened
    <2>4. PlacesApart'
        BY <1>2, <2>1, <2>2 DEF ClaimLate, OnceInv, PlacesApart, Held, Opened
    <2> QED
        BY <2>3, <2>4 DEF OnceInv
<1>3. CASE Reopen
    <2>1. GivenOnce' /\ GivenIsGone'
        BY <1>3, NothingGiven DEF Reopen, Held, Opened
    <2>2. PlacesApart'
        BY <1>3 DEF Reopen, TypeOK, OnceInv, PlacesApart, Held, Opened
    <2> QED
        BY <2>1, <2>2 DEF OnceInv
<1>4. ASSUME NEW m \in Messages, Return(m) PROVE OnceInv'
    <2>1. GivenOnce' /\ GivenIsGone'
        BY <1>4, NothingGiven DEF Return, Held, Opened
    <2>2. PlacesApart'
        BY <1>4 DEF Return, TypeOK, OnceInv, PlacesApart, Held, Opened
    <2> QED
        BY <2>1, <2>2 DEF OnceInv
<1> QED
    BY <1>1, <1>2, <1>3, <1>4 DEF Finish

LEMMA OncePreserved == TypeOK /\ OnceInv /\ [Next]_vars => OnceInv'
<1> SUFFICES ASSUME TypeOK, OnceInv, [Next]_vars PROVE OnceInv'
    OBVIOUS
<1>1. CASE Person \/ Worker \/ Finish
    BY <1>1, PersonOnce, WorkerOnce, FinishOnce
<1>2. CASE Claim \/ StartWorker \/ RunEnds \/ Recover \/ Over \/ UNCHANGED vars
    <2>1. UNCHANGED <<sent, box, asked, held, given, told>>
        BY <1>2 DEF Claim, StartWorker, RunEnds, Recover, Over, vars
    <2> QED
        BY <2>1 DEF OnceInv, GivenOnce, GivenIsGone, PlacesApart, Held, Opened
<1>3. CASE OpeningDrain
    <2>1. PICK ms \in SUBSET box : Claimed(ms) /\ brief' = ms
        BY <1>3 DEF OpeningDrain
    <2>2. box' \subseteq box \ ms
        BY <2>1, ClaimTakes
    <2>3. GivenOnce' /\ GivenIsGone'
        BY <1>3, <2>1, <2>2, NothingGiven DEF OpeningDrain, Held, Opened
    <2>4. PlacesApart'
        BY <1>3, <2>1, <2>2 DEF OpeningDrain, OnceInv, PlacesApart, Held, Opened
    <2> QED
        BY <2>3, <2>4 DEF OnceInv
<1>4. CASE Start
    <2>1. Give(brief) /\ carried = {} /\ unseen = {} /\ late = {}
        BY <1>4 DEF Start, TypeOK
    <2>2. GivenOnce' /\ GivenIsGone'
        BY <1>4, <2>1, SomeGiven DEF Start, OnceInv, PlacesApart, Held, Opened,
           TextStays
    <2>3. PlacesApart'
        BY <1>4 DEF Start, OnceInv, PlacesApart, Held, Opened
    <2> QED
        BY <2>2, <2>3 DEF OnceInv
<1>5. CASE Drain
    <2>1. PICK ms \in SUBSET box : Claimed(ms) /\ Give(ms)
        BY <1>5 DEF Drain
    <2>2. box' \subseteq box \ ms
        BY <2>1, ClaimTakes
    <2>3. GivenOnce' /\ GivenIsGone'
        BY <1>5, <2>1, <2>2, SomeGiven DEF Drain, OnceInv, PlacesApart, Held,
           Opened, TextStays
    <2>4. PlacesApart'
        BY <1>5, <2>2 DEF Drain, OnceInv, PlacesApart, Held, Opened
    <2> QED
        BY <2>3, <2>4 DEF OnceInv
<1>6. CASE Kill
    <2>1. GivenOnce' /\ GivenIsGone'
        BY <1>6, NothingGiven DEF Kill, Held, Opened
    <2>2. PlacesApart'
        BY <1>6 DEF Kill, OnceInv, PlacesApart, Held, Opened
    <2> QED
        BY <2>1, <2>2 DEF OnceInv
<1> QED
    BY <1>1, <1>2, <1>3, <1>4, <1>5, <1>6 DEF Next, Executor

LEMMA OnceInitial == Init => OnceInv
BY DEF Init, OnceInv, GivenOnce, GivenIsGone, PlacesApart, Held, Opened

\* No claim gives a model a message that another claim or the text of a run has
\* given, whatever is paused, resumed, reported, reopened, killed or refused,
\* and however often.
THEOREM ExactlyOnce == Spec => []GivenOnce
<1>1. OnceInv => GivenOnce
    BY DEF OnceInv
<1> QED
    BY <1>1, TypeInitial, TypePreserved, OnceInitial, OncePreserved, PTL DEF Spec

----------------------------------------------------------------------------
(* A run that was started has been given its text.                          *)

TextIsRead == pc \in {"idle", "dead", "open", "start"} \/ text \subseteq shown

LEMMA ReadPreserved == TextIsRead /\ [Next]_vars => TextIsRead'
<1> SUFFICES ASSUME TextIsRead, [Next]_vars PROVE TextIsRead'
    OBVIOUS
<1>1. CASE Start
    BY <1>1 DEF TextIsRead, Start
<1>2. CASE Reopen
    BY <1>2 DEF TextIsRead, Reopen
<1>3. CASE ~Start /\ ~Reopen
    BY <1>3 DEF TextIsRead, Next, Person, Send, Pause, Resume, Cancel, Executor, Claim,
       OpeningDrain, Drain, StartWorker, Worker, WorkerClaims, WorkerEnds, WorkerDies,
       WorkerPauses, Confirm, RunEnds, Finish, Quiet, Looked, HandBack, Returned, PutBack,
       Fail, Report, ClaimLate, Return, Recover, Kill, Over, vars
<1> QED
    BY <1>1, <1>2, <1>3

----------------------------------------------------------------------------
(* Mailbox.  Every step of the executor moves messages from one place to    *)
(* another, or none: a claim takes what waits, a prompt gives what is held, *)
(* and only what is held is ever put back.                                  *)

Gone(m) == m \in sent /\ m \notin box \cup Held \cup told \cup Opened /\ ~(given[m] > 0)

\* Where a message is, in a state that keeps the places apart,
LEMMA PlaceIs ==
    TypeOK /\ OnceInv =>
        \A m \in Messages :
            /\ m \notin sent => Place(m) = "unsent"
            /\ m \in box => Place(m) = "waiting"
            /\ m \in Held => Place(m) = "held"
            /\ m \in text => Place(m) = "opening"
            /\ m \in told => Place(m) = "told"
            /\ given[m] > 0 \/ m \in shown \ text => Place(m) = "given"
            /\ Gone(m) => Place(m) = "lost"
<1> SUFFICES ASSUME TypeOK, OnceInv, NEW m \in Messages
             PROVE  /\ m \notin sent => Place(m) = "unsent"
                    /\ m \in box => Place(m) = "waiting"
                    /\ m \in Held => Place(m) = "held"
                    /\ m \in text => Place(m) = "opening"
                    /\ m \in told => Place(m) = "told"
                    /\ given[m] > 0 \/ m \in shown \ text => Place(m) = "given"
                    /\ Gone(m) => Place(m) = "lost"
    OBVIOUS
<1>1. m \in box \cup Held \cup text \cup shown \cup told => m \in sent
    BY DEF TypeOK
<1>2. given[m] > 0 => m \in sent /\ m \notin box \cup Held \cup text \cup told
    BY DEF OnceInv, GivenIsGone, Opened
<1>3. /\ m \in Held => m \notin box
      /\ m \in told => m \notin box \cup Held \cup text
      /\ m \in text \cup shown => m \notin box \cup Held \cup told
    BY DEF OnceInv, PlacesApart, Opened
<1> QED
    BY <1>1, <1>2, <1>3 DEF Place, Gone, Opened

\* and where it is after a step to such a state.
LEMMA PlaceIsNext ==
    (TypeOK /\ OnceInv =>
        \A m \in Messages :
            /\ m \notin sent => Place(m) = "unsent"
            /\ m \in box => Place(m) = "waiting"
            /\ m \in Held => Place(m) = "held"
            /\ m \in text => Place(m) = "opening"
            /\ m \in told => Place(m) = "told"
            /\ given[m] > 0 \/ m \in shown \ text => Place(m) = "given"
            /\ Gone(m) => Place(m) = "lost")'
BY PlaceIs, PTL

\* The moves that Mailbox allows.
Legal(from, to) ==
    \/ from = "unsent" /\ to = "waiting"
    \/ from = "waiting" /\ to \in {"held", "given", "lost"}
    \/ from = "held" /\ to \in {"waiting", "given", "told", "lost"}

\* A step that takes the messages ms from one place to another.
LEMMA MoveStep ==
    ASSUME NEW ms \in SUBSET Messages, NEW from, NEW to, Legal(from, to),
           \A m \in ms : Place(m) = from /\ Place(m)' = to,
           \A m \in Messages \ ms : Place(m)' = Place(m)
    PROVE  Promise!Next
<1> DEFINE place == [m \in Messages |-> Place(m)]
<1>1. \A m \in ms : place[m] = from
    OBVIOUS
<1>2. place' = [m \in Messages |-> IF m \in ms THEN to ELSE place[m]]
    OBVIOUS
<1>3. Promise!Move(ms, from, to)
    BY <1>1, <1>2 DEF Promise!Move
<1> QED
    BY <1>3 DEF Promise!Next, Legal

\* A run of the finished task is opened with what was held.
LEMMA OpenMoves ==
    ASSUME TypeOK, OnceInv, TextIsRead, TypeOK', OnceInv', Reopen, text' = late,
           UNCHANGED told
    PROVE  Promise!Next
<1> DEFINE place == [m \in Messages |-> Place(m)]
<1>1. late \in SUBSET Held /\ late \in SUBSET Messages /\ text \subseteq shown
    BY DEF Reopen, TextIsRead, TypeOK, Held
<1>2. Held' = Held \ late /\ UNCHANGED <<sent, box, shown, given, told>>
    BY DEF Reopen, TypeOK, Held
<1>3. \A m \in late : Place(m) = "held" /\ Place(m)' = "opening"
    BY <1>1, PlaceIs, PlaceIsNext
<1>4. \A m \in text : Place(m) = "opening" /\ Place(m)' = "given"
    BY <1>1, <1>2, PlaceIs, PlaceIsNext DEF TypeOK, OnceInv, PlacesApart, Opened
<1>5. \A m \in Messages \ (late \cup text) : Place(m)' = Place(m) /\ Place(m) # "opening"
    BY <1>1, <1>2, PlaceIs, PlaceIsNext
    DEF TypeOK, OnceInv, GivenIsGone, PlacesApart, Opened, Gone
<1>6. place' = [m \in Messages |-> IF m \in late THEN "opening"
                                  ELSE IF place[m] = "opening" THEN "given"
                                  ELSE place[m]]
    BY <1>3, <1>4, <1>5
<1>7. Promise!Open(late)
    BY <1>3, <1>1, <1>6 DEF Promise!Open
<1> QED
    BY <1>1, <1>7 DEF Promise!Next

\* A step after which every message is where it was.
LEMMA PlacesUnchanged ==
    ASSUME \A m \in Messages : Place(m)' = Place(m)
    PROVE  [m \in Messages |-> Place(m)]' = [m \in Messages |-> Place(m)]
OBVIOUS

\* A claim of messages that are then held, in none of the hands before.
LEMMA ClaimMoves ==
    ASSUME TypeOK, OnceInv, TypeOK', OnceInv', NEW ms \in SUBSET box, Claimed(ms),
           TextStays, UNCHANGED <<sent, given, told>>, Held' = Held \cup ms
    PROVE  \/ Promise!Next
           \/ UNCHANGED [m \in Messages |-> Place(m)]
<1>1. CASE ms = box /\ box' = {}
    <2>1. \A m \in box : Place(m) = "waiting" /\ Place(m)' = "held"
        BY <1>1, PlaceIs, PlaceIsNext
        DEF TypeOK, OnceInv, GivenIsGone, PlacesApart, Opened, Gone, TextStays
    <2>2. \A m \in Messages \ box : Place(m)' = Place(m)
        BY <1>1, PlaceIs, PlaceIsNext
        DEF TypeOK, OnceInv, GivenIsGone, PlacesApart, Opened, Gone, TextStays
    <2>3. box \in SUBSET Messages /\ Legal("waiting", "held")
        BY DEF TypeOK, Legal
    <2> QED
        BY <2>1, <2>2, <2>3, MoveStep
<1>2. CASE ms = {} /\ UNCHANGED box
    <2>1. \A m \in Messages : Place(m)' = Place(m)
        BY <1>2, PlaceIs, PlaceIsNext
        DEF TypeOK, OnceInv, GivenIsGone, PlacesApart, Opened, Gone, TextStays
    <2> QED
        BY <2>1, PlacesUnchanged
<1>3. CASE ms = {} /\ box' = {}
    <2>1. \A m \in box : Place(m) = "waiting" /\ Place(m)' = "lost"
        BY <1>3, PlaceIs, PlaceIsNext
        DEF TypeOK, OnceInv, GivenIsGone, PlacesApart, Opened, Gone, TextStays
    <2>2. \A m \in Messages \ box : Place(m)' = Place(m)
        BY <1>3, PlaceIs, PlaceIsNext
        DEF TypeOK, OnceInv, GivenIsGone, PlacesApart, Opened, Gone, TextStays
    <2>3. box \in SUBSET Messages /\ Legal("waiting", "lost")
        BY DEF TypeOK, Legal
    <2> QED
        BY <2>1, <2>2, <2>3, MoveStep
<1> QED
    BY <1>1, <1>2, <1>3 DEF Claimed

\* A step that drops what it held.
LEMMA DropMoves ==
    ASSUME TypeOK, OnceInv, TypeOK', OnceInv', NEW ms \in SUBSET Held, Held' = Held \ ms,
           TextStays, UNCHANGED <<sent, box, given, told>>
    PROVE  Promise!Next
<1>1. \A m \in ms : Place(m) = "held" /\ Place(m)' = "lost"
    BY PlaceIs, PlaceIsNext
    DEF TypeOK, OnceInv, GivenIsGone, PlacesApart, Opened, Gone, TextStays
<1>2. \A m \in Messages \ ms : Place(m)' = Place(m)
    BY PlaceIs, PlaceIsNext
    DEF TypeOK, OnceInv, GivenIsGone, PlacesApart, Opened, Gone, TextStays
<1>3. ms \in SUBSET Messages /\ Legal("held", "lost")
    BY DEF TypeOK, Legal
<1> QED
    BY <1>1, <1>2, <1>3, MoveStep

\* A step that gives what it held.
LEMMA GiveMoves ==
    ASSUME TypeOK, OnceInv, TypeOK', OnceInv', NEW ms \in SUBSET Held, Held' = Held \ ms,
           Give(ms), TextStays, UNCHANGED <<sent, box, told>>
    PROVE  Promise!Next
<1>1. \A m \in Messages : /\ given[m] \in Nat
                          /\ given'[m] = given[m] + (IF m \in ms THEN 1 ELSE 0)
    BY DEF Give, TypeOK
<1>2. \A m \in ms : Place(m) = "held" /\ Place(m)' = "given"
    BY <1>1, PlaceIs, PlaceIsNext
    DEF TypeOK, OnceInv, GivenIsGone, PlacesApart, Opened, Gone, TextStays
<1>3. \A m \in Messages \ ms : Place(m)' = Place(m)
    BY <1>1, PlaceIs, PlaceIsNext
    DEF TypeOK, OnceInv, GivenIsGone, PlacesApart, Opened, Gone, TextStays
<1>4. ms \in SUBSET Messages /\ Legal("held", "given")
    BY DEF TypeOK, Legal
<1> QED
    BY <1>2, <1>3, <1>4, MoveStep

\* A step that announces what it held as undelivered.
LEMMA TellMoves ==
    ASSUME TypeOK, OnceInv, TypeOK', OnceInv', NEW ms \in SUBSET Held, Held' = Held \ ms,
           told' = told \cup ms, TextStays, UNCHANGED <<sent, box, given>>
    PROVE  Promise!Next
<1>1. \A m \in ms : Place(m) = "held" /\ Place(m)' = "told"
    BY PlaceIs, PlaceIsNext
    DEF TypeOK, OnceInv, GivenIsGone, PlacesApart, Opened, Gone, TextStays
<1>2. \A m \in Messages \ ms : Place(m)' = Place(m)
    BY PlaceIs, PlaceIsNext
    DEF TypeOK, OnceInv, GivenIsGone, PlacesApart, Opened, Gone, TextStays
<1>3. ms \in SUBSET Messages /\ Legal("held", "told")
    BY DEF TypeOK, Legal
<1> QED
    BY <1>1, <1>2, <1>3, MoveStep

\* A step that puts a message it held back on the task.
LEMMA PutBackMoves ==
    ASSUME TypeOK, OnceInv, TypeOK', OnceInv', NEW m \in Held, Held' = Held \ {m},
           box' = box \cup {m}, TextStays, UNCHANGED <<sent, given, told>>
    PROVE  Promise!Next
<1>1. Place(m) = "held" /\ Place(m)' = "waiting"
    BY PlaceIs, PlaceIsNext
    DEF TypeOK, OnceInv, GivenIsGone, PlacesApart, Opened, Gone, TextStays
<1>2. \A k \in Messages \ {m} : Place(k)' = Place(k)
    BY PlaceIs, PlaceIsNext
    DEF TypeOK, OnceInv, GivenIsGone, PlacesApart, Opened, Gone, TextStays
<1>3. {m} \in SUBSET Messages /\ Legal("held", "waiting")
    BY DEF TypeOK, Legal
<1> QED
    BY <1>1, <1>2, <1>3, MoveStep

\* A step that moves no message.
LEMMA NothingMoves ==
    ASSUME TypeOK, OnceInv, TypeOK', OnceInv', Held' = Held,
           TextStays, UNCHANGED <<sent, box, given, told>>
    PROVE  UNCHANGED [m \in Messages |-> Place(m)]
BY PlacesUnchanged, PlaceIs, PlaceIsNext
DEF TypeOK, OnceInv, GivenIsGone, PlacesApart, Opened, Gone, TextStays

LEMMA MailboxStep ==
    TypeOK /\ OnceInv /\ TextIsRead /\ [Next]_vars
        => [Promise!Next]_[m \in Messages |-> Place(m)]
<1> SUFFICES ASSUME TypeOK, OnceInv, TextIsRead, [Next]_vars
             PROVE  Promise!Next \/ UNCHANGED [m \in Messages |-> Place(m)]
    OBVIOUS
<1>0. TypeOK' /\ OnceInv'
    BY TypePreserved, OncePreserved
<1> DEFINE Moves == Promise!Next \/ UNCHANGED [m \in Messages |-> Place(m)]
<1> HIDE DEF Moves
<1>1. ASSUME NEW m \in Messages, Send(m) PROVE Moves
    <2>1. Place(m) = "unsent" /\ Place(m)' = "waiting"
        BY <1>0, <1>1, PlaceIs, PlaceIsNext DEF Send, Gone, Opened
    <2>2. \A k \in Messages \ {m} : Place(k)' = Place(k)
        BY <1>0, <1>1, PlaceIs, PlaceIsNext DEF Send, Held, Gone, Opened
    <2>3. {m} \in SUBSET Messages /\ Legal("unsent", "waiting")
        BY DEF Legal
    <2>4. Promise!Next
        BY <2>1, <2>2, <2>3, MoveStep
    <2> QED
        BY <2>4 DEF Moves
<1>2. CASE Pause \/ Resume \/ Cancel \/ Claim \/ StartWorker \/ RunEnds \/ Recover
           \/ Looked \/ Returned \/ PutBack \/ Fail \/ Report \/ Over \/ UNCHANGED vars
    <2>1. UNCHANGED <<sent, box, asked, held, given, told>>
        BY <1>2 DEF Pause, Resume, Cancel, Claim, StartWorker, RunEnds, Recover,
            Looked, Returned, PutBack, Fail, Report, Over, vars
    <2> QED
        BY <1>0, <2>1, NothingMoves DEF Moves, Held, TextStays
<1>3. CASE OpeningDrain
    <2>1. PICK ms \in SUBSET box : Claimed(ms) /\ brief' = ms
        BY <1>3 DEF OpeningDrain
    <2>2. Held' = Held \cup ms
        BY <1>3, <2>1 DEF OpeningDrain, TypeOK, Held
    <2> QED
        BY <1>0, <1>3, <2>1, <2>2, ClaimMoves DEF OpeningDrain, Moves, TextStays
<1>4. CASE Start
    <2>1. brief \in SUBSET Held /\ Held' = Held \ brief
        BY <1>4 DEF Start, TypeOK, Held
    <2> QED
        BY <1>0, <1>4, <2>1, GiveMoves DEF Start, Moves, TextStays
<1>5. CASE Drain
    <2>1. PICK ms \in SUBSET box : Claimed(ms) /\ Give(ms)
        BY <1>5 DEF Drain
    <2>2. /\ UNCHANGED <<sent, asked, told>> /\ Held' = Held
          /\ \A m \in Messages : /\ given[m] \in Nat
                                 /\ given'[m] = given[m] + (IF m \in ms THEN 1 ELSE 0)
        BY <1>5, <2>1 DEF Drain, Held, Give, TypeOK
    <2>3. CASE ms = box /\ box' = {}
        <3>1. \A m \in box : Place(m) = "waiting" /\ Place(m)' = "given"
            BY <1>0, <2>2, <2>3, PlaceIs, PlaceIsNext DEF TypeOK, OnceInv, PlacesApart
        <3>2. \A m \in Messages \ box : Place(m)' = Place(m)
            BY <1>0, <2>2, <2>3, PlaceIs, PlaceIsNext DEF TypeOK, Gone, Opened
        <3> QED
            BY <3>1, <3>2, MoveStep DEF Moves, Legal, TypeOK
    <2>4. CASE ms = {}
        <3>1. given' = given
            BY <1>5, <2>1, <2>2, <2>4 DEF TypeOK, Give
        <3> QED
            BY <1>0, <1>5, <2>1, <2>2, <2>4, <3>1, ClaimMoves DEF Moves, TextStays
    <2> QED
        BY <2>1, <2>3, <2>4 DEF Claimed
<1>6. CASE WorkerClaims
    <2>1. PICK ms \in SUBSET box : Claimed(ms) /\ carried' = carried \cup ms
        BY <1>6 DEF WorkerClaims
    <2>2. Held' = Held \cup ms
        BY <1>6, <2>1 DEF WorkerClaims, Held
    <2> QED
        BY <1>0, <1>6, <2>1, <2>2, ClaimMoves DEF WorkerClaims, Moves, TextStays
<1>7. ASSUME NEW m \in Messages, Confirm(m) PROVE Moves
    <2>1. {m} \in SUBSET Held /\ Held' = Held \ {m}
        BY <1>7 DEF Confirm, Unconfirmed, TypeOK, OnceInv, PlacesApart, Held
    <2> QED
        BY <1>0, <1>7, <2>1, GiveMoves DEF Confirm, Moves, TextStays
<1>8. CASE WorkerEnds \/ WorkerDies
    <2>1. carried \in SUBSET Held /\ Held' = Held \ carried
        BY <1>8 DEF WorkerEnds, WorkerDies, TypeOK, OnceInv, PlacesApart, Held
    <2> QED
        BY <1>0, <1>8, <2>1, DropMoves DEF WorkerEnds, WorkerDies, Moves, TextStays
<1>9. CASE WorkerPauses
    <2>1. Held' = Held
        BY <1>9 DEF WorkerPauses, Unseen, TypeOK, Held
    <2> QED
        BY <1>0, <1>9, <2>1, NothingMoves DEF WorkerPauses, Moves, TextStays
<1>10. CASE Quiet \/ HandBack
    <2>1. /\ unseen' \in {unseen, {}}
          /\ UNCHANGED <<sent, box, asked, brief, carried, late, given, told>>
        BY <1>10 DEF Quiet, HandBack
    <2>2. \/ Held' = Held
          \/ unseen \in SUBSET Held /\ Held' = Held \ unseen
        BY <1>10, <2>1 DEF Quiet, HandBack, TypeOK, OnceInv, PlacesApart, Held
    <2> QED
        BY <1>0, <2>1, <2>2, NothingMoves, DropMoves DEF Moves, TextStays
<1>11. ASSUME NEW m \in Messages, Return(m) PROVE Moves
    <2>1. m \in Held /\ Held' = Held \ {m}
        BY <1>11 DEF Return, TypeOK, OnceInv, PlacesApart, Held
    <2>2. CASE box' = box \cup {m} /\ UNCHANGED told
        BY <1>0, <1>11, <2>1, <2>2, PutBackMoves DEF Return, Moves, TextStays
    <2>3. CASE told' = told \cup {m} /\ UNCHANGED box
        <3>1. {m} \in SUBSET Held
            BY <2>1
        <3> QED
            BY <1>0, <1>11, <2>1, <2>3, <3>1, TellMoves DEF Return, Moves, TextStays
    <2> QED
        BY <1>11, <2>2, <2>3 DEF Return
<1>12. CASE ClaimLate
    <2>1. PICK ms \in SUBSET box : Claimed(ms) /\ late' = ms
        BY <1>12 DEF ClaimLate
    <2>2. Held' = Held \cup ms
        BY <1>12, <2>1 DEF ClaimLate, TypeOK, Held
    <2> QED
        BY <1>0, <1>12, <2>1, <2>2, ClaimMoves DEF ClaimLate, Moves, TextStays
<1>13. CASE Reopen
    <2>1. CASE text' = late /\ UNCHANGED told
        BY <1>0, <1>13, <2>1, OpenMoves DEF Moves
    <2>2. CASE told' = told \cup late /\ UNCHANGED text
        <3>1. late \in SUBSET Held /\ Held' = Held \ late
            BY <1>13, <2>2 DEF Reopen, TypeOK, OnceInv, PlacesApart, Held
        <3> QED
            BY <1>0, <1>13, <2>2, <3>1, TellMoves DEF Reopen, Moves, TextStays
    <2> QED
        BY <1>13, <2>1, <2>2 DEF Reopen
<1>14. CASE Kill
    <2> DEFINE ms == brief \cup carried \cup unseen \cup late
    <2>1. ms \in SUBSET Held /\ Held' = Held \ ms
        BY <1>14 DEF Kill, OnceInv, PlacesApart, Held
    <2> QED
        BY <1>0, <1>14, <2>1, DropMoves DEF Kill, Moves, TextStays
<1> QED
    BY <1>1, <1>2, <1>3, <1>4, <1>5, <1>6, <1>7, <1>8, <1>9, <1>10, <1>11,
       <1>12, <1>13, <1>14
    DEF Moves, Next, Person, Executor, Worker, Finish

\* The steering messages of a task follow the abstract mailbox: what a claim
\* has brought to a model never waits, is held or opens a run again, what opens
\* a run stays its opening until the next is opened and is not lost, and what
\* is lost stays lost.
THEOREM ImplementsMailbox == Spec => MailboxSpec
<1>1. ASSUME Init PROVE Promise!Init
    <2>1. \A m \in Messages : Place(m) = "unsent"
        BY <1>1, PlaceIs, TypeInitial, OnceInitial DEF Init
    <2> QED
        BY <2>1 DEF Promise!Init
<1>2. Init => TextIsRead
    BY DEF Init, TextIsRead
<1> QED
    BY <1>1, <1>2, TypeInitial, TypePreserved, OnceInitial, OncePreserved, ReadPreserved,
       MailboxStep, PTL DEF Spec, MailboxSpec, Promise!Spec

----------------------------------------------------------------------------
(* What may be lost, and what may be left.  An accident excuses for good; a *)
(* cancelled row does so only because the executor that dropped a message  *)
(* for it is on its way to leave the task, and so is not the one that opens *)
(* a run of a cancelled task again.                                        *)

Stricken == \E a \in {"kill", "answer", "worker", "handback"} : hit[a] > 0

Leaving == row = "cancelled" /\ pc \in {"quiet", "fail", "idle"}

LostInv == \A m \in Messages : Gone(m) => Stricken \/ Leaving

LEMMA AccidentCounts ==
    ASSUME TypeOK, NEW a, Accident(a)
    PROVE  /\ a \in Accidents
           /\ hit' = [b \in Accidents |-> IF b = a THEN hit[b] + 1 ELSE hit[b]]
BY MessagesAssumption DEF Accident, TypeOK

\* No step takes an accident back.
LEMMA HitGrows ==
    ASSUME TypeOK, [Next]_vars
    PROVE  \A a \in Accidents : hit[a] \in Nat /\ hit'[a] \in Nat /\ hit'[a] >= hit[a]
<1>1. \/ hit' = hit
      \/ \E a \in Accidents : Accident(a)
    BY DEF Next, Person, Send, Pause, Resume, Cancel, Executor, Claim, OpeningDrain,
       Claimed, Start, Drain, StartWorker, Worker, WorkerClaims, WorkerEnds, WorkerDies,
       WorkerPauses, Confirm, RunEnds, Finish, Quiet, Looked, HandBack, Returned, PutBack,
       Fail, Report, ClaimLate, Reopen, Return, Recover, Kill, Over, vars, Accepted,
       Refused, Accidents
<1>2. CASE hit' = hit
    BY <1>2 DEF TypeOK
<1>3. ASSUME NEW a \in Accidents, Accident(a)
      PROVE  \A b \in Accidents : hit[b] \in Nat /\ hit'[b] \in Nat /\ hit'[b] >= hit[b]
    BY <1>3, AccidentCounts DEF TypeOK
<1> QED
    BY <1>1, <1>2, <1>3

LEMMA StrickenStays ==
    ASSUME TypeOK, [Next]_vars, Stricken
    PROVE  Stricken'
BY HitGrows DEF Stricken, Accidents

\* An executor that is leaving a cancelled task does not come back to it,
\* unless it is killed.
LEMMA LeavingStays ==
    ASSUME TypeOK, [Next]_vars, Leaving
    PROVE  (Stricken \/ Leaving)'
<1>1. CASE Quiet \/ Fail
    BY <1>1 DEF Leaving, Quiet, Fail, Written
<1>2. CASE Person \/ Over \/ UNCHANGED vars
    BY <1>2 DEF Leaving, Person, Send, Pause, Resume, Cancel, Over, vars
<1>3. ~Executor \/ Quiet \/ Fail
    BY DEF Leaving, Executor, Claim, OpeningDrain, Start, Drain, StartWorker, Worker,
       WorkerClaims, WorkerEnds, WorkerDies, WorkerPauses, Confirm, RunEnds, Finish,
       Looked, HandBack, Returned, PutBack, Report, ClaimLate, Reopen, Return, Recover
<1>4. CASE Kill
    BY <1>4, AccidentCounts DEF Stricken, Kill, TypeOK
<1> QED
    BY <1>1, <1>2, <1>3, <1>4 DEF Next

\* Every step of which a message is lost that was not, strikes or leaves.
LEMMA LossIsExcused ==
    ASSUME TypeOK, OnceInv, TextIsRead, TypeOK', OnceInv', [Next]_vars,
           NEW m \in Messages, ~Gone(m), Gone(m)'
    PROVE  (Stricken \/ Leaving)'
<1>1. \A a \in {"kill", "answer", "worker", "handback"} : Accident(a) => Stricken'
    BY AccidentCounts DEF Stricken, TypeOK
<1>2. CASE Person
    BY <1>2 DEF Gone, Opened, Person, Send, Pause, Resume, Cancel, Held
<1>3. CASE Claim \/ StartWorker \/ RunEnds \/ Recover \/ Over \/ UNCHANGED vars
    BY <1>3 DEF Gone, Opened, Held, Claim, StartWorker, RunEnds, Recover, Over, vars
<1>4. CASE OpeningDrain \/ WorkerClaims \/ ClaimLate
    BY <1>1, <1>4 DEF Gone, Opened, Held, OpeningDrain, WorkerClaims, ClaimLate, Claimed, TypeOK
<1>5. CASE Start
    BY <1>5 DEF Gone, Opened, Held, Start, Give, TypeOK
<1>6. CASE Drain
    <2>1. PICK ms \in SUBSET box : Claimed(ms) /\ Give(ms)
        BY <1>6 DEF Drain
    <2>2. given'[m] = given[m] + (IF m \in ms THEN 1 ELSE 0) /\ given[m] \in Nat
        BY <2>1 DEF Give, TypeOK
    <2>3. m \notin ms
        BY <2>2 DEF Gone
    <2>4. m \in box /\ m \notin box'
        BY <1>6, <2>2, <2>3 DEF Gone, Opened, Held, Drain
    <2> QED
        BY <1>1, <2>1, <2>3, <2>4 DEF Claimed
<1>7. CASE WorkerEnds \/ WorkerDies
    BY <1>1, <1>7 DEF Gone, Opened, Held, WorkerEnds, WorkerDies, Leaving
<1>14. CASE WorkerPauses
    BY <1>14 DEF Gone, Opened, Held, WorkerPauses, Unseen, TypeOK
<1>8. ASSUME NEW k \in Messages, Confirm(k) PROVE (Stricken \/ Leaving)'
    BY <1>8 DEF Gone, Opened, Held, Confirm, Unconfirmed, Give, TypeOK
<1>9. CASE Quiet \/ HandBack
    BY <1>1, <1>9 DEF Gone, Opened, Held, Quiet, HandBack, Leaving, TypeOK, AfterPutBack
<1>10. CASE Looked \/ Returned \/ PutBack \/ Fail \/ Report
    BY <1>10 DEF Gone, Opened, Held, Looked, Returned, PutBack, Fail, Report
<1>11. CASE Reopen
    BY <1>11 DEF Gone, Opened, Held, TextIsRead, Reopen
<1>12. ASSUME NEW k \in Messages, Return(k) PROVE (Stricken \/ Leaving)'
    BY <1>12 DEF Gone, Opened, Held, Return
<1>13. CASE Kill
    BY <1>1, <1>13 DEF Kill
<1> QED
    BY <1>2, <1>3, <1>4, <1>5, <1>6, <1>7, <1>8, <1>9, <1>10, <1>11, <1>12, <1>13,
       <1>14
    DEF Next, Executor, Worker, Finish

LEMMA LostPreserved ==
    TypeOK /\ OnceInv /\ TextIsRead /\ LostInv /\ [Next]_vars => LostInv'
<1> SUFFICES ASSUME TypeOK, OnceInv, TextIsRead, LostInv, [Next]_vars,
                    NEW m \in Messages, Gone(m)'
             PROVE  (Stricken \/ Leaving)'
    BY DEF LostInv
<1>1. TypeOK' /\ OnceInv'
    BY TypePreserved, OncePreserved
<1>2. CASE Gone(m)
    BY <1>2, StrickenStays, LeavingStays DEF LostInv
<1>3. CASE ~Gone(m)
    BY <1>1, <1>3, LossIsExcused
<1> QED
    BY <1>2, <1>3

\* A message is lost only with a kill, an answer that did not come, a worker
\* that died, a refused hand-back, or a task that was cancelled: a pause, a
\* limit and the refusal of any other write lose nothing.
THEOREM LossHasACause == Spec => []NothingIsLost
<1>1. Init => LostInv
    BY DEF Init, LostInv, Gone
<1>2. TypeOK /\ OnceInv /\ LostInv => NothingIsLost
    <2> SUFFICES ASSUME TypeOK, OnceInv, LostInv, NEW m \in Messages, Place(m) = "lost"
                 PROVE  row = "cancelled" \/ Stricken
        BY DEF NothingIsLost, LostIn, Stricken
    <2>1. Gone(m)
        BY PlaceIs DEF Gone, Opened
    <2> QED
        BY <2>1 DEF LostInv, Leaving
<1>3. Init => TextIsRead
    BY DEF Init, TextIsRead
<1> QED
    BY <1>1, <1>2, <1>3, TypeInitial, TypePreserved, OnceInitial, OncePreserved,
       ReadPreserved, LostPreserved, PTL DEF Spec

\* A task that is done is still to have its late messages claimed, or has
\* none.
LeftoversInv == row = "done" => pc = "late" \/ box = {} \/ Interrupted

LEMMA InterruptedStays ==
    ASSUME TypeOK, [Next]_vars, Interrupted
    PROVE  Interrupted'
BY HitGrows DEF Interrupted, Accidents

LEMMA LeftoversPreserved == TypeOK /\ LeftoversInv /\ [Next]_vars => LeftoversInv'
<1> SUFFICES ASSUME TypeOK, LeftoversInv, [Next]_vars, row' = "done", ~Interrupted'
             PROVE  pc' = "late" \/ box' = {}
    BY DEF LeftoversInv
<1>1. ~Interrupted
    BY InterruptedStays
<1>2. \A a \in {"kill", "answer"} : ~Accident(a)
    BY AccidentCounts DEF Interrupted, TypeOK, Accidents
<1>3. CASE Report
    BY <1>3 DEF Report, AfterReport
<1>4. CASE ~Report /\ row = "done"
    BY <1>1, <1>2, <1>4 DEF LeftoversInv, Next, Person, Send, Pause, Resume, Cancel,
       Executor, Claim, OpeningDrain, Claimed, Start, Drain, StartWorker, Worker,
       WorkerClaims, WorkerEnds, WorkerDies, WorkerPauses, Confirm, RunEnds, Finish,
       Quiet, Looked, HandBack, Returned, PutBack, Fail, ClaimLate, Reopen, Return,
       Recover, Kill, Over, vars
<1>5. CASE ~Report /\ row # "done"
    BY <1>5 DEF Next, Person, Send, Pause, Resume, Cancel, Executor, Claim, OpeningDrain,
       Start, Drain, StartWorker, Worker, WorkerClaims, WorkerEnds, WorkerDies,
       WorkerPauses, Confirm, RunEnds, Finish, Quiet, Looked, HandBack, Returned, PutBack,
       Fail, Written, ClaimLate, Reopen, Return, Recover, Kill, Over, vars
<1> QED
    BY <1>3, <1>4, <1>5

\* When the executor has reported a run and is free, no message is left on
\* the finished task, unless a kill or a lost answer kept it from them.
THEOREM NothingIsLeft == Spec => []ReportTakesLeftovers
<1>1. Init => LeftoversInv
    BY DEF Init, LeftoversInv
<1>2. LeftoversInv => ReportTakesLeftovers
    BY DEF LeftoversInv, ReportTakesLeftovers
<1> QED
    BY <1>1, <1>2, TypeInitial, TypePreserved, LeftoversPreserved, PTL DEF Spec
============================================================================
