--------------------------- MODULE TaskMessages ---------------------------
(* The steering messages of one task: a person sends them while the task   *)
(* is queued or runs, and the executor (executor.py, executor_pauses.py,   *)
(* executor_reporting.py) claims them for the run's first prompt, for its  *)
(* later steps, for a live deep worker, and, when it has reported, for a   *)
(* new run of the task.                                                    *)
EXTENDS Naturals, FiniteSets

CONSTANTS
    Messages,
    MayHappen,     \* the kinds of accident of an instance
    MaxAccidents   \* accidents in a behaviour: the model's bound

\* A kill of the process, a claim whose answer does not come, a deep worker
\* that dies, a hand-back that is refused, and another write that is.
Accidents == {"kill", "answer", "worker", "handback", "refused"}

ASSUME MessagesAssumption ==
    IsFiniteSet(Messages) /\ MayHappen \subseteq Accidents /\ MaxAccidents \in Nat

VARIABLES
    row,       \* the task's status: "done" stands for all that report writes
    hold,      \* its pause_requested
    sent,      \* messages the person has sent
    box,       \* messages on the task that nobody has claimed
    text,      \* messages the task's text is made of: every run of it reads them
    shown,     \* messages a model has read in that text (history)
    pc,        \* the executor
    brief,     \* claimed for the first prompt of this run
    carried,   \* claimed by the deep worker and not confirmed
    unseen,    \* unseen_inputs of a paused worker
    late,      \* claimed after the report
    given,     \* how often a claim of a message reached a model (history)
    told,      \* messages the feed asks the person to send again
    hit        \* the accidents so far, by kind (history and bound)

taskVars == <<row, hold>>
asked    == <<text, shown>>
held     == <<brief, carried, unseen, late>>
vars == <<taskVars, sent, box, asked, held, pc, given, told, hit>>

Init ==
    /\ row = "queued" /\ hold = FALSE
    /\ sent = {} /\ box = {} /\ text = {}
    /\ pc = "idle" /\ brief = {} /\ carried = {} /\ unseen = {} /\ late = {}
    /\ given = [m \in Messages |-> 0] /\ shown = {} /\ told = {}
    /\ hit = [a \in Accidents |-> 0]

Total == hit["kill"] + hit["answer"] + hit["worker"] + hit["handback"] + hit["refused"]

Accident(a) ==
    /\ a \in MayHappen /\ Total < MaxAccidents
    /\ hit' = [hit EXCEPT ![a] = @ + 1]

\* A write is accepted, or it is refused.
Accepted == UNCHANGED hit
Refused  == Accident("refused")

----------------------------------------------------------------------------
(* The person                                                              *)

Send(m) ==
    /\ m \notin sent /\ row \in {"queued", "running"}
    /\ sent' = sent \cup {m} /\ box' = box \cup {m}
    /\ UNCHANGED <<taskVars, asked, held, pc, given, told, hit>>

Pause ==
    /\ row = "running" /\ ~hold /\ hold' = TRUE
    /\ UNCHANGED <<row, sent, box, asked, held, pc, given, told, hit>>

Resume ==
    /\ row = "queued" /\ hold /\ hold' = FALSE
    /\ UNCHANGED <<row, sent, box, asked, held, pc, given, told, hit>>

Cancel ==
    /\ row \in {"queued", "running"} /\ row' = "cancelled"
    /\ UNCHANGED <<hold, sent, box, asked, held, pc, given, told, hit>>

----------------------------------------------------------------------------
(* Claims                                                                  *)

Give(ms) == given' = [m \in Messages |-> given[m] + (IF m \in ms THEN 1 ELSE 0)]

\* The backend hands over every unclaimed message, once.  The request fails,
\* or it is applied and its answer is lost: both read as no message.
Claimed(ms) ==
    \/ ms = box /\ box' = {} /\ UNCHANGED hit
    \/ ms = {} /\ UNCHANGED box /\ Accident("answer")
    \/ ms = {} /\ box' = {} /\ Accident("answer")

\* The claim of the task: a paused one is refused.
Claim ==
    /\ pc = "idle" /\ row = "queued" /\ ~hold
    /\ row' = "running" /\ pc' = "open"
    /\ UNCHANGED <<hold, sent, box, asked, held, given, told, hit>>

\* The one initial drain goes into the first prompt,
OpeningDrain ==
    /\ pc = "open" /\ pc' = "start"
    /\ \E ms \in SUBSET box : Claimed(ms) /\ brief' = ms
    /\ UNCHANGED <<taskVars, sent, asked, carried, unseen, late, given, told>>

\* with the text of the task, which the row keeps: a run that is put back or
\* killed reads it again when it is next attempted.
Start ==
    /\ pc = "start" /\ pc' = "run"
    /\ Give(brief) /\ shown' = shown \cup text
    /\ brief' = {}
    /\ UNCHANGED <<taskVars, sent, box, text, carried, unseen, late, told, hit>>

\* pending_inputs: the planner, a retry or an improvement asks in between.
Drain ==
    /\ pc = "run" /\ box # {}
    /\ \E ms \in SUBSET box : Claimed(ms) /\ Give(ms)
    /\ UNCHANGED <<taskVars, sent, asked, held, pc, told>>

----------------------------------------------------------------------------
(* The deep worker with a live session, and its run control                *)

StartWorker ==
    /\ pc = "run" /\ pc' = "worker"
    /\ UNCHANGED <<taskVars, sent, box, asked, held, given, told, hit>>

WorkerClaims ==
    /\ pc = "worker" /\ box # {}
    /\ \E ms \in SUBSET box : Claimed(ms) /\ carried' = carried \cup ms
    /\ UNCHANGED <<taskVars, sent, asked, brief, unseen, late, pc, given, told>>

\* Mutant of Unconfirmed: the replay is not noted.
StillCarried(m) == carried

Unconfirmed(m) == carried \ {m}

\* The worker's model has replayed a message.
Confirm(m) ==
    /\ pc = "worker" /\ m \in carried
    /\ carried' = Unconfirmed(m)
    /\ Give({m})
    /\ UNCHANGED <<taskVars, sent, box, asked, brief, unseen, late, pc, told, hit>>

\* It ends when every message was replayed, and the run goes on; it is
\* stopped when the task is cancelled.
WorkerEnds ==
    /\ pc = "worker"
    /\ \/ carried = {} /\ pc' = "run"
       \/ row = "cancelled" /\ pc' = "quiet"
    /\ carried' = {}
    /\ UNCHANGED <<taskVars, sent, box, asked, brief, unseen, late, given, told, hit>>

\* It dies, and no reader of its result asks for the messages it had.
WorkerDies ==
    /\ pc = "worker" /\ pc' = "run" /\ Accident("worker")
    /\ carried' = {}
    /\ UNCHANGED <<taskVars, sent, box, asked, brief, unseen, late, given, told>>

\* Mutant of Unseen: a paused run hands over all it has had.
AllOfThem == carried \cup {m \in Messages : given[m] > 0}

\* A paused worker names what its model did not confirm.
Unseen == carried

WorkerPauses ==
    /\ pc = "worker" /\ hold /\ pc' = "pause"
    /\ unseen' = Unseen /\ carried' = {}
    /\ UNCHANGED <<taskVars, sent, box, asked, brief, late, given, told, hit>>

----------------------------------------------------------------------------
(* The end of a run                                                        *)

\* A result, an exception, or a usage limit or an outage.
RunEnds ==
    /\ pc = "run" /\ pc' \in {"report", "raised", "limited"}
    /\ UNCHANGED <<taskVars, sent, box, asked, held, given, told, hit>>

\* The look at the row before each way to end: a cancelled task is left.
Quiet ==
    /\ pc = "quiet" \/ (pc \in {"pause", "report", "raised"} /\ row = "cancelled")
    /\ pc' = "idle" /\ unseen' = {}
    /\ UNCHANGED <<taskVars, sent, box, asked, brief, carried, late, given, told, hit>>

\* A cancelled row refuses every other status.
Written(status) == row' = IF row = "cancelled" THEN row ELSE status

\* The row was not cancelled when it was looked at.
Looked ==
    /\ pc \in {"pause", "report", "raised"} /\ row # "cancelled"
    /\ pc' = CASE pc = "pause" -> "handback" [] pc = "report" -> "write"
               [] pc = "raised" -> "fail"
    /\ UNCHANGED <<taskVars, sent, box, asked, held, given, told, hit>>

\* Mutant of AfterPutBack: what was not confirmed is not returned.
Forget == "idle"

AfterPutBack == "return"

\* The hand-back of a paused task; when it is refused the task is failed.
HandBack ==
    /\ pc = "handback"
    /\ \/ Accepted /\ row # "cancelled"
          /\ row' = "queued" /\ pc' = AfterPutBack
          /\ unseen' = IF pc' = "return" THEN unseen ELSE {}
       \/ Accident("handback") /\ unseen' = {} /\ pc' = "fail" /\ UNCHANGED row
       \/ row = "cancelled" /\ unseen' = {} /\ pc' = "fail" /\ UNCHANGED <<row, hit>>
    /\ UNCHANGED <<hold, sent, box, asked, brief, carried, late, given, told>>

\* Mutant of Return: the first message that is refused ends the loop.
ReturnUntilRefused(m) ==
    /\ pc = "return" /\ m \in unseen
    /\ unseen' = unseen \ {m}
    /\ \/ Accepted /\ row \in {"queued", "running"}
          /\ box' = box \cup {m} /\ UNCHANGED <<told, pc>>
       \/ Refused /\ told' = told \cup {m} /\ pc' = "idle" /\ UNCHANGED box
    /\ UNCHANGED <<taskVars, sent, asked, brief, carried, late, given>>

\* Each message goes back on the task, or the feed quotes it.
Return(m) ==
    /\ pc = "return" /\ m \in unseen
    /\ unseen' = unseen \ {m}
    /\ \/ Accepted /\ row \in {"queued", "running"}
          /\ box' = box \cup {m} /\ UNCHANGED told
       \/ Refused /\ told' = told \cup {m} /\ UNCHANGED box
       \/ row \notin {"queued", "running"} /\ told' = told \cup {m}
          /\ UNCHANGED <<box, hit>>
    /\ UNCHANGED <<taskVars, sent, asked, brief, carried, late, pc, given>>

Returned ==
    /\ pc = "return" /\ unseen = {} /\ pc' = "idle"
    /\ UNCHANGED <<taskVars, sent, box, asked, held, given, told, hit>>

\* A limit or an outage: the task waits in the queue, or is failed.
PutBack ==
    /\ pc = "limited"
    /\ \/ Accepted /\ Written("queued") /\ pc' = "idle"
       \/ Refused /\ UNCHANGED row /\ pc' = "fail"
    /\ UNCHANGED <<hold, sent, box, asked, held, given, told>>

\* report_failed, outside report: the row is failed, or stays as it was.
Fail ==
    /\ pc = "fail" /\ pc' = "idle"
    /\ \/ Accepted /\ Written("failed")
       \/ Refused /\ UNCHANGED row
    /\ UNCHANGED <<hold, sent, box, asked, held, given, told>>

\* Mutant of AfterReport: messages that came late are left on the task.
LeaveThem == "idle"

AfterReport == "late"

Report ==
    /\ pc = "write" /\ pc' = AfterReport
    /\ \/ Accepted /\ Written("done")
       \/ Refused /\ UNCHANGED row
    /\ UNCHANGED <<hold, sent, box, asked, held, given, told>>

\* What the run never folded in is claimed when the report is out,
ClaimLate ==
    /\ pc = "late"
    /\ \E ms \in SUBSET box :
           Claimed(ms) /\ late' = ms /\ pc' = IF ms = {} THEN "idle" ELSE "reopen"
    /\ UNCHANGED <<taskVars, sent, asked, brief, carried, unseen, given, told>>

\* and are the text of a new run of the finished task, in place of the text it
\* had, or the feed says to send them again.
Reopen ==
    /\ pc = "reopen" /\ pc' = "idle" /\ late' = {}
    /\ \/ Accepted /\ row \in {"done", "failed", "cancelled"}
          /\ row' = "queued" /\ text' = late /\ UNCHANGED told
       \/ Refused /\ told' = told \cup late /\ UNCHANGED <<row, text>>
       \/ row \notin {"done", "failed"} /\ told' = told \cup late
          /\ UNCHANGED <<row, text, hit>>
    /\ UNCHANGED <<hold, sent, box, shown, brief, carried, unseen, given>>

----------------------------------------------------------------------------
\* The process dies with what it holds; the next one puts the task back.
Kill ==
    /\ pc \notin {"idle", "dead"} /\ pc' = "dead" /\ Accident("kill")
    /\ brief' = {} /\ carried' = {} /\ unseen' = {} /\ late' = {}
    /\ UNCHANGED <<taskVars, sent, box, asked, given, told>>

Recover ==
    /\ pc = "dead" /\ pc' = "idle"
    /\ row' = IF row = "running" THEN "queued" ELSE row
    /\ UNCHANGED <<hold, sent, box, asked, held, given, told, hit>>

\* The row is nobody's any more.
Over == pc = "idle" /\ row \in {"running", "done", "failed", "cancelled"} /\ UNCHANGED vars

Person == (\E m \in Messages : Send(m)) \/ Pause \/ Resume \/ Cancel

Worker ==
    \/ WorkerClaims \/ WorkerEnds \/ WorkerDies \/ WorkerPauses
    \/ \E m \in Messages : Confirm(m)

Finish ==
    \/ Quiet \/ Looked \/ HandBack \/ Returned \/ PutBack \/ Fail \/ Report
    \/ ClaimLate \/ Reopen \/ \E m \in Messages : Return(m)

Executor ==
    \/ Claim \/ OpeningDrain \/ Start \/ Drain \/ StartWorker \/ Worker
    \/ RunEnds \/ Finish \/ Recover

Next == Person \/ Executor \/ Kill \/ Over

Spec == Init /\ [][Next]_vars

\* The lane runs on, a worker ends, a run ends, and a person lifts the pause.
Fairness ==
    /\ WF_vars(Claim) /\ WF_vars(OpeningDrain) /\ WF_vars(Start)
    /\ WF_vars(Worker) /\ SF_vars(RunEnds)
    /\ WF_vars(Finish) /\ WF_vars(Recover) /\ WF_vars(Resume)

FairSpec == Spec /\ Fairness

----------------------------------------------------------------------------
(* Properties                                                              *)

Held == brief \cup carried \cup unseen \cup late

\* Every variable has its type; only a run that was claimed holds messages.
TypeOK ==
    /\ row \in {"queued", "running", "done", "failed", "cancelled"}
    /\ hold \in BOOLEAN
    /\ sent \subseteq Messages /\ told \subseteq sent /\ box \subseteq sent
    /\ Held \subseteq sent /\ text \subseteq sent /\ shown \subseteq sent
    /\ pc \in {"idle", "dead", "open", "start", "run", "worker", "quiet", "pause",
               "report", "raised", "limited", "handback", "return", "fail",
               "write", "late", "reopen"}
    /\ given \in [Messages -> Nat] /\ hit \in [Accidents -> Nat]
    /\ pc # "start" => brief = {}
    /\ pc # "worker" => carried = {}
    /\ pc \notin {"pause", "handback", "return"} => unseen = {}
    /\ pc # "reopen" => late = {}

\* Where a message is: a message put back is on the task again, whatever was
\* done with it before.
Place(m) ==
    CASE m \notin sent -> "unsent"
      [] m \in box     -> "waiting"
      [] m \in Held    -> "held"
      [] m \in text    -> "opening"
      [] m \in told    -> "told"
      [] given[m] > 0 \/ m \in shown \ text -> "given"
      [] OTHER         -> "lost"

Promise == INSTANCE Mailbox WITH place <- [m \in Messages |-> Place(m)]

\* Through pauses, resumes, late messages, new runs and kills, a message
\* follows Mailbox: one whose claim has reached a model never waits, is held,
\* opens a run or is announced as undelivered again; one that opened a run
\* stays its opening, through all attempts at it, until another run is opened,
\* and cannot be lost; and one that is lost never comes back.
MailboxSpec == Promise!Spec

\* No claim gives a model a thing twice: the claims of the prompt, the steps,
\* the worker and the late messages, and what a pause puts back, do not
\* overlap, neither with each other nor with the text of any run.  A message
\* that opened a run is not given once only: the row keeps its text
\* (executor.py:92-94), and each attempt at that run reads it again.
GivenOnce ==
    \A m \in Messages :
        given[m] <= 1 /\ (given[m] = 1 => m \notin text \cup shown)

\* executor_pauses.py:51 "Messages are never lost": of a task that nobody
\* cancels, as far as the code keeps it.  A pause, a limit and the refusal of
\* a message, a report or a new run lose nothing; a kill, a claim whose answer
\* was lost, a worker that died with it and a refused hand-back may.
LostIn(kinds) ==
    \A m \in Messages :
        Place(m) = "lost" => row = "cancelled" \/ \E a \in kinds : hit[a] > 0

NothingIsLost == LostIn({"kill", "answer", "worker", "handback"})

\* A kill or a lost answer may keep the executor from the late messages.
Interrupted == hit["answer"] + hit["kill"] > 0

\* executor_reporting.py:57 "or it sits on a finished task forever": when the
\* executor has reported a run, nothing that was sent to it is left behind.
ReportTakesLeftovers ==
    row = "done" /\ pc = "idle" => box = {} \/ Interrupted

\* Nobody works on it any more, or will.
GivenUp == row \in {"cancelled", "failed"} \/ (row = "running" /\ pc = "idle")

\* A message a person sends to a task that is not failed or cancelled, and
\* whose run is not given up, is taken by some run in the end.
MessageIsTaken ==
    \A m \in Messages : m \in box ~> m \notin box \/ GivenUp \/ Interrupted
==========================================================================
