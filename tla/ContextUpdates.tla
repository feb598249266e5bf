-------------------------- MODULE ContextUpdates --------------------------
(* What people wrote, on its way to the runs of one quest: UpdateEngine    *)
(* (context_updates.py) collects what came since the watermark and what is *)
(* still owed, a run or an autopilot pass is handed it, mark_seen moves    *)
(* the watermark, opens ledger rows and relays mail as notes               *)
(* (context_update_bundle.py), and the run's report closes rows            *)
(* (feedback_ledger.py).  The threads share one engine and one ledger; the *)
(* ledger's file is shared with another process, in which people work.     *)
EXTENDS Naturals, FiniteSets, Functions

CONSTANTS
    Items,         \* mails to the mailbox of the quest, with a text and a
                   \* sender: asks that are relayed
    Threads,       \* worker threads of the lane
    Batches,       \* the tasks a pass composes: the model's bound
    MaxUpdates,    \* MAX_UPDATES: the cap of a bundle
    MayHappen,     \* the kinds of accident of an instance
    MaxAccidents   \* accidents in a behaviour: the model's bound

\* A kill; a request whose answer does not come; a source that raises; a mail
\* read that comes back short without a word; and a task of a pass that is run
\* before the pass is through.
Accidents == {"kill", "answer", "source", "short", "early"}

ASSUME UpdatesAssumption ==
    /\ IsFiniteSet(Items) /\ IsFiniteSet(Threads) /\ IsFiniteSet(Batches)
    /\ {"task", "pass"} \cap Batches = {}
    /\ MaxUpdates \in Nat \ {0} /\ MayHappen \subseteq Accidents /\ MaxAccidents \in Nat

VARIABLES
    at,        \* when an item was written, 0 for not yet
    mark,      \* the watermark of the mailbox, on disk and in memory
    file,      \* the ledger's file: the row of an item, a request or a rule:
               \* owed (open, part), closed (done, force), set by a person (held)
    mem,       \* the ledger as the lane last read or wrote it
    relayed,   \* RelayedItems
    notes,     \* how often an item is on the quest as a note
    task,      \* the composed tasks: status, items in the text, offer
    pc,        \* the threads
    work,      \* what a thread has in hand
    fate,      \* the most that was done with an item (history)
    finished,  \* items whose last account is "done" (history)
    hit        \* the accidents so far, by kind (history and bound)

ledger  == <<file, mem>>
history == <<fate, finished>>
vars == <<at, mark, ledger, relayed, notes, task, pc, work, history, hit>>

\* Nothing yet, missed by a read that reported no error, dropped by the
\* admission judge, cut off by the cap, given to a run or a created task.
Fates == <<"none", "missed", "aside", "cut", "given">>
Rank(f) == CHOOSE n \in DOMAIN Fates : Fates[n] = f

\* The items get this far, if they did not get farther.
Get(was, items, f) ==
    [i \in Items |-> IF i \in items /\ Rank(was[i]) < Rank(f) THEN f ELSE was[i]]

NoTask == [status |-> "none", text |-> {}, offer |-> {}]

\* job: a task of the quest, a pass, or a composed task; stamp: collected_at
\* of its bundle, 0 when the source failed; items: of its bundle or offer;
\* todo: those its loop has still to look at; gave: a pass created a task
\* that carries its updates.
NoWork == [job |-> "task", stamp |-> 0, items |-> {}, todo |-> {}, gave |-> FALSE]

Init ==
    /\ at = [i \in Items |-> 0] /\ notes = [i \in Items |-> 0]
    /\ task = [b \in Batches |-> NoTask]
    /\ mark = 0 /\ relayed = {}
    /\ file = [i \in Items |-> "none"] /\ mem = [i \in Items |-> "none"]
    /\ pc = [t \in Threads |-> "idle"] /\ work = [t \in Threads |-> NoWork]
    /\ fate = [i \in Items |-> "none"] /\ finished = {}
    /\ hit = [a \in Accidents |-> 0]

Total == hit["kill"] + hit["answer"] + hit["source"] + hit["short"] + hit["early"]

Accident(a) ==
    /\ a \in MayHappen /\ Total < MaxAccidents
    /\ hit' = [hit EXCEPT ![a] = @ + 1]

Written == {i \in Items : at[i] > 0}
Now     == Cardinality(Written)

\* A thread goes on with what it has in hand, or is done with it.
GoOn(t, step, w) ==
    /\ pc' = [pc EXCEPT ![t] = step]
    /\ work' = [work EXCEPT ![t] = IF step = "idle" THEN NoWork ELSE w]

\* Bundles are ordered newest first.
First(t) == CHOOSE i \in work[t].todo : \A k \in work[t].todo : at[k] <= at[i]
Rest(t)  == [work[t] EXCEPT !.todo = @ \ {First(t)}]
All(t)   == [work[t] EXCEPT !.todo = work[t].items]

\* A loop over the items looks at the next one, or is through.
Loop(t, step, after) ==
    IF work[t].todo = {First(t)} THEN GoOn(t, after, All(t)) ELSE GoOn(t, step, Rest(t))

----------------------------------------------------------------------------
(* People                                                                  *)

Write(i) ==
    /\ at[i] = 0
    /\ at' = [at EXCEPT ![i] = Now + 1]
    /\ UNCHANGED <<mark, ledger, relayed, notes, task, pc, work, history, hit>>

\* A person settles an item, in the other process.  The lane does not know of
\* it until it reads the file, which it does before every use of its rows but
\* the save of a card.
Settle(i) ==
    /\ file[i] \notin {"none", "held"}
    /\ file' = [file EXCEPT ![i] = "held"]
    /\ mem' = IF \E t \in Threads : pc[t] = "card" THEN mem ELSE file'
    /\ UNCHANGED <<at, mark, relayed, notes, task, pc, work, history, hit>>

----------------------------------------------------------------------------
(* Collecting                                                              *)

\* A run of a task on the quest, or a pass over it, asks the engine.
Begin(t, j) ==
    /\ pc[t] = "idle"
    /\ j = "pass" => \E b \in Batches : task[b].status = "none"
    /\ GoOn(t, "read", [NoWork EXCEPT !.job = j, !.stamp = Now])
    /\ UNCHANGED <<at, mark, ledger, relayed, notes, task, history, hit>>

News == {i \in Written : at[i] > mark}

\* Mutant of OnRecord: a source that failed counts as read.
ReadAnyhow(t) == work[t].stamp

\* What mark_seen is told of a source that could not be read.
OnRecord(t) == 0

\* What the mail client finds: all the news; or less of it, when there is no
\* token, when the listing or the read of a mail fails, or when newer mail
\* fills its cap of 25.  The source's report has no error then, and the bundle
\* keeps its stamp.
Finds(found) ==
    \/ found = News /\ UNCHANGED hit
    \/ found # News /\ Accident("short")

\* The source is read since the watermark, and a judge drops what no person
\* wrote; or it raises.
Read(t) ==
    /\ pc[t] = "read"
    /\ \/ \E found \in SUBSET News : \E admitted \in SUBSET found :
             /\ Finds(found)
             /\ GoOn(t, "owed", [work[t] EXCEPT !.items = admitted])
             /\ fate' = Get(Get(fate, News \ found, "missed"), found \ admitted, "aside")
       \/ /\ Accident("source")
          /\ GoOn(t, "owed", [work[t] EXCEPT !.stamp = OnRecord(t)])
          /\ UNCHANGED fate
    /\ UNCHANGED <<at, mark, ledger, relayed, notes, task, finished>>

\* The states of a row that is still owed something.
OpenStates == {"open", "part"}

\* All of them wait for an answer: the newest are kept.
Capped(items) ==
    {i \in items : Cardinality({k \in items : at[k] > at[i]}) < MaxUpdates}

\* What is owed from before comes in, as the ledger's file has it, and the
\* bundle is cut to its cap.  The run of a task is then handed it.
AddOwed(t) ==
    LET all  == work[t].items \cup {i \in Items : file[i] \in OpenStates}
        kept == Capped(all)
        runs == work[t].job = "task"
    IN /\ pc[t] = "owed"
       /\ mem' = file
       /\ fate' = LET cut == Get(fate, all \ kept, "cut") IN
                  IF runs THEN Get(cut, kept, "given") ELSE cut
       /\ GoOn(t, IF runs THEN "run" ELSE "compose", [work[t] EXCEPT !.items = kept])
       /\ UNCHANGED <<at, mark, file, relayed, notes, task, finished, hit>>

----------------------------------------------------------------------------
(* A pass composes tasks that carry the bundle                             *)

Create(t, b) ==
    /\ pc[t] = "compose" /\ task[b].status = "none" /\ \A u \in Threads : work[u].job # b
    /\ task' = [task EXCEPT ![b] =
                    [status |-> "queued", text |-> work[t].items, offer |-> {}]]
    /\ fate' = Get(fate, work[t].items, "given")
    /\ GoOn(t, "offer", [work[t] EXCEPT !.job = b])
    /\ UNCHANGED <<at, mark, ledger, relayed, notes, finished, hit>>

\* Mutant of OfferOf: the map from refs to items is lost with the pass.
Forgotten(t) == {}

OfferOf(t) == work[t].items

\* remember_offer: which item each ref of the task's text was.
RememberOffer(t) ==
    /\ pc[t] = "offer"
    /\ task' = [task EXCEPT ![work[t].job].offer = OfferOf(t)]
    /\ mem' = file
    /\ GoOn(t, "compose", [work[t] EXCEPT !.job = "pass", !.gave = work[t].items # {}])
    /\ UNCHANGED <<at, mark, file, relayed, notes, history, hit>>

\* Mutant of AfterComposing: a bundle no task carries is marked.
MarkAnyhow(t) == "mark"

AfterComposing(t) == IF work[t].gave THEN "mark" ELSE "idle"

\* No more characters, no budget, or a task that could not be created.
Composed(t) ==
    /\ pc[t] = "compose"
    /\ GoOn(t, AfterComposing(t), work[t])
    /\ UNCHANGED <<at, mark, ledger, relayed, notes, task, history, hit>>

----------------------------------------------------------------------------
(* Runs                                                                    *)

\* A run has a result; or it raised, was paused or met a limit: its task
\* asks again when it is run again.
TaskEnds(t) ==
    /\ pc[t] = "run"
    /\ \/ GoOn(t, "mark", All(t))
       \/ GoOn(t, "idle", NoWork)
    /\ UNCHANGED <<at, mark, ledger, relayed, notes, task, history, hit>>

TakeBatch(t, b) ==
    /\ pc[t] = "idle" /\ task[b].status = "queued"
    /\ task' = [task EXCEPT ![b].status = "running"]
    /\ GoOn(t, "batch", [NoWork EXCEPT !.job = b])
    /\ UNCHANGED <<at, mark, ledger, relayed, notes, history, hit>>

\* The pass that composed a task has marked its bundle.
PassIsThrough == \A t \in Threads : work[t].job \in {"task"} \cup Batches
                                        /\ pc[t] # "offer"

\* The report of a composed task finds what it was offered in the ledger.
BatchHasResult(t) ==
    LET b == work[t].job IN
    /\ pc[t] = "batch"
    /\ \/ PassIsThrough /\ UNCHANGED hit
       \/ ~PassIsThrough /\ Accident("early")
    /\ mem' = file
    /\ GoOn(t, IF task[b].text = {} THEN "idle" ELSE "report",
            [work[t] EXCEPT !.items = task[b].offer, !.todo = task[b].text])
    /\ task' = [task EXCEPT ![b] = NoTask]
    /\ UNCHANGED <<at, mark, file, relayed, notes, history>>

\* It failed, or it waits for a limit to pass.
BatchEnds(t) ==
    LET b == work[t].job IN
    /\ pc[t] = "batch" /\ GoOn(t, "idle", NoWork)
    /\ \/ task' = [task EXCEPT ![b] = NoTask]
       \/ task' = [task EXCEPT ![b].status = "queued"]
    /\ UNCHANGED <<at, mark, ledger, relayed, notes, history, hit>>

----------------------------------------------------------------------------
(* mark_seen                                                               *)

\* Mutant of Stamp: the moment of marking.
StampNow(t) == Now

Stamp(t) == work[t].stamp

\* Never backwards.
MarkSeen(t) ==
    /\ pc[t] = "mark"
    /\ mark' = IF Stamp(t) > mark THEN Stamp(t) ELSE mark
    /\ GoOn(t, IF work[t].items = {} THEN "idle" ELSE "observe",
            [All(t) EXCEPT !.stamp = 0, !.gave = FALSE])
    /\ UNCHANGED <<at, ledger, relayed, notes, task, history, hit>>

\* An item gets its row, once: under the lock, on the file as it is.
Observe(t) ==
    /\ pc[t] = "observe"
    /\ file' = [file EXCEPT ![First(t)] = IF @ = "none" THEN "open" ELSE @]
    /\ mem' = file'
    /\ Loop(t, "observe", "relay")
    /\ UNCHANGED <<at, mark, relayed, notes, task, history, hit>>

\* A run then reports; a pass is over.
AfterRelay(t) == IF work[t].job = "task" THEN "report" ELSE "idle"

\* relay_admitted: the look at the record, the note, the record.
Relay(t) ==
    /\ pc[t] = "relay"
    /\ IF First(t) \in relayed THEN Loop(t, "relay", AfterRelay(t)) ELSE GoOn(t, "post", work[t])
    /\ UNCHANGED <<at, mark, ledger, relayed, notes, task, history, hit>>

AddNote(t) == notes' = [notes EXCEPT ![First(t)] = @ + 1]

Post(t) ==
    /\ pc[t] = "post"
    /\ \/ AddNote(t) /\ GoOn(t, "record", work[t]) /\ UNCHANGED hit
       \/ /\ Accident("answer") /\ Loop(t, "relay", AfterRelay(t))
          /\ AddNote(t) \/ UNCHANGED notes
    /\ UNCHANGED <<at, mark, ledger, relayed, task, history>>

\* Mutant of OnceRelayed: a note is not put on record.
NotRecorded(i) == relayed

OnceRelayed(i) == relayed \cup {i}

RecordRelay(t) ==
    /\ pc[t] = "record"
    /\ relayed' = OnceRelayed(First(t))
    /\ Loop(t, "relay", AfterRelay(t))
    /\ UNCHANGED <<at, mark, ledger, notes, task, history, hit>>

----------------------------------------------------------------------------
(* The report: record_run_account                                          *)

\* "partial" stands for blocked, "declined" for noted too.
Dispositions ==
    {"done", "partial", "standing", "standing-partial", "asked", "declined", "not used"}

\* Mutant of Moved: a run outranks a person.
MovedAnyway(row, d) == IF row = "none" THEN row ELSE "open"

\* What a run says of an item moves its row, if there is one: a person's word
\* stands, and a rule that is done or half done stays a rule.
Moved(row, d) ==
    IF row \in {"none", "held"} \/ d = "not used" THEN row
    ELSE CASE d = "asked"            -> "open"
           [] d = "declined"         -> "done"
           [] d = "standing"         -> "force"
           [] d = "standing-partial" -> "part"
           [] d = "done"    -> IF row \in {"force", "part"} THEN "force" ELSE "done"
           [] d = "partial" -> IF row \in {"force", "part"} THEN "part" ELSE "open"

\* One item of the account.  An item without a row, or one nobody remembered
\* to have offered, is not moved; a rule may get a guidance card.
Account(t, d) ==
    LET i == First(t) IN
    /\ pc[t] = "report"
    /\ file' = IF i \in work[t].items THEN [file EXCEPT ![i] = Moved(@, d)] ELSE file
    /\ mem' = file'
    /\ finished' = CASE d = "done"     -> finished \cup {i}
                     [] d = "not used" -> finished
                     [] OTHER          -> finished \ {i}
    /\ \/ Loop(t, "report", "idle")
       \/ /\ i \in work[t].items /\ d # "not used" /\ file'[i] \in {"force", "part", "held"}
          /\ GoOn(t, "card", work[t])
    /\ UNCHANGED <<at, mark, relayed, notes, task, fate, hit>>

\* The card's id is saved outside the lock, with the rows as the lane has them.
SaveCard(t) ==
    /\ pc[t] = "card"
    /\ file' = mem
    /\ Loop(t, "report", "idle")
    /\ UNCHANGED <<at, mark, mem, relayed, notes, task, history, hit>>

----------------------------------------------------------------------------
\* The lane dies; the next one reads the files and runs its tasks again.
Kill ==
    /\ Accident("kill") /\ \E t \in Threads : pc[t] # "idle"
    /\ pc' = [t \in Threads |-> "idle"] /\ work' = [t \in Threads |-> NoWork]
    /\ mem' = file
    /\ task' = [b \in Batches |->
                    IF task[b].status = "running" THEN [task[b] EXCEPT !.status = "queued"]
                    ELSE task[b]]
    /\ UNCHANGED <<at, mark, file, relayed, notes, history>>

Seen(t) == MarkSeen(t) \/ Observe(t) \/ Relay(t) \/ Post(t) \/ RecordRelay(t)

Reports(t) == (\E d \in Dispositions : Account(t, d)) \/ SaveCard(t)

Compose(t) == (\E b \in Batches : Create(t, b)) \/ RememberOffer(t) \/ Composed(t)

\* What a thread does with what it has in hand.
Step(t) ==
    Read(t) \/ AddOwed(t) \/ Compose(t) \/ TaskEnds(t) \/ BatchHasResult(t)
        \/ BatchEnds(t) \/ Seen(t) \/ Reports(t)

Start(t) == (\E j \in {"task", "pass"} : Begin(t, j)) \/ (\E b \in Batches : TakeBatch(t, b))

People == \E i \in Items : Write(i) \/ Settle(i)

Next == People \/ (\E t \in Threads : Start(t) \/ Step(t)) \/ Kill

Spec == Init /\ [][Next]_vars

\* A thread goes on, and tasks of the quest come again: a thread that is free
\* again and again does not only get passes and what they composed.
Fairness == \A t \in Threads : WF_vars(Step(t)) /\ SF_vars(Begin(t, "task"))

FairSpec == Spec /\ Fairness

----------------------------------------------------------------------------
(* Properties                                                              *)

\* Every variable has its type; a row is of an item that was handed over.
TypeOK ==
    /\ at \in [Items -> 0..Cardinality(Items)] /\ mark \in 0..Now
    /\ file \in [Items -> {"none", "open", "part", "done", "force", "held"}]
    /\ mem \in [Items -> {"none", "open", "part", "done", "force", "held"}]
    /\ relayed \subseteq Written /\ notes \in [Items -> Nat]
    /\ task \in [Batches -> [status : {"none", "queued", "running"},
                             text : SUBSET Items, offer : SUBSET Items]]
    /\ pc \in [Threads -> {"idle", "read", "owed", "compose", "offer", "run", "batch",
                           "mark", "observe", "relay", "post", "record", "report", "card"}]
    /\ work \in [Threads -> [job : {"task", "pass"} \cup Batches, gave : BOOLEAN,
                             stamp : 0..Cardinality(Items),
                             items : SUBSET Items, todo : SUBSET Items]]
    /\ fate \in [Items -> Range(Fates)] /\ finished \subseteq Written
    /\ \A i \in Items : file[i] # "none" => fate[i] = "given"
    /\ hit \in [Accidents -> Nat]

\* docs/how-to/context-updates.md:330 "A watermark moves only when the
\* material was delivered": what is behind it was handed to a run, set aside
\* by the judge, or cut off by the cap, however threads collect and mark.
\* What a mail read missed without a word is passed as well: lines 331-332,
\* "only for the sources that were actually readable", hold of those that raise.
NothingIsSkipped ==
    \A i \in Written : at[i] <= mark =>
        /\ fate[i] # "none"
        /\ fate[i] = "missed" => hit["short"] > 0

\* What the last account of a run calls done is not owed, when the pass that
\* composed its task had marked its bundle by then and nothing was killed.
DoneIsNotOwed ==
    hit["early"] + hit["kill"] = 0 => \A i \in finished : file[i] \notin OpenStates

\* docs/how-to/context-updates.md "Idempotent": however often a mail is
\* offered again, only threads that overlap relay it more than once.
RelayIsBounded ==
    hit["kill"] + hit["answer"] = 0 =>
        \A i \in Items : notes[i] <= Cardinality(Threads)

\* feedback_ledger.py "A person's word stands until that person changes it",
\* whatever runs report meanwhile: but for the save of a card.
PersonsWordStands ==
    [][\A i \in Items : file[i] = "held" =>
           file'[i] = "held" \/ \E t \in Threads : SaveCard(t)]_vars

\* What a person wrote is handed to a run in the end, or set aside by the
\* judge, or cut off by the cap, through failed sources, failed runs and kills;
\* and through mail reads that come back short, unless one was marked as read.
ItemIsOffered ==
    \A i \in Items :
        at[i] > 0 ~> \/ fate[i] \in {"aside", "cut", "given"}
                     \/ fate[i] = "missed" /\ at[i] <= mark
==========================================================================
