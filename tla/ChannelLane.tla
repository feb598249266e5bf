--------------------------- MODULE ChannelLane ---------------------------
(* The live-channel lane (channel_runner.py): the thread that receives     *)
(* messages, the pool of turns, each turn's run of the orchestrator with   *)
(* its event stream (orchestrator_stream.py), the inbox that later         *)
(* messages of a busy chat go to, and the sink that decides what the chat  *)
(* hears (channel_session.py).  A turn has the name of its first message.  *)
EXTENDS Naturals, Sequences, FiniteSets

CONSTANTS
    Messages, Chats,
    ChatOf,      \* ChatOf[m]: the chat a message is in
    Allowed,     \* messages of senders the operator has allowed
    Blank,       \* messages without text: attachments, or nothing
    MaxWorkers,  \* the pool's threads
    Texts,       \* what a run may say
    None,
    MaxEvents,   \* events of a run before its last: the model's bound
    MaxKills     \* kills of the process: the model's bound

\* The sink's own words: the ack, and the texts of an empty answer, of a
\* cancelled run, of a failure and of a timeout.
OwnTexts == {"ack", "empty", "cancelled", "failed", "late"}
Terminal == {"decision", "answer", "error"}
Replies == [kind : Terminal \cup {"progress"}, text : Texts \cup OwnTexts]

ASSUME ChannelAssumption ==
    /\ IsFiniteSet(Messages)
    /\ ChatOf \in [Messages -> Chats] /\ Allowed \subseteq Messages
    /\ Blank \subseteq Messages
    /\ MaxWorkers \in Nat \ {0} /\ MaxEvents \in Nat /\ MaxKills \in Nat
    /\ None \notin Messages \cup Texts \cup Replies

\* What a run streams: a milestone, a decision or a result, with its text;
\* and the last item, when it has returned, raised or was cancelled.
Items == [type : {"milestone", "decision", "result"}, text : Texts]
            \cup [type : {"answer"}, text : Texts \cup {None}]
            \cup [type : {"cancelled", "raised"}, text : {None}]

VARIABLES
    seen,        \* the state store's signatures, which survive a kill
    dpc, hand,   \* the receiving thread, and the message it has accepted
    inflight,    \* _inflight_chats
    pool,        \* submitted turns that no worker has started
    inbox,       \* InMemoryInbox
    tpc,         \* each turn: where its worker is
    saying,      \* the reply it is sending, or has sent last
    closed,      \* the sink's _terminal_sent and _closed
    sent,        \* sent_texts
    last,        \* _last_result_text
    ack,         \* the ack timer
    stream,      \* the queue of the turn's stream
    run,         \* the run's thread
    abandoned,   \* the run's flag of that name
    terminals,   \* terminal replies that were sent (history)
    taken,       \* how often a message was given to a run (history)
    lost,        \* messages that a kill caught before that (history)
    dropped,     \* messages the inbox did not keep (history)
    kills        \* (bound)

intakeVars == <<seen, dpc, hand, inflight, pool>>
sinkVars   == <<saying, closed, sent, last, ack, terminals>>
runVars    == <<stream, run, abandoned>>
msgVars    == <<inbox, taken, lost, dropped>>
vars == <<intakeVars, tpc, sinkVars, runVars, msgVars, kills>>

\* A turn that has a worker, and the chats' turns in all.
Active(m) == tpc[m] \notin {"none", "over"}
Chat(m) == ChatOf[m]

Fresh ==
    /\ dpc = "idle" /\ hand = None /\ inflight = {} /\ pool = {}
    /\ inbox = [c \in Chats |-> {}]
    /\ tpc = [m \in Messages |-> "none"]
    /\ saying = [m \in Messages |-> None]
    /\ closed = [m \in Messages |-> FALSE]
    /\ sent = [m \in Messages |-> {}]
    /\ last = [m \in Messages |-> None]
    /\ ack = [m \in Messages |-> "off"]
    /\ stream = [m \in Messages |-> <<>>]
    /\ run = [m \in Messages |-> "off"]
    /\ abandoned = [m \in Messages |-> FALSE]
    /\ terminals = [m \in Messages |-> 0]

Init ==
    /\ Fresh
    /\ seen = {} /\ lost = {} /\ dropped = {} /\ kills = 0
    /\ taken = [m \in Messages |-> 0]

----------------------------------------------------------------------------
(* Receiving: _dispatch                                                    *)

\* Mutant of Marked: a rejected message alone is remembered.
MarkedIfRejected(m) == IF m \in Allowed THEN seen ELSE seen \cup {m}

Marked(m) == seen \cup {m}

\* The transport may deliver a message any number of times.
Duplicate(m) == dpc = "idle" /\ m \in seen /\ UNCHANGED vars

Accept(m) ==
    /\ dpc = "idle" /\ m \notin seen
    /\ seen' = Marked(m)
    /\ IF m \in Allowed THEN dpc' = "place" /\ hand' = m
                        ELSE UNCHANGED <<dpc, hand>>
    /\ UNCHANGED <<inflight, pool, tpc, sinkVars, runVars, msgVars, kills>>

\* Mutant of Busy: the chats in flight are not looked at.
NeverBusy(m) == FALSE

Busy(m) == Chat(m) \in inflight

\* No turn of this chat: it gets one.
Submit ==
    /\ dpc = "place" /\ ~Busy(hand)
    /\ inflight' = inflight \cup {Chat(hand)}
    /\ pool' = pool \cup {hand}
    /\ dpc' = "idle" /\ hand' = None
    /\ UNCHANGED <<seen, tpc, sinkVars, runVars, msgVars, kills>>

SeeBusy ==
    /\ dpc = "place" /\ Busy(hand)
    /\ dpc' = "push"
    /\ UNCHANGED <<seen, hand, inflight, pool, tpc, sinkVars, runVars,
                   msgVars, kills>>

\* Mutant of Pushed: a message to a busy chat is dropped.
NotPushed(box, m) == box

\* The inbox keeps text, and no message without it.
Pushed(box, m) == IF m \in Blank THEN box ELSE box \cup {m}

\* The message is pushed when the lock has been released.
Push ==
    /\ dpc = "push"
    /\ inbox' = [inbox EXCEPT ![Chat(hand)] = Pushed(@, hand)]
    /\ dropped' = IF hand \in inbox'[Chat(hand)] THEN dropped
                                                 ELSE dropped \cup {hand}
    /\ dpc' = "idle" /\ hand' = None
    /\ UNCHANGED <<seen, inflight, pool, tpc, sinkVars, runVars, taken, lost,
                   kills>>

----------------------------------------------------------------------------
(* A run: the worker thread of run_stream                                  *)

Give(ms) == taken' = [m \in Messages |-> taken[m] + (IF m \in ms THEN 1 ELSE 0)]

\* A run drains the inbox of its chat between steps, as often as it likes.
Drain(m) ==
    /\ run[m] = "on" /\ inbox[Chat(m)] # {}
    /\ Give(inbox[Chat(m)])
    /\ inbox' = [inbox EXCEPT ![Chat(m)] = {}]
    /\ UNCHANGED <<intakeVars, tpc, sinkVars, runVars, lost, dropped, kills>>

IsLast(item) == item.type \in {"answer", "cancelled", "raised"}

\* Nobody reads the stream once the turn has left it.
Put(m, item) ==
    stream' = [stream EXCEPT
                  ![m] = IF tpc[m] \in {"wait", "over"} THEN @ ELSE Append(@, item)]

\* A run says something: at most MaxEvents that nobody has heard yet.
Emit(m) ==
    /\ run[m] = "on" /\ tpc[m] \notin {"wait", "over"}
    /\ Len(stream[m]) < MaxEvents
    /\ \E item \in Items : ~IsLast(item) /\ Put(m, item)
    /\ UNCHANGED <<intakeVars, tpc, sinkVars, run, abandoned, msgVars, kills>>

\* A run returns, raises or, if it has been abandoned, may be cancelled.
EndRun(m) ==
    /\ run[m] = "on"
    /\ \E item \in Items : IsLast(item) /\ Put(m, item)
    /\ run' = [run EXCEPT ![m] = "done"]
    /\ UNCHANGED <<intakeVars, tpc, sinkVars, abandoned, msgVars, kills>>

----------------------------------------------------------------------------
(* A turn: _run_turn and the sink                                          *)

GoTo(m, at) == tpc' = [tpc EXCEPT ![m] = at]

StartTurn(m) ==
    /\ m \in pool
    /\ Cardinality({n \in Messages : Active(n)}) < MaxWorkers
    /\ pool' = pool \ {m}
    /\ GoTo(m, "stream")
    /\ ack' = [ack EXCEPT ![m] = "armed"]
    /\ run' = [run EXCEPT ![m] = "on"]
    /\ Give({m})
    /\ UNCHANGED <<seen, dpc, hand, inflight, inbox, saying, closed, sent,
                   last, terminals, stream, abandoned, lost, dropped, kills>>

Say(m, kind, text) ==
    /\ saying' = [saying EXCEPT ![m] = [kind |-> kind, text |-> text]]
    /\ GoTo(m, "claim")

\* Mutant of CloseWith: the sink closes without a word.
CloseMutely(m, kind, text) ==
    /\ closed' = [closed EXCEPT ![m] = TRUE]
    /\ ack' = [ack EXCEPT ![m] = IF @ = "armed" THEN "off" ELSE @]
    /\ GoTo(m, "claim") /\ UNCHANGED saying

\* The sink's last word: the ack timer is cancelled, under the same lock.
CloseWith(m, kind, text) ==
    /\ closed' = [closed EXCEPT ![m] = TRUE]
    /\ ack' = [ack EXCEPT ![m] = IF @ = "armed" THEN "off" ELSE @]
    /\ Say(m, kind, text)

Next1(m) == Head(stream[m])

\* The next item of the stream, which leaves the queue.
Take(m, types) ==
    /\ tpc[m] = "stream" /\ stream[m] # <<>> /\ Next1(m).type \in types
    /\ stream' = [stream EXCEPT ![m] = Tail(@)]
    /\ UNCHANGED <<intakeVars, sent, terminals, run, abandoned, msgVars,
                   kills>>

\* A result's text is kept for the end.
Result(m) ==
    /\ Take(m, {"result"})
    /\ last' = [last EXCEPT ![m] = Next1(m).text]
    /\ GoTo(m, "check")
    /\ UNCHANGED <<saying, closed, ack>>

\* A milestone is sent, unless it comes too soon after another.
Milestone(m) ==
    /\ Take(m, {"milestone"})
    /\ \/ ~closed[m] /\ Say(m, "progress", Next1(m).text)
       \/ GoTo(m, "check") /\ UNCHANGED saying
    /\ UNCHANGED <<closed, last, ack>>

\* A decision is the turn's reply.
Decision(m) ==
    /\ Take(m, {"decision"})
    /\ IF closed[m] THEN GoTo(m, "check") /\ UNCHANGED <<saying, closed, ack>>
                    ELSE CloseWith(m, "decision", Next1(m).text)
    /\ UNCHANGED last

\* Mutant of Closed: finish and error do not ask.
NeverClosed(m) == FALSE

Closed(m) == closed[m]

\* finish and error, which do nothing once the turn is closed.
End(m, kind, text) ==
    IF Closed(m) THEN GoTo(m, "join") /\ UNCHANGED <<saying, closed, ack>>
                 ELSE CloseWith(m, kind, text)

\* The text of the last result event goes before that of the result.
Answer(m) ==
    LET own == IF last[m] # None THEN last[m] ELSE Next1(m).text
    IN  /\ Take(m, {"answer"})
        /\ End(m, "answer", IF own # None THEN own ELSE "empty")
        /\ UNCHANGED last

Cancelled(m) ==
    /\ Take(m, {"cancelled"})
    /\ End(m, "error", IF last[m] # None THEN last[m] ELSE "cancelled")
    /\ UNCHANGED last

Raised(m) ==
    /\ Take(m, {"raised"})
    /\ End(m, "error", "failed")
    /\ UNCHANGED last

\* The deadline of the turn is looked at after every event.
InTime(m) ==
    /\ tpc[m] = "check" /\ GoTo(m, "stream")
    /\ UNCHANGED <<intakeVars, sinkVars, runVars, msgVars, kills>>

Late(m) ==
    /\ tpc[m] = "check"
    /\ End(m, "error", "late")
    /\ UNCHANGED <<intakeVars, sent, last, terminals, runVars, msgVars, kills>>

\* What follows a message: the end after an answer or an error, and more
\* events after a milestone or a decision.
Said(m) ==
    /\ GoTo(m, IF saying[m].kind \in {"answer", "error"} THEN "join" ELSE "check")
    /\ saying' = [saying EXCEPT
                      ![m] = IF @.kind \in Terminal THEN @ ELSE None]

\* _safe_send: a text that was sent is not sent again,
Claim(m) ==
    /\ tpc[m] = "claim"
    /\ sent' = [sent EXCEPT ![m] = @ \cup {saying[m].text}]
    /\ IF saying[m].text \in sent[m] THEN Said(m)
                                     ELSE GoTo(m, "send") /\ UNCHANGED saying
    /\ UNCHANGED <<intakeVars, closed, last, ack, terminals, runVars, msgVars,
                   kills>>

\* and the transport has it after the lock.
Send(m) ==
    /\ tpc[m] = "send"
    /\ terminals' = [terminals EXCEPT
                         ![m] = @ + (IF saying[m].kind \in Terminal THEN 1 ELSE 0)]
    /\ Said(m)
    /\ UNCHANGED <<intakeVars, closed, sent, last, ack, runVars, msgVars, kills>>

\* Mutant of Abandon: a run that is left is not told.
LeftAlone(m) == UNCHANGED abandoned

\* The stream is closed before its end: the run is told, and waited for.
Abandon(m) == abandoned' = [abandoned EXCEPT ![m] = TRUE]

LeaveRun(m) ==
    /\ tpc[m] = "join" /\ run[m] = "on"
    /\ Abandon(m) /\ GoTo(m, "wait")
    /\ stream' = [stream EXCEPT ![m] = <<>>]
    /\ UNCHANGED <<intakeVars, sinkVars, run, msgVars, kills>>

\* A turn that is over has no sink, but for an ack on its way.
Over(m) ==
    /\ GoTo(m, "over")
    /\ saying' = [saying EXCEPT ![m] = None]
    /\ sent' = [sent EXCEPT ![m] = {}]
    /\ last' = [last EXCEPT ![m] = None]
    /\ terminals' = [terminals EXCEPT ![m] = 0]
    /\ stream' = [stream EXCEPT ![m] = <<>>]

\* Mutant of Freed: a turn that failed keeps its chat.
FreedUnlessFailed(m) ==
    IF saying[m].kind = "error" THEN inflight ELSE inflight \ {Chat(m)}

Freed(m) == inflight \ {Chat(m)}

\* The run has ended, or it has not within stop_join_seconds.  The last
\* thing a worker does is to free the chat.
Free(m) ==
    /\ tpc[m] = "wait" \/ (tpc[m] = "join" /\ run[m] = "done")
    /\ inflight' = Freed(m)
    /\ Over(m)
    /\ UNCHANGED <<seen, dpc, hand, pool, closed, ack, run, abandoned,
                   msgVars, kills>>

Turn(m) ==
    \/ Result(m) \/ Milestone(m) \/ Decision(m) \/ Answer(m) \/ Cancelled(m)
    \/ Raised(m) \/ InTime(m) \/ Late(m) \/ Claim(m) \/ Send(m)
    \/ LeaveRun(m) \/ Free(m)

----------------------------------------------------------------------------
(* The ack timer: _send_ack                                                *)

Timer(m, at) ==
    /\ ack' = [ack EXCEPT ![m] = at]
    /\ UNCHANGED <<intakeVars, tpc, saying, closed, last, terminals, runVars,
                   msgVars, kills>>

\* It fires, and sees that the turn is open.
AckFires(m) ==
    /\ ack[m] = "armed"
    /\ Timer(m, IF closed[m] THEN "off" ELSE "claim")
    /\ UNCHANGED sent

\* The lock was released meanwhile: the terminal reply may be there first.
AckIsSent(m) ==
    /\ ack[m] = "claim" /\ Timer(m, "off")
    /\ sent' = [sent EXCEPT ![m] = IF tpc[m] = "over" THEN @ ELSE @ \cup {"ack"}]

----------------------------------------------------------------------------
\* Messages that nobody has got to yet.
Waiting == pool \cup (IF hand # None THEN {hand} ELSE {})
                \cup UNION {inbox[c] : c \in Chats}

Reset ==
    /\ dpc' = "idle" /\ hand' = None /\ inflight' = {} /\ pool' = {}
    /\ inbox' = [c \in Chats |-> {}]
    /\ tpc' = [m \in Messages |-> "none"]
    /\ saying' = [m \in Messages |-> None]
    /\ closed' = [m \in Messages |-> FALSE]
    /\ sent' = [m \in Messages |-> {}]
    /\ last' = [m \in Messages |-> None]
    /\ ack' = [m \in Messages |-> "off"]
    /\ stream' = [m \in Messages |-> <<>>]
    /\ run' = [m \in Messages |-> "off"]
    /\ abandoned' = [m \in Messages |-> FALSE]
    /\ terminals' = [m \in Messages |-> 0]

\* A kill: the signatures survive, and nothing else.
Kill ==
    /\ kills < MaxKills /\ kills' = kills + 1
    /\ lost' = lost \cup Waiting
    /\ Reset
    /\ UNCHANGED <<seen, taken, dropped>>

Receive == (\E m \in Messages : Accept(m) \/ Duplicate(m)) \/ Submit \/ SeeBusy \/ Push

Next ==
    \/ Receive
    \/ \E m \in Messages :
           \/ StartTurn(m) \/ Turn(m) \/ Drain(m) \/ Emit(m) \/ EndRun(m)
           \/ AckFires(m) \/ AckIsSent(m)
    \/ Kill

Spec == Init /\ [][Next]_vars

\* Threads run on; a run says its last word in the end.
Fairness ==
    \A m \in Allowed :
        WF_vars(StartTurn(m)) /\ WF_vars(Turn(m)) /\ WF_vars(EndRun(m))

FairSpec == Spec /\ Fairness

----------------------------------------------------------------------------
(* The guard of a chat is the lease of a slot                              *)

HoldersOf(c) == {m \in Messages : Chat(m) = c /\ Active(m)}
                  \cup (IF \E m \in pool : Chat(m) = c THEN {"pool"} ELSE {})

Lease == INSTANCE SlotLease WITH
             Tasks <- Chats, Holders <- Messages, Pool <- "pool",
             leases <- [c \in Chats |-> HoldersOf(c)]

\* channel_runner.py:5 "run at most one orchestrator turn per `chat_ref` at a
\* time": a chat is leased to the pool's queue, then to one turn, and free
\* when that turn is over; a message that comes in between gets no turn.
LeaseSpec == Lease!Spec

----------------------------------------------------------------------------
(* Properties                                                              *)

\* Every variable has its type, and a step that sends has something to say.
TypeOK ==
    /\ seen \subseteq Messages /\ inflight \subseteq Chats
    /\ pool \subseteq Messages /\ lost \subseteq Messages
    /\ dropped \subseteq Messages
    /\ dpc \in {"idle", "place", "push"} /\ hand \in Messages \cup {None}
    /\ (hand = None) <=> (dpc = "idle")
    /\ inbox \in [Chats -> SUBSET Messages]
    /\ tpc \in [Messages -> {"none", "stream", "check", "claim", "send",
                             "join", "wait", "over"}]
    /\ saying \in [Messages -> Replies \cup {None}]
    /\ \A m \in Messages : tpc[m] \in {"claim", "send"} => saying[m] # None
    /\ closed \in [Messages -> BOOLEAN]
    /\ sent \in [Messages -> SUBSET (Texts \cup OwnTexts)]
    /\ last \in [Messages -> Texts \cup {None}]
    /\ ack \in [Messages -> {"off", "armed", "claim"}]
    /\ stream \in [Messages -> Seq(Items)]
    /\ run \in [Messages -> {"off", "on", "done"}]
    /\ abandoned \in [Messages -> BOOLEAN]
    /\ terminals \in [Messages -> Nat] /\ taken \in [Messages -> Nat]
    /\ kills \in Nat

\* A message is worked on at most once, though the transport delivers it
\* again, also after a kill: a repeated run would repeat what it did.
AtMostOnce == \A m \in Messages : taken[m] <= 1

\* An accepted message is not lost sight of and not doubled: it is on its way
\* to a turn, waits in the inbox of its chat, has been given to a run, or was
\* caught by a kill.  One without text (openclaw_channel.py:253-262 makes
\* such ones of attachments) may have come to a busy chat, where it is marked
\* and logged as folded (channel_runner.py:155-159), but the inbox drops it
\* (inbox.py:38-39); no message with a text is dropped.
Places(m) ==
    {place \in {"hand", "pool", "inbox", "run", "lost", "dropped"} :
        \/ place = "hand" /\ hand = m
        \/ place = "pool" /\ m \in pool
        \/ place = "inbox" /\ m \in inbox[Chat(m)]
        \/ place = "run" /\ taken[m] > 0
        \/ place = "lost" /\ m \in lost
        \/ place = "dropped" /\ m \in dropped}

MessageHasOnePlace ==
    /\ \A m \in seen \cap Allowed : Cardinality(Places(m)) = 1
    /\ dropped \subseteq Blank

\* orchestrator_stream.py:42-44: a consumer that abandons its stream has no
\* run at work behind its back in the next turn, but one that has been
\* cancelled and is overdue.
OneRunPerChat ==
    \A m, n \in Messages :
        run[m] = "on" /\ run[n] = "on" /\ Chat(m) = Chat(n) /\ m # n
            => abandoned[m] \/ abandoned[n]

\* channel_session.py:38 "EXACTLY ONE terminal OutboundReply is ever sent per
\* turn": as far as the code keeps it, a turn is over when its last word has
\* been said, as its terminal reply or as a message before it, and there was
\* one terminal reply at most, whichever of a decision, an answer, an error,
\* a timeout and a raised exception came first.
TurnIsAnswered ==
    \A m \in Messages : tpc[m] \in {"join", "wait"} =>
        /\ saying[m].kind \in Terminal /\ saying[m].text \in sent[m]
        /\ terminals[m] <= 1

\* No chat is blocked for good: a turn that never freed its chat would make
\* every later message of it wait in the inbox.
ChatIsFreed == \A c \in Chats : c \in inflight ~> c \notin inflight

----------------------------------------------------------------------------
(* What the source says and the code does not do                           *)

\* channel_runner.py:6 "a message that arrives mid-turn folds into the
\* running turn": while a message waits in the inbox, a turn is running.
WaitsForRunningTurn == \A c \in Chats : inbox[c] # {} => c \in inflight
==========================================================================
