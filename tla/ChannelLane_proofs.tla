------------------------ MODULE ChannelLane_proofs ------------------------
(* Proofs about the channel lane, for every set of messages and chats and  *)
(* every number of workers: that its state is well typed, that no message  *)
(* is worked on twice or dropped, that a chat has one turn at a time, and   *)
(* that a turn says one last word.                                         *)
EXTENDS ChannelLane, FiniteSetTheorems, TLAPS

USE DEF intakeVars, sinkVars, runVars, msgVars

Pcs == {"none", "stream", "check", "claim", "send", "join", "wait", "over"}

----------------------------------------------------------------------------
(* Type correctness                                                        *)

\* The text of an item is a text a sink may send, but for a last one that
\* has none.
LEMMA ItemTexts ==
    ASSUME NEW item \in Items
    PROVE  /\ item.type \in {"milestone", "decision", "result"} => item.text \in Texts
           /\ item.type = "answer" => item.text \in Texts \cup {None}
BY DEF Items

\* The next item of a stream, and what is left of the stream.
LEMMA TakeTyped ==
    ASSUME TypeOK, NEW m \in Messages, NEW types, Take(m, types)
    PROVE  /\ Next1(m) \in Items /\ Next1(m).type \in types
           /\ stream' \in [Messages -> Seq(Items)]
<1>1. stream[m] \in Seq(Items) /\ stream[m] # <<>>
    BY DEF TypeOK, Take
<1>2. Head(stream[m]) \in Items /\ Tail(stream[m]) \in Seq(Items)
    BY <1>1
<1>3. stream' = [stream EXCEPT ![m] = Tail(@)]
    BY DEF Take
<1> QED
    BY <1>2, <1>3 DEF Take, Next1, TypeOK

\* What TypeOK says of the turns' places and of what they say.
SpeechTyped ==
    /\ tpc \in [Messages -> Pcs]
    /\ saying \in [Messages -> Replies \cup {None}]
    /\ \A m \in Messages : tpc[m] \in {"claim", "send"} => saying[m] # None

LEMMA SayTyped ==
    ASSUME TypeOK, NEW m \in Messages, NEW kind \in Terminal \cup {"progress"},
           NEW text \in Texts \cup OwnTexts, Say(m, kind, text)
    PROVE  SpeechTyped'
<1>1. [kind |-> kind, text |-> text] \in Replies
    BY DEF Replies
<1> QED
    BY <1>1, ChannelAssumption DEF SpeechTyped, TypeOK, Say, GoTo, Pcs

LEMMA CloseTyped ==
    ASSUME TypeOK, NEW m \in Messages, NEW kind \in Terminal,
           NEW text \in Texts \cup OwnTexts, CloseWith(m, kind, text)
    PROVE  /\ SpeechTyped' /\ closed' \in [Messages -> BOOLEAN]
           /\ ack' \in [Messages -> {"off", "armed", "claim"}]
<1>1. SpeechTyped'
    BY SayTyped DEF CloseWith
<1>2. closed' \in [Messages -> BOOLEAN]
    BY DEF CloseWith, TypeOK
<1>3. ack' \in [Messages -> {"off", "armed", "claim"}]
    BY DEF CloseWith, TypeOK
<1> QED
    BY <1>1, <1>2, <1>3

\* A turn that goes where it has nothing to say.
LEMMA GoTyped ==
    ASSUME TypeOK, NEW m \in Messages, NEW at \in Pcs \ {"claim", "send"},
           GoTo(m, at), UNCHANGED saying
    PROVE  SpeechTyped'
BY DEF SpeechTyped, TypeOK, GoTo, Pcs

LEMMA EndTyped ==
    ASSUME TypeOK, NEW m \in Messages, NEW kind \in Terminal,
           NEW text \in Texts \cup OwnTexts, End(m, kind, text)
    PROVE  /\ SpeechTyped' /\ closed' \in [Messages -> BOOLEAN]
           /\ ack' \in [Messages -> {"off", "armed", "claim"}]
<1>1. CASE Closed(m)
    <2>1. GoTo(m, "join") /\ UNCHANGED <<saying, closed, ack>>
        BY <1>1 DEF End
    <2>2. SpeechTyped'
        BY <2>1, GoTyped DEF Pcs
    <2> QED
        BY <2>1, <2>2 DEF TypeOK
<1>2. CASE ~Closed(m)
    BY <1>2, CloseTyped DEF End
<1> QED
    BY <1>1, <1>2

LEMMA SaidTyped ==
    ASSUME TypeOK, NEW m \in Messages, Said(m)
    PROVE  SpeechTyped'
<1>1. tpc' = [tpc EXCEPT ![m] = IF saying[m].kind \in {"answer", "error"}
                                THEN "join" ELSE "check"]
    BY DEF Said, GoTo
<1>2. saying' = [saying EXCEPT ![m] = IF @.kind \in Terminal THEN @ ELSE None]
    BY DEF Said
<1>3. tpc' \in [Messages -> Pcs] /\ tpc'[m] \in {"join", "check"}
    BY <1>1 DEF TypeOK, Pcs
<1>4. saying' \in [Messages -> Replies \cup {None}]
    BY <1>2 DEF TypeOK
<1>5. \A n \in Messages : n # m => tpc'[n] = tpc[n] /\ saying'[n] = saying[n]
    BY <1>1, <1>2 DEF TypeOK
<1> QED
    BY <1>3, <1>4, <1>5 DEF SpeechTyped, TypeOK

\* Everything else that TypeOK says.
RestTyped ==
    /\ seen \subseteq Messages /\ inflight \subseteq Chats
    /\ pool \subseteq Messages /\ lost \subseteq Messages
    /\ dropped \subseteq Messages
    /\ dpc \in {"idle", "place", "push"} /\ hand \in Messages \cup {None}
    /\ (hand = None) <=> (dpc = "idle")
    /\ inbox \in [Chats -> SUBSET Messages]
    /\ closed \in [Messages -> BOOLEAN]
    /\ sent \in [Messages -> SUBSET (Texts \cup OwnTexts)]
    /\ last \in [Messages -> Texts \cup {None}]
    /\ ack \in [Messages -> {"off", "armed", "claim"}]
    /\ stream \in [Messages -> Seq(Items)]
    /\ run \in [Messages -> {"off", "on", "done"}]
    /\ abandoned \in [Messages -> BOOLEAN]
    /\ terminals \in [Messages -> Nat] /\ taken \in [Messages -> Nat]
    /\ kills \in Nat

LEMMA TypeIs == TypeOK <=> SpeechTyped /\ RestTyped
BY DEF TypeOK, SpeechTyped, RestTyped, Pcs

\* The same after a step.
LEMMA TypeIsNext == TypeOK' <=> SpeechTyped' /\ RestTyped'
BY DEF TypeOK, SpeechTyped, RestTyped, Pcs

LEMMA ReceiveTyped == TypeOK /\ Receive => TypeOK'
<1> SUFFICES ASSUME TypeOK, Receive PROVE TypeOK'
    OBVIOUS
<1> USE TypeIs, TypeIsNext
<1>1. ASSUME NEW m \in Messages, Accept(m) PROVE TypeOK'
    BY <1>1, ChannelAssumption DEF Accept, Marked, RestTyped, SpeechTyped
<1>2. ASSUME NEW m \in Messages, Duplicate(m) PROVE TypeOK'
    BY <1>2 DEF Duplicate, vars, RestTyped, SpeechTyped
<1>3. CASE Submit
    BY <1>3, ChannelAssumption DEF Submit, Chat, RestTyped, SpeechTyped
<1>4. CASE SeeBusy
    BY <1>4 DEF SeeBusy, RestTyped, SpeechTyped
<1>5. CASE Push
    BY <1>5, ChannelAssumption DEF Push, Pushed, Chat, RestTyped, SpeechTyped
<1> QED
    BY <1>1, <1>2, <1>3, <1>4, <1>5 DEF Receive

\* What was given to runs is still counted when more is given.
LEMMA GiveTyped ==
    ASSUME TypeOK, NEW ms, Give(ms)
    PROVE  taken' \in [Messages -> Nat]
BY DEF Give, TypeOK

LEMMA PutTyped ==
    ASSUME TypeOK, NEW m \in Messages, NEW item \in Items, Put(m, item)
    PROVE  stream' \in [Messages -> Seq(Items)]
<1>1. stream[m] \in Seq(Items)
    BY DEF TypeOK
<1>2. Append(stream[m], item) \in Seq(Items)
    BY <1>1
<1> QED
    BY <1>1, <1>2 DEF Put, TypeOK

LEMMA RunTyped ==
    ASSUME TypeOK, NEW m \in Messages,
           StartTurn(m) \/ Drain(m) \/ Emit(m) \/ EndRun(m) \/ AckFires(m) \/ AckIsSent(m)
    PROVE  TypeOK'
<1> USE TypeIs, TypeIsNext
<1>1. CASE StartTurn(m)
    <2>1. SpeechTyped'
        BY <1>1, GoTyped DEF StartTurn, Pcs
    <2> QED
        BY <1>1, <2>1, GiveTyped DEF StartTurn, RestTyped
<1>2. CASE Drain(m)
    BY <1>2, GiveTyped, ChannelAssumption DEF Drain, Chat, RestTyped, SpeechTyped
<1>3. CASE Emit(m)
    BY <1>3, PutTyped DEF Emit, RestTyped, SpeechTyped
<1>4. CASE EndRun(m)
    BY <1>4, PutTyped DEF EndRun, RestTyped, SpeechTyped
<1>5. CASE AckFires(m)
    BY <1>5 DEF AckFires, Timer, RestTyped, SpeechTyped
<1>6. CASE AckIsSent(m)
    BY <1>6 DEF AckIsSent, Timer, RestTyped, SpeechTyped, OwnTexts
<1> QED
    BY <1>1, <1>2, <1>3, <1>4, <1>5, <1>6

LEMMA TurnTyped ==
    ASSUME TypeOK, NEW m \in Messages, Turn(m)
    PROVE  TypeOK'
<1> USE TypeIs, TypeIsNext
<1>1. CASE Result(m)
    <2>1. SpeechTyped'
        BY <1>1, GoTyped DEF Result, Pcs
    <2>2. Next1(m).text \in Texts /\ stream' \in [Messages -> Seq(Items)]
        BY <1>1, TakeTyped, ItemTexts DEF Result
    <2> QED
        BY <1>1, <2>1, <2>2 DEF Result, Take, RestTyped
<1>2. CASE Milestone(m)
    <2>1. Next1(m).text \in Texts /\ stream' \in [Messages -> Seq(Items)]
        BY <1>2, TakeTyped, ItemTexts DEF Milestone
    <2>2. SpeechTyped'
        BY <1>2, <2>1, GoTyped, SayTyped DEF Milestone, Pcs
    <2> QED
        BY <1>2, <2>1, <2>2 DEF Milestone, Take, RestTyped
<1>3. CASE Decision(m)
    <2>1. Next1(m).text \in Texts /\ stream' \in [Messages -> Seq(Items)]
        BY <1>3, TakeTyped, ItemTexts DEF Decision
    <2>2. CASE closed[m]
        <3>1. SpeechTyped'
            BY <1>3, <2>2, GoTyped DEF Decision, Pcs
        <3> QED
            BY <1>3, <2>1, <2>2, <3>1 DEF Decision, Take, RestTyped
    <2>3. CASE ~closed[m]
        <3>1. /\ SpeechTyped' /\ closed' \in [Messages -> BOOLEAN]
              /\ ack' \in [Messages -> {"off", "armed", "claim"}]
            BY <1>3, <2>1, <2>3, CloseTyped DEF Decision, Terminal
        <3> QED
            BY <1>3, <2>1, <3>1 DEF Decision, Take, RestTyped
    <2> QED
        BY <2>2, <2>3
<1>4. CASE Answer(m) \/ Cancelled(m) \/ Raised(m)
    <2>1. stream' \in [Messages -> Seq(Items)]
        BY <1>4, TakeTyped DEF Answer, Cancelled, Raised
    <2>2. last[m] \in Texts \cup {None}
        BY DEF TypeOK
    <2>3. /\ SpeechTyped' /\ closed' \in [Messages -> BOOLEAN]
          /\ ack' \in [Messages -> {"off", "armed", "claim"}]
        <3>1. CASE Answer(m)
            <4>1. Next1(m).text \in Texts \cup {None}
                BY <3>1, TakeTyped, ItemTexts DEF Answer
            <4> QED
                BY <3>1, <4>1, <2>2, EndTyped DEF Answer, OwnTexts, Terminal
        <3>2. CASE Cancelled(m)
            BY <3>2, <2>2, EndTyped DEF Cancelled, OwnTexts, Terminal
        <3>3. CASE Raised(m)
            BY <3>3, EndTyped DEF Raised, OwnTexts, Terminal
        <3> QED
            BY <1>4, <3>1, <3>2, <3>3
    <2>4. UNCHANGED <<intakeVars, sent, last, terminals, run, abandoned, msgVars, kills>>
        BY <1>4 DEF Answer, Cancelled, Raised, Take
    <2> QED
        BY <2>1, <2>3, <2>4 DEF RestTyped
<1>5. CASE InTime(m)
    <2>1. SpeechTyped'
        BY <1>5, GoTyped DEF InTime, Pcs
    <2> QED
        BY <1>5, <2>1 DEF InTime, RestTyped
<1>6. CASE Late(m)
    <2>1. /\ SpeechTyped' /\ closed' \in [Messages -> BOOLEAN]
          /\ ack' \in [Messages -> {"off", "armed", "claim"}]
        BY <1>6, EndTyped DEF Late, OwnTexts, Terminal
    <2> QED
        BY <1>6, <2>1 DEF Late, RestTyped
<1>7. CASE Claim(m)
    <2>1. saying[m] \in Replies
        BY <1>7 DEF Claim, TypeOK
    <2>2. sent' \in [Messages -> SUBSET (Texts \cup OwnTexts)]
        BY <1>7, <2>1 DEF Claim, TypeOK, Replies
    <2>3. SpeechTyped'
        <3>1. CASE saying[m].text \in sent[m]
            BY <1>7, <3>1, SaidTyped DEF Claim
        <3>2. CASE saying[m].text \notin sent[m]
            BY <1>7, <3>2, <2>1, ChannelAssumption DEF Claim, SpeechTyped, GoTo, Pcs
        <3> QED
            BY <3>1, <3>2
    <2> QED
        BY <1>7, <2>2, <2>3 DEF Claim, RestTyped
<1>8. CASE Send(m)
    <2>1. SpeechTyped'
        BY <1>8, SaidTyped DEF Send
    <2>2. terminals' \in [Messages -> Nat]
        BY <1>8 DEF Send, TypeOK
    <2> QED
        BY <1>8, <2>1, <2>2 DEF Send, RestTyped
<1>9. CASE LeaveRun(m)
    <2>1. SpeechTyped'
        BY <1>9, GoTyped DEF LeaveRun, Pcs
    <2>2. stream' \in [Messages -> Seq(Items)]
        BY <1>9 DEF LeaveRun, TypeOK
    <2> QED
        BY <1>9, <2>1, <2>2 DEF LeaveRun, Abandon, RestTyped
<1>10. CASE Free(m)
    <2>1. SpeechTyped'
        BY <1>10 DEF Free, Over, GoTo, SpeechTyped, Pcs
    <2>2. stream' \in [Messages -> Seq(Items)]
        BY <1>10 DEF Free, Over, TypeOK
    <2> QED
        BY <1>10, <2>1, <2>2 DEF Free, Over, Freed, RestTyped
<1> QED
    BY <1>1, <1>2, <1>3, <1>4, <1>5, <1>6, <1>7, <1>8, <1>9, <1>10 DEF Turn

LEMMA KillTyped == TypeOK /\ Kill => TypeOK'
<1> SUFFICES ASSUME TypeOK, Kill PROVE TypeOK'
    OBVIOUS
<1> USE TypeIs, TypeIsNext
<1>1. lost' \subseteq Messages
    BY DEF Kill, Waiting, RestTyped
<1>2. SpeechTyped'
    BY DEF Kill, Reset, SpeechTyped, Pcs
<1>3. stream' \in [Messages -> Seq(Items)]
    BY DEF Kill, Reset
<1> QED
    BY <1>1, <1>2, <1>3 DEF Kill, Reset, RestTyped

LEMMA TypePreserved == TypeOK /\ [Next]_vars => TypeOK'
<1> SUFFICES ASSUME TypeOK, [Next]_vars PROVE TypeOK'
    OBVIOUS
<1>1. CASE UNCHANGED vars
    BY <1>1, TypeIs, TypeIsNext DEF vars, SpeechTyped, RestTyped
<1> QED
    BY <1>1, ReceiveTyped, RunTyped, TurnTyped, KillTyped DEF Next

LEMMA TypeInitial == Init => TypeOK
<1> SUFFICES ASSUME Init PROVE TypeOK
    OBVIOUS
<1>1. SpeechTyped
    BY DEF Init, Fresh, SpeechTyped, Pcs
<1>2. stream \in [Messages -> Seq(Items)]
    BY DEF Init, Fresh
<1>3. RestTyped
    BY <1>2 DEF Init, Fresh, RestTyped
<1> QED
    BY <1>1, <1>3, TypeIs

\* The lane is well typed, and a turn that is about to send has something to
\* say.
THEOREM TypeCorrect == Spec => []TypeOK
BY TypeInitial, TypePreserved, PTL DEF Spec

----------------------------------------------------------------------------
(* Once and in one place.  A message that was accepted is in one of six     *)
(* places; that a redelivery adds no second one rests on the signatures,    *)
(* which know every message that is anywhere.                              *)

Placed(m) ==
    \/ taken[m] > 0 \/ m = hand \/ m \in pool \/ m \in inbox[Chat(m)]
    \/ m \in lost \/ m \in dropped

Apart(m) ==
    /\ taken[m] > 0 => m # hand /\ m \notin pool \cup inbox[Chat(m)] \cup lost
    /\ m = hand => m \notin pool \cup inbox[Chat(m)] \cup lost
    /\ m \in pool => m \notin inbox[Chat(m)] \cup lost
    /\ m \in inbox[Chat(m)] => m \notin lost
    /\ m \in dropped => /\ m # hand /\ ~(taken[m] > 0)
                        /\ m \notin pool \cup inbox[Chat(m)] \cup lost

PlacesInv ==
    /\ \A m \in Messages :
           /\ taken[m] <= 1
           /\ m \in seen \cap Allowed <=> Placed(m)
           /\ Apart(m)
    /\ \A c \in Chats : \A m \in inbox[c] : Chat(m) = c
    /\ dropped \subseteq Blank

\* What a step of a turn leaves alone, its own places and those of others.
LEMMA TurnFrame ==
    ASSUME TypeOK, NEW m \in Messages, Turn(m)
    PROVE  /\ UNCHANGED <<seen, dpc, hand, pool, msgVars, kills, run>>
           /\ tpc[m] \notin {"none", "over"} /\ tpc'[m] # "none"
           /\ \A n \in Messages \ {m} :
                  /\ tpc'[n] = tpc[n] /\ saying'[n] = saying[n]
                  /\ closed'[n] = closed[n] /\ sent'[n] = sent[n]
                  /\ terminals'[n] = terminals[n] /\ abandoned'[n] = abandoned[n]
<1>1. CASE Result(m) \/ Milestone(m)
    BY <1>1 DEF Result, Milestone, Take, Say, GoTo, TypeOK
<1>2. CASE Decision(m)
    BY <1>2 DEF Decision, Take, CloseWith, Say, GoTo, TypeOK
<1>3. CASE Answer(m) \/ Cancelled(m) \/ Raised(m) \/ Late(m)
    <2>1. PICK kind, text : End(m, kind, text)
        BY <1>3 DEF Answer, Cancelled, Raised, Late
    <2>2. /\ UNCHANGED <<intakeVars, sent, last, terminals, run, abandoned, msgVars, kills>>
          /\ tpc[m] \in {"stream", "check"}
        BY <1>3 DEF Answer, Cancelled, Raised, Late, Take
    <2> QED
        BY <2>1, <2>2 DEF End, CloseWith, Say, GoTo, TypeOK
<1>4. CASE InTime(m) \/ LeaveRun(m)
    BY <1>4 DEF InTime, LeaveRun, Abandon, GoTo, TypeOK
<1>5. CASE Claim(m) \/ Send(m)
    BY <1>5 DEF Claim, Send, Said, GoTo, TypeOK
<1>6. CASE Free(m)
    BY <1>6 DEF Free, Over, GoTo, TypeOK
<1> QED
    BY <1>1, <1>2, <1>3, <1>4, <1>5, <1>6 DEF Turn

\* Steps that move no message.
LEMMA PlacesStay ==
    ASSUME PlacesInv, UNCHANGED <<seen, hand, pool, inbox, taken, lost, dropped>>
    PROVE  PlacesInv'
BY DEF PlacesInv, Placed, Apart, Chat

\* Messages that were somewhere else are given to a run.
LEMMA GivenOnce ==
    ASSUME TypeOK, PlacesInv, NEW ms \in SUBSET Messages, Give(ms),
           \A m \in ms : m \in pool \/ m \in inbox[Chat(m)]
    PROVE  \A m \in Messages : /\ taken'[m] <= 1
                               /\ taken'[m] > 0 <=> m \in ms \/ taken[m] > 0
                               /\ m \in ms => ~(taken[m] > 0)
<1> TAKE m \in Messages
<1>1. taken[m] \in Nat /\ taken[m] <= 1
    BY DEF TypeOK, PlacesInv
<1>2. taken'[m] = taken[m] + (IF m \in ms THEN 1 ELSE 0)
    BY DEF Give
<1>3. m \in ms => ~(taken[m] > 0)
    BY DEF PlacesInv, Apart
<1> QED
    BY <1>1, <1>2, <1>3

LEMMA PlacesPreserved == TypeOK /\ PlacesInv /\ [Next]_vars => PlacesInv'
<1> SUFFICES ASSUME TypeOK, PlacesInv, [Next]_vars PROVE PlacesInv'
    OBVIOUS
<1>1. ASSUME NEW m \in Messages, Accept(m) PROVE PlacesInv'
    BY <1>1, ChannelAssumption
    DEF Accept, Marked, PlacesInv, Placed, Apart, Chat, TypeOK
<1>2. CASE Submit
    BY <1>2, ChannelAssumption DEF Submit, PlacesInv, Placed, Apart, Chat, TypeOK
<1>3. CASE Push
    <2>1. hand \in Messages /\ Chat(hand) \in Chats
        BY <1>3, ChannelAssumption DEF Push, TypeOK, Chat
    <2>2. \A c \in Chats : inbox'[c] = IF c = Chat(hand) /\ hand \notin Blank
                                       THEN inbox[c] \cup {hand} ELSE inbox[c]
        BY <1>3, <2>1 DEF Push, Pushed, TypeOK
    <2>3. \A m \in Messages : Chat(m) \in Chats /\ Chat(m)' = Chat(m)
        BY ChannelAssumption DEF Chat
    <2>4. hand' = None /\ UNCHANGED <<seen, pool, taken, lost>>
        BY <1>3 DEF Push
    <2>5. \A m \in Messages : (m \in inbox[Chat(m)])'
                                 <=> m \in inbox[Chat(m)] \/ (m = hand /\ hand \notin Blank)
        BY <2>1, <2>2, <2>3
    <2>6. hand \notin inbox[Chat(hand)]
        BY <2>1 DEF PlacesInv, Apart
    <2>7. dropped' = IF hand \in Blank THEN dropped \cup {hand} ELSE dropped
      <3>1. hand \in inbox'[Chat(hand)] <=> hand \notin Blank
        BY <2>1, <2>2, <2>6
      <3>2. dropped' = IF hand \in inbox'[Chat(hand)] THEN dropped
                                                     ELSE dropped \cup {hand}
        BY <1>3 DEF Push
      <3> QED
        BY <3>1, <3>2
    <2>8. ASSUME NEW m \in Messages
          PROVE  (taken[m] <= 1 /\ (m \in seen \cap Allowed <=> Placed(m)) /\ Apart(m))'
      <3>1. /\ taken[m] <= 1 /\ (m \in seen \cap Allowed <=> Placed(m)) /\ Apart(m)
            /\ hand # None
        BY <2>1, ChannelAssumption DEF PlacesInv
      <3>2. m \in dropped' <=> m \in dropped \/ (m = hand /\ hand \in Blank)
        BY <2>7
      <3> QED
        BY <2>1, <2>4, <2>5, <3>1, <3>2, ChannelAssumption DEF Placed, Apart
    <2>9. \A c \in Chats : \A m \in inbox'[c] : Chat(m) = c
        BY <2>1, <2>2 DEF PlacesInv
    <2>10. dropped' \subseteq Blank
        BY <2>7 DEF PlacesInv
    <2> QED
        BY <2>3, <2>8, <2>9, <2>10 DEF PlacesInv, Chat
<1>4. ASSUME NEW m \in Messages, StartTurn(m) PROVE PlacesInv'
    <2>1. /\ m \in pool /\ pool' = pool \ {m} /\ Give({m})
          /\ UNCHANGED <<seen, hand, inbox, lost, dropped>>
        BY <1>4 DEF StartTurn
    <2>2. \A n \in Messages : /\ taken'[n] <= 1
                              /\ taken'[n] > 0 <=> n = m \/ taken[n] > 0
        BY <2>1, GivenOnce
    <2> QED
        BY <2>1, <2>2 DEF PlacesInv, Placed, Apart, Chat
<1>5. ASSUME NEW m \in Messages, Drain(m) PROVE PlacesInv'
    <2>1. Chat(m) \in Chats /\ \A n \in Messages : Chat(n) \in Chats /\ Chat(n)' = Chat(n)
        BY ChannelAssumption DEF Chat
    <2>2. /\ Give(inbox[Chat(m)]) /\ inbox' = [inbox EXCEPT ![Chat(m)] = {}]
          /\ UNCHANGED <<seen, hand, pool, lost, dropped>>
        BY <1>5 DEF Drain
    <2>3. inbox[Chat(m)] \in SUBSET Messages
        BY <2>1 DEF TypeOK
    <2>4. \A n \in inbox[Chat(m)] : n \in inbox[Chat(n)]
        BY <2>1, <2>3 DEF PlacesInv
    <2>5. \A n \in Messages : /\ taken'[n] <= 1
                              /\ taken'[n] > 0 <=> n \in inbox[Chat(m)] \/ taken[n] > 0
        BY <2>2, <2>3, <2>4, GivenOnce
    <2>6. \A c \in Chats : inbox'[c] = IF c = Chat(m) THEN {} ELSE inbox[c]
        BY <2>1, <2>2 DEF TypeOK
    <2> QED
        BY <2>1, <2>2, <2>4, <2>5, <2>6 DEF PlacesInv, Placed, Apart
<1>6. CASE Kill
    <2>1. \A m \in Messages : /\ m \in lost' <=> \/ m \in lost \/ m \in pool \/ m = hand
                                                 \/ m \in inbox[Chat(m)]
                              /\ m # hand'
                              /\ m \notin pool' \cup inbox'[Chat(m)]
        BY <1>6, ChannelAssumption DEF Kill, Reset, Waiting, Chat, PlacesInv
    <2>2. UNCHANGED <<seen, taken, dropped>> /\ \A c \in Chats : inbox'[c] = {}
        BY <1>6 DEF Kill, Reset
    <2> QED
        BY <2>1, <2>2, ChannelAssumption DEF PlacesInv, Placed, Apart, Chat
<1>7. ASSUME NEW m \in Messages,
             Duplicate(m) \/ Turn(m) \/ Emit(m) \/ EndRun(m) \/ AckFires(m) \/ AckIsSent(m)
      PROVE  PlacesInv'
    BY <1>7, TurnFrame, PlacesStay DEF Duplicate, vars, Emit, EndRun, AckFires, AckIsSent, Timer
<1>8. CASE SeeBusy \/ UNCHANGED vars
    BY <1>8, PlacesStay DEF SeeBusy, vars
<1> QED
    BY <1>1, <1>2, <1>3, <1>4, <1>5, <1>6, <1>7, <1>8 DEF Next, Receive

LEMMA PlacesInitial == Init => PlacesInv
BY ChannelAssumption DEF Init, Fresh, PlacesInv, Placed, Apart, Chat

\* No message is given to a run twice, however often it is delivered and
\* however often the process is killed.
THEOREM WorkedOnAtMostOnce == Spec => []AtMostOnce
<1>1. PlacesInv => AtMostOnce
    BY DEF PlacesInv, AtMostOnce
<1> QED
    BY <1>1, TypeInitial, TypePreserved, PlacesInitial, PlacesPreserved, PTL DEF Spec

\* An accepted message is in one place: it is not doubled, and not dropped
\* unless it has no text.
THEOREM NeitherDroppedNorDoubled == Spec => []MessageHasOnePlace
<1>1. TypeOK /\ PlacesInv => MessageHasOnePlace
    <2> SUFFICES ASSUME PlacesInv, NEW m \in Messages, m \in seen \cap Allowed
                 PROVE  Cardinality(Places(m)) = 1
        BY DEF MessageHasOnePlace, TypeOK, PlacesInv
    <2>1. Placed(m) /\ Apart(m)
        BY DEF PlacesInv
    <2>2. \E place : Places(m) = {place}
        BY <2>1 DEF Placed, Apart, Places
    <2> QED
        BY <2>2, FS_Singleton
<1> QED
    BY <1>1, TypeInitial, TypePreserved, PlacesInitial, PlacesPreserved, PTL DEF Spec

----------------------------------------------------------------------------
(* One turn per chat.  A chat in flight belongs to one message, which waits *)
(* in the pool or has a worker; a run that works on without its turn has   *)
(* been told so.                                                           *)

Live(m) == m \in pool \/ Active(m)

TurnsInv ==
    /\ \A m \in Messages :
           /\ tpc[m] # "none" => taken[m] > 0
           /\ run[m] # "off" => tpc[m] # "none"
           /\ Live(m) => Chat(m) \in inflight
           /\ run[m] = "on" => Active(m) \/ abandoned[m]
           /\ tpc[m] = "wait" => abandoned[m]
    /\ \A m, n \in Messages : Live(m) /\ Live(n) /\ Chat(m) = Chat(n) => m = n

\* The steps of a turn but its last two, which leave the run and the chat.
Talks(m) ==
    \/ Result(m) \/ Milestone(m) \/ Decision(m) \/ Answer(m) \/ Cancelled(m)
    \/ Raised(m) \/ InTime(m) \/ Late(m) \/ Claim(m) \/ Send(m)

LEMMA TalkFrame ==
    ASSUME TypeOK, NEW m \in Messages, Talks(m)
    PROVE  /\ UNCHANGED <<intakeVars, run, abandoned>>
           /\ tpc[m] \in {"stream", "check", "claim", "send"}
           /\ tpc'[m] \in {"stream", "check", "claim", "send", "join"}
<1>1. CASE Result(m) \/ Milestone(m) \/ Decision(m) \/ InTime(m)
    BY <1>1 DEF Result, Milestone, Decision, InTime, Take, CloseWith, Say, GoTo, TypeOK
<1>2. CASE Answer(m) \/ Cancelled(m) \/ Raised(m) \/ Late(m)
    BY <1>2 DEF Answer, Cancelled, Raised, Late, Take, End, CloseWith, Say, GoTo, TypeOK
<1>3. CASE Claim(m) \/ Send(m)
    BY <1>3 DEF Claim, Send, Said, GoTo, TypeOK
<1> QED
    BY <1>1, <1>2, <1>3 DEF Talks

\* A message in the pool has had no turn.
LEMMA PooledIsNew ==
    ASSUME PlacesInv, TurnsInv, NEW m \in Messages, m \in pool
    PROVE  tpc[m] = "none" /\ run[m] = "off"
BY DEF PlacesInv, TurnsInv, Apart

\* Steps after which no turn has begun, gone on or ended.
LEMMA TurnsStay ==
    ASSUME TurnsInv, UNCHANGED <<inflight, pool, tpc, run, abandoned>>,
           \A m \in Messages : taken[m] > 0 => taken'[m] > 0
    PROVE  TurnsInv'
BY DEF TurnsInv, Live, Active, Chat

\* What was given stays given.
LEMMA TakenGrows ==
    ASSUME TypeOK, NEW ms, Give(ms)
    PROVE  \A m \in Messages : taken[m] > 0 \/ m \in ms => taken'[m] > 0
BY DEF TypeOK, Give

LEMMA TurnsPreserved == TypeOK /\ PlacesInv /\ TurnsInv /\ [Next]_vars => TurnsInv'
<1> SUFFICES ASSUME TypeOK, PlacesInv, TurnsInv, [Next]_vars PROVE TurnsInv'
    OBVIOUS
<1>1. CASE Submit
    BY <1>1 DEF Submit, Busy, TurnsInv, Live, Active, Chat, TypeOK
<1>2. ASSUME NEW m \in Messages, StartTurn(m) PROVE TurnsInv'
    <2>1. \A n \in Messages : /\ tpc'[n] = IF n = m THEN "stream" ELSE tpc[n]
                              /\ run'[n] = IF n = m THEN "on" ELSE run[n]
        BY <1>2 DEF StartTurn, GoTo, TypeOK
    <2>2. /\ m \in pool /\ pool' = pool \ {m} /\ UNCHANGED <<inflight, abandoned>>
          /\ \A n \in Messages : taken[n] > 0 \/ n = m => taken'[n] > 0
        BY <1>2, TakenGrows DEF StartTurn
    <2> QED
        BY <2>1, <2>2 DEF TurnsInv, Live, Active, Chat
<1>3. ASSUME NEW m \in Messages, Drain(m) PROVE TurnsInv'
    BY <1>3, TakenGrows, TurnsStay DEF Drain
<1>4. ASSUME NEW m \in Messages, EndRun(m) PROVE TurnsInv'
    <2>1. /\ UNCHANGED <<inflight, pool, tpc, abandoned, taken>> /\ run[m] = "on"
          /\ \A n \in Messages : run'[n] = IF n = m THEN "done" ELSE run[n]
        BY <1>4 DEF EndRun, TypeOK
    <2> QED
        BY <2>1 DEF TurnsInv, Live, Active, Chat
<1>5. ASSUME NEW m \in Messages, Talks(m) PROVE TurnsInv'
    <2>1. Turn(m)
        BY <1>5 DEF Talks, Turn
    <2>2. /\ UNCHANGED <<pool, taken, inflight, run, abandoned>>
          /\ \A n \in Messages \ {m} : tpc'[n] = tpc[n]
          /\ tpc[m] \in {"stream", "check", "claim", "send"}
          /\ tpc'[m] \in {"stream", "check", "claim", "send", "join"}
        BY <1>5, <2>1, TurnFrame, TalkFrame
    <2> QED
        BY <2>2 DEF TurnsInv, Live, Active, Chat
<1>6. ASSUME NEW m \in Messages, LeaveRun(m) PROVE TurnsInv'
    <2>1. /\ UNCHANGED <<pool, taken, inflight, run>> /\ tpc[m] = "join"
          /\ \A n \in Messages : /\ tpc'[n] = IF n = m THEN "wait" ELSE tpc[n]
                                 /\ abandoned'[n] <=> (n = m \/ abandoned[n])
        BY <1>6 DEF LeaveRun, Abandon, GoTo, TypeOK
    <2> QED
        BY <2>1 DEF TurnsInv, Live, Active, Chat
<1>7. ASSUME NEW m \in Messages, Free(m) PROVE TurnsInv'
    <2>1. /\ UNCHANGED <<pool, taken, run, abandoned>> /\ inflight' = inflight \ {Chat(m)}
          /\ tpc[m] = "wait" \/ (tpc[m] = "join" /\ run[m] = "done")
          /\ \A n \in Messages : tpc'[n] = IF n = m THEN "over" ELSE tpc[n]
        BY <1>7 DEF Free, Freed, Over, GoTo, TypeOK
    <2>2. Live(m) /\ m \notin pool
        BY <2>1, PooledIsNew DEF Live, Active
    <2>3. \A n \in Messages : Live(n)' => Live(n) /\ n # m
        BY <2>1, <2>2 DEF Live, Active
    <2>4. \A n \in Messages : Live(n)' => Chat(n)' \in inflight'
        BY <2>1, <2>2, <2>3 DEF TurnsInv, Chat
    <2>5. \A n, k \in Messages : Live(n)' /\ Live(k)' /\ Chat(n)' = Chat(k)' => n = k
        BY <2>3 DEF TurnsInv, Chat
    <2>6. \A n \in Messages : (run[n] = "on")' => Active(n)' \/ abandoned'[n]
        BY <2>1 DEF TurnsInv, Active
    <2>7. \A n \in Messages : /\ (tpc[n] # "none" => taken[n] > 0)'
                              /\ (run[n] # "off" => tpc[n] # "none")'
                              /\ (tpc[n] = "wait" => abandoned[n])'
        BY <2>1 DEF TurnsInv
    <2> QED
        BY <2>4, <2>5, <2>6, <2>7 DEF TurnsInv
<1>8. CASE Kill
    BY <1>8 DEF Kill, Reset, TurnsInv, Live, Active
<1>9. ASSUME NEW m \in Messages,
             Accept(m) \/ Duplicate(m) \/ Emit(m) \/ AckFires(m) \/ AckIsSent(m)
      PROVE  TurnsInv'
    BY <1>9, TurnsStay DEF Accept, Duplicate, vars, Emit, AckFires, AckIsSent, Timer
<1>10. CASE SeeBusy \/ Push \/ UNCHANGED vars
    BY <1>10, TurnsStay DEF SeeBusy, Push, vars
<1> QED
    BY <1>1, <1>2, <1>3, <1>4, <1>5, <1>6, <1>7, <1>8, <1>9, <1>10
    DEF Next, Receive, Turn, Talks

LEMMA TurnsInitial == Init => TurnsInv
BY DEF Init, Fresh, TurnsInv, Live, Active

\* Two runs of a chat are at work at once only when one has been told to
\* stop.
THEOREM OneRun == Spec => []OneRunPerChat
<1>1. TurnsInv => OneRunPerChat
    BY DEF TurnsInv, OneRunPerChat, Live
<1> QED
    BY <1>1, TypeInitial, TypePreserved, PlacesInitial, PlacesPreserved, TurnsInitial,
       TurnsPreserved, PTL DEF Spec

----------------------------------------------------------------------------
(* The lease of a chat: a submit acquires it for the pool, a worker takes   *)
(* it over, and the end of the turn drops it.                              *)

\* A step that changes the holders of no chat, or of one.
LEMMA LeasesUnchanged ==
    ASSUME pool' = pool, \A m \in Messages : Active(m)' <=> Active(m)
    PROVE  [c \in Chats |-> HoldersOf(c)]' = [c \in Chats |-> HoldersOf(c)]
<1>1. \A c \in Chats : HoldersOf(c)' = HoldersOf(c)
    BY DEF HoldersOf, Chat
<1> QED
    BY <1>1

LEMMA LeaseChanges ==
    ASSUME NEW c \in Chats, NEW who, HoldersOf(c)' = who,
           \A d \in Chats \ {c} : HoldersOf(d)' = HoldersOf(d)
    PROVE  [d \in Chats |-> HoldersOf(d)]'
               = [[d \in Chats |-> HoldersOf(d)] EXCEPT ![c] = who]
OBVIOUS

\* A step that concerns one message leaves the leases of the other chats.
LEMMA OtherChats ==
    ASSUME NEW m \in Messages, pool \subseteq Messages, pool' \subseteq Messages,
           \A n \in Messages \ {m} : /\ n \in pool' <=> n \in pool
                                     /\ Active(n)' <=> Active(n)
    PROVE  \A d \in Chats \ {Chat(m)} : HoldersOf(d)' = HoldersOf(d)
BY DEF HoldersOf, Chat

LEMMA LeaseStep ==
    TypeOK /\ PlacesInv /\ TurnsInv /\ [Next]_vars
        => [Lease!Next]_[c \in Chats |-> HoldersOf(c)]
<1> SUFFICES ASSUME TypeOK, PlacesInv, TurnsInv, [Next]_vars
             PROVE  \/ Lease!Next
                    \/ [c \in Chats |-> HoldersOf(c)]' = [c \in Chats |-> HoldersOf(c)]
    OBVIOUS
<1>0. pool \in SUBSET Messages /\ pool' \in SUBSET Messages
    BY TypePreserved DEF TypeOK
<1>1. CASE Submit
    <2>1. PICK m \in Messages :
              /\ Chat(m) \in Chats /\ Chat(m) \notin inflight
              /\ pool' = pool \cup {m} /\ UNCHANGED tpc
        BY <1>1, ChannelAssumption DEF Submit, Busy, Chat, TypeOK
    <2>2. HoldersOf(Chat(m)) = {}
        BY <2>1, <1>0 DEF TurnsInv, Live, HoldersOf
    <2>3. HoldersOf(Chat(m))' = {"pool"}
        BY <2>1, <2>2 DEF HoldersOf, Active, Chat
    <2>4. \A d \in Chats \ {Chat(m)} : HoldersOf(d)' = HoldersOf(d)
        BY <2>1, <1>0, OtherChats DEF Active
    <2>5. Lease!Acquire(Chat(m), "pool")
        BY <2>1, <2>2, <2>3, <2>4, LeaseChanges DEF Lease!Acquire
    <2> QED
        BY <2>1, <2>5 DEF Lease!Next
<1>2. ASSUME NEW m \in Messages, StartTurn(m) PROVE Lease!Next
    <2>1. /\ m \in pool /\ pool' = pool \ {m} /\ Chat(m) \in Chats
          /\ \A n \in Messages : tpc'[n] = IF n = m THEN "stream" ELSE tpc[n]
        BY <1>2, ChannelAssumption DEF StartTurn, GoTo, Chat, TypeOK
    <2>2. \A n \in Messages : Live(n) /\ Chat(n) = Chat(m) => n = m
        BY <2>1 DEF TurnsInv, Live
    <2>3. ~Active(m)
        BY <2>1, PooledIsNew DEF Active
    <2>4. HoldersOf(Chat(m)) = {"pool"}
        BY <2>1, <2>2, <2>3 DEF HoldersOf, Live
    <2>5. HoldersOf(Chat(m))' = {m}
        BY <2>1, <2>2, <1>0 DEF HoldersOf, Live, Active, Chat
    <2>6. \A d \in Chats \ {Chat(m)} : HoldersOf(d)' = HoldersOf(d)
        BY <2>1, <1>0, OtherChats DEF Active
    <2>7. Lease!Handover(Chat(m), m)
        BY <2>1, <2>4, <2>5, <2>6, LeaseChanges DEF Lease!Handover
    <2> QED
        BY <2>1, <2>7 DEF Lease!Next
<1>3. ASSUME NEW m \in Messages, Free(m) PROVE Lease!Next
    <2>1. /\ UNCHANGED pool /\ Chat(m) \in Chats /\ tpc[m] \in {"wait", "join"}
          /\ \A n \in Messages : tpc'[n] = IF n = m THEN "over" ELSE tpc[n]
        BY <1>3, ChannelAssumption DEF Free, Over, GoTo, Chat, TypeOK
    <2>2. Active(m) /\ m \notin pool
        BY <2>1, PooledIsNew DEF Active
    <2>3. \A n \in Messages : Live(n) /\ Chat(n) = Chat(m) => n = m
        BY <2>2 DEF TurnsInv, Live
    <2>4. HoldersOf(Chat(m)) = {m}
        BY <2>2, <2>3, <1>0 DEF HoldersOf, Live
    <2>5. HoldersOf(Chat(m))' = {}
        BY <2>1, <2>2, <2>3, <1>0 DEF HoldersOf, Live, Active, Chat
    <2>6. \A d \in Chats \ {Chat(m)} : HoldersOf(d)' = HoldersOf(d)
        BY <2>1, <1>0, OtherChats DEF Active
    <2>7. Lease!Drop(Chat(m), m)
        BY <2>1, <2>4, <2>5, <2>6, LeaseChanges DEF Lease!Drop
    <2> QED
        BY <2>1, <2>7 DEF Lease!Next
<1>4. CASE Kill
    <2>1. \A c \in Chats : HoldersOf(c)' = {}
        BY <1>4 DEF Kill, Reset, HoldersOf, Active
    <2> QED
        BY <2>1 DEF Lease!Next, Lease!Lost, Lease!NoLeases
<1>5. ASSUME NEW m \in Messages, Talks(m) \/ LeaveRun(m)
      PROVE  [c \in Chats |-> HoldersOf(c)]' = [c \in Chats |-> HoldersOf(c)]
    <2>1. Turn(m)
        BY <1>5 DEF Talks, Turn
    <2>2. Active(m) /\ Active(m)'
        BY <1>5, TalkFrame DEF Active, LeaveRun, GoTo, TypeOK
    <2> QED
        BY <2>1, <2>2, TurnFrame, LeasesUnchanged DEF Active
<1>6. ASSUME NEW m \in Messages,
             \/ Accept(m) \/ Duplicate(m) \/ Emit(m) \/ AckFires(m) \/ AckIsSent(m)
             \/ Drain(m) \/ EndRun(m)
      PROVE  [c \in Chats |-> HoldersOf(c)]' = [c \in Chats |-> HoldersOf(c)]
    BY <1>6, LeasesUnchanged DEF Accept, Duplicate, vars, Emit, AckFires, AckIsSent, Timer,
       Drain, EndRun, Active
<1>7. CASE SeeBusy \/ Push \/ UNCHANGED vars
    BY <1>7, LeasesUnchanged DEF SeeBusy, Push, vars, Active
<1> QED
    BY <1>1, <1>2, <1>3, <1>4, <1>5, <1>6, <1>7 DEF Next, Receive, Turn, Talks

\* At most one turn of a chat runs at a time: its guard is a lease, taken by
\* the pool, handed to a worker and dropped at the end of the turn.
THEOREM LaneImplementsLease == Spec => LeaseSpec
<1>1. Init => Lease!Init
    BY DEF Init, Fresh, Lease!Init, Lease!NoLeases, HoldersOf, Active
<1> QED
    BY <1>1, TypeInitial, TypePreserved, PlacesInitial, PlacesPreserved, TurnsInitial,
       TurnsPreserved, LeaseStep, PTL DEF Spec, LeaseSpec, Lease!Spec

----------------------------------------------------------------------------
(* One last word.  A turn is closed exactly when its last word has been     *)
(* chosen; until that word is out there was no terminal reply, and after it *)
(* there is no other.                                                      *)

Answered(m) ==
    /\ saying[m] # None /\ saying[m].kind \in Terminal
    /\ saying[m].text \in sent[m] /\ terminals[m] <= 1

AnswerOf(m) ==
    /\ ~closed[m] => terminals[m] = 0
    /\ tpc[m] = "none" => ~closed[m]
    /\ tpc[m] \in {"claim", "send"} =>
           /\ closed[m] <=> saying[m].kind \in Terminal
           /\ terminals[m] = 0
    /\ tpc[m] = "send" => saying[m].text \in sent[m]
    /\ tpc[m] \in {"stream", "check", "join", "wait"} /\ closed[m] => Answered(m)
    /\ tpc[m] \in {"join", "wait"} => closed[m]

AnswerInv == \A m \in Messages : AnswerOf(m)

\* A message whose turn a step leaves as it is.
LEMMA AnswerStays ==
    ASSUME NEW m \in Messages, AnswerOf(m), tpc'[m] = tpc[m], saying'[m] = saying[m],
           closed'[m] = closed[m], sent[m] \subseteq sent'[m],
           terminals'[m] = terminals[m]
    PROVE  AnswerOf(m)'
BY DEF AnswerOf, Answered

\* A turn chooses its last word while it is open.
LEMMA CloseAnswers ==
    ASSUME TypeOK, NEW m \in Messages, AnswerOf(m), ~closed[m], NEW kind \in Terminal,
           NEW text \in Texts \cup OwnTexts, CloseWith(m, kind, text),
           UNCHANGED <<sent, terminals>>
    PROVE  AnswerOf(m)'
<1>1. /\ closed'[m] = TRUE /\ tpc'[m] = "claim" /\ terminals'[m] = terminals[m]
      /\ saying'[m] = [kind |-> kind, text |-> text]
    BY DEF CloseWith, Say, GoTo, TypeOK
<1> QED
    BY <1>1 DEF AnswerOf

LEMMA EndAnswers ==
    ASSUME TypeOK, NEW m \in Messages, AnswerOf(m), tpc[m] \in {"stream", "check"},
           NEW kind \in Terminal, NEW text \in Texts \cup OwnTexts, End(m, kind, text),
           UNCHANGED <<sent, terminals>>
    PROVE  AnswerOf(m)'
<1>1. CASE Closed(m)
    <2>1. tpc'[m] = "join" /\ UNCHANGED <<saying, closed>>
        BY <1>1 DEF End, GoTo, TypeOK
    <2> QED
        BY <1>1, <2>1 DEF Closed, AnswerOf, Answered
<1>2. CASE ~Closed(m)
    BY <1>2, CloseAnswers DEF End, Closed
<1> QED
    BY <1>1, <1>2

\* A turn that goes on to its next event, with nothing more to say.
LEMMA GoAnswers ==
    ASSUME TypeOK, NEW m \in Messages, AnswerOf(m), tpc[m] \in {"stream", "check"},
           NEW at \in {"stream", "check"}, GoTo(m, at),
           UNCHANGED <<saying, closed, sent, terminals>>
    PROVE  AnswerOf(m)'
<1>1. tpc'[m] = at
    BY DEF GoTo, TypeOK
<1> QED
    BY <1>1 DEF AnswerOf, Answered

LEMMA SaidAnswers ==
    ASSUME TypeOK, NEW m \in Messages, AnswerOf(m), tpc[m] \in {"claim", "send"}, Said(m),
           UNCHANGED closed, saying[m].text \in sent'[m],
           \/ terminals'[m] = terminals[m]
           \/ saying[m].kind \in Terminal /\ terminals'[m] = terminals[m] + 1
    PROVE  AnswerOf(m)'
<1>1. saying[m] \in Replies /\ saying[m] # None
    BY DEF TypeOK
<1>2. /\ tpc'[m] = IF saying[m].kind \in {"answer", "error"} THEN "join" ELSE "check"
      /\ saying'[m] = IF saying[m].kind \in Terminal THEN saying[m] ELSE None
    BY DEF Said, GoTo, TypeOK
<1>3. CASE closed[m]
    BY <1>1, <1>2, <1>3 DEF AnswerOf, Answered, Terminal
<1>4. CASE ~closed[m]
    <2>1. saying[m].kind \notin Terminal
        BY <1>4 DEF AnswerOf
    <2>2. tpc'[m] = "check" /\ terminals'[m] = 0 /\ ~closed'[m]
        BY <1>2, <1>4, <2>1 DEF AnswerOf, Terminal
    <2> QED
        BY <2>2 DEF AnswerOf
<1> QED
    BY <1>3, <1>4

LEMMA TurnAnswers ==
    ASSUME TypeOK, NEW m \in Messages, AnswerOf(m), Turn(m)
    PROVE  AnswerOf(m)'
<1>1. CASE Result(m)
    BY <1>1, GoAnswers DEF Result, Take
<1>2. CASE Milestone(m)
    <2>1. CASE ~closed[m] /\ Say(m, "progress", Next1(m).text)
        <3>1. /\ tpc'[m] = "claim" /\ UNCHANGED <<closed, terminals>>
              /\ saying'[m] = [kind |-> "progress", text |-> Next1(m).text]
            BY <1>2, <2>1 DEF Milestone, Take, Say, GoTo, TypeOK
        <3> QED
            BY <2>1, <3>1 DEF AnswerOf, Terminal
    <2>2. CASE GoTo(m, "check") /\ UNCHANGED saying
        BY <1>2, <2>2, GoAnswers DEF Milestone, Take
    <2> QED
        BY <1>2, <2>1, <2>2 DEF Milestone
<1>3. CASE Decision(m)
    <2>1. CASE closed[m]
        BY <1>3, <2>1, GoAnswers DEF Decision, Take
    <2>2. CASE ~closed[m]
        <3>1. Next1(m).text \in Texts
            BY <1>3, TakeTyped, ItemTexts DEF Decision
        <3> QED
            BY <1>3, <2>2, <3>1, CloseAnswers DEF Decision, Take, Terminal
    <2> QED
        BY <2>1, <2>2
<1>4. CASE Answer(m) \/ Cancelled(m) \/ Raised(m) \/ Late(m)
    <2>1. last[m] \in Texts \cup {None}
        BY DEF TypeOK
    <2>2. Answer(m) => Next1(m).text \in Texts \cup {None}
        BY TakeTyped, ItemTexts DEF Answer
    <2>3. \E kind \in Terminal, text \in Texts \cup OwnTexts : End(m, kind, text)
        BY <1>4, <2>1, <2>2 DEF Answer, Cancelled, Raised, Late, Terminal, OwnTexts
    <2>4. tpc[m] \in {"stream", "check"} /\ UNCHANGED <<sent, terminals>>
        BY <1>4 DEF Answer, Cancelled, Raised, Late, Take
    <2> QED
        BY <2>3, <2>4, EndAnswers
<1>5. CASE InTime(m)
    BY <1>5, GoAnswers DEF InTime
<1>6. CASE Claim(m)
    <2>1. /\ tpc[m] = "claim" /\ UNCHANGED <<closed, terminals>>
          /\ sent'[m] = sent[m] \cup {saying[m].text}
        BY <1>6 DEF Claim, TypeOK
    <2>2. CASE saying[m].text \in sent[m]
        BY <1>6, <2>1, <2>2, SaidAnswers DEF Claim
    <2>3. CASE saying[m].text \notin sent[m]
        <3>1. tpc'[m] = "send" /\ UNCHANGED saying
            BY <1>6, <2>3 DEF Claim, GoTo, TypeOK
        <3> QED
            BY <2>1, <3>1 DEF AnswerOf
    <2> QED
        BY <2>2, <2>3
<1>7. CASE Send(m)
    <2>1. /\ tpc[m] = "send" /\ Said(m) /\ UNCHANGED <<closed, sent>>
          /\ terminals'[m] = terminals[m] + (IF saying[m].kind \in Terminal THEN 1 ELSE 0)
          /\ terminals[m] \in Nat
        BY <1>7 DEF Send, TypeOK
    <2>2. saying[m].text \in sent'[m]
        BY <2>1 DEF AnswerOf
    <2> QED
        BY <2>1, <2>2, SaidAnswers
<1>8. CASE LeaveRun(m)
    <2>1. tpc[m] = "join" /\ tpc'[m] = "wait" /\ UNCHANGED sinkVars
        BY <1>8 DEF LeaveRun, GoTo, TypeOK
    <2> QED
        BY <2>1 DEF AnswerOf, Answered
<1>9. CASE Free(m)
    <2>1. tpc'[m] = "over" /\ terminals'[m] = 0
        BY <1>9 DEF Free, Over, GoTo, TypeOK
    <2> QED
        BY <2>1 DEF AnswerOf
<1> QED
    BY <1>1, <1>2, <1>3, <1>4, <1>5, <1>6, <1>7, <1>8, <1>9 DEF Turn

LEMMA AnswerPreserved ==
    TypeOK /\ PlacesInv /\ TurnsInv /\ AnswerInv /\ [Next]_vars => AnswerInv'
<1> SUFFICES ASSUME TypeOK, PlacesInv, TurnsInv, AnswerInv, [Next]_vars,
                    NEW n \in Messages
             PROVE  AnswerOf(n)'
    BY DEF AnswerInv
<1>0. AnswerOf(n)
    BY DEF AnswerInv
<1>1. ASSUME NEW m \in Messages, Turn(m) PROVE AnswerOf(n)'
    <2>1. CASE n = m
        BY <1>0, <1>1, <2>1, TurnAnswers
    <2>2. CASE n # m
        BY <1>0, <1>1, <2>2, TurnFrame, AnswerStays
    <2> QED
        BY <2>1, <2>2
<1>2. ASSUME NEW m \in Messages, StartTurn(m) PROVE AnswerOf(n)'
    <2>1. CASE n = m
        <3>1. tpc[n] = "none"
            BY <1>2, <2>1, PooledIsNew DEF StartTurn
        <3>2. tpc'[n] = "stream" /\ UNCHANGED <<closed, terminals>>
            BY <1>2, <2>1 DEF StartTurn, GoTo, TypeOK
        <3> QED
            BY <1>0, <3>1, <3>2 DEF AnswerOf
    <2>2. CASE n # m
        BY <1>0, <1>2, <2>2, AnswerStays DEF StartTurn, GoTo, TypeOK
    <2> QED
        BY <2>1, <2>2
<1>3. ASSUME NEW m \in Messages, AckIsSent(m) PROVE AnswerOf(n)'
    <2>1. sent[n] \subseteq sent'[n] /\ UNCHANGED <<tpc, saying, closed, terminals>>
        BY <1>3 DEF AckIsSent, Timer, TypeOK
    <2> QED
        BY <1>0, <2>1, AnswerStays
<1>4. CASE Kill
    <2>1. tpc'[n] = "none" /\ closed'[n] = FALSE /\ terminals'[n] = 0
        BY <1>4 DEF Kill, Reset
    <2> QED
        BY <2>1 DEF AnswerOf
<1>5. ASSUME NEW m \in Messages,
             Accept(m) \/ Duplicate(m) \/ Drain(m) \/ Emit(m) \/ EndRun(m) \/ AckFires(m)
      PROVE  AnswerOf(n)'
    <2>1. UNCHANGED <<tpc, saying, closed, sent, terminals>>
        BY <1>5 DEF Accept, Duplicate, vars, Drain, Emit, EndRun, AckFires, Timer
    <2> QED
        BY <1>0, <2>1, AnswerStays
<1>6. CASE Submit \/ SeeBusy \/ Push \/ UNCHANGED vars
    <2>1. UNCHANGED <<tpc, saying, closed, sent, terminals>>
        BY <1>6 DEF Submit, SeeBusy, Push, vars
    <2> QED
        BY <1>0, <2>1, AnswerStays
<1> QED
    BY <1>1, <1>2, <1>3, <1>4, <1>5, <1>6 DEF Next, Receive

LEMMA AnswerInitial == Init => AnswerInv
BY DEF Init, Fresh, AnswerInv, AnswerOf

\* A turn that is at its end has said its last word, and has sent one terminal
\* reply at most, whatever it streamed and whichever end came first.
THEOREM LastWord == Spec => []TurnIsAnswered
<1>1. AnswerInv => TurnIsAnswered
    BY DEF AnswerInv, AnswerOf, Answered, TurnIsAnswered
<1> QED
    BY <1>1, TypeInitial, TypePreserved, PlacesInitial, PlacesPreserved, TurnsInitial,
       TurnsPreserved, AnswerInitial, AnswerPreserved, PTL DEF Spec
============================================================================
