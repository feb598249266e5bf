---------------------- MODULE ContextUpdates_proofs ----------------------
(* Proofs about the updates of a quest, for every set of items, threads and *)
(* composed tasks, every cap and every bound on accidents: that the state  *)
(* is well typed, that the watermark skips nothing, that a person's word   *)
(* stands, how often a mail is relayed, and that what is done is not owed. *)
EXTENDS ContextUpdates, FiniteSetTheorems, WellFoundedInduction, TLAPS

USE DEF ledger, history

----------------------------------------------------------------------------
(* The inductive invariants                                                *)

Rows  == {"none", "open", "part", "done", "force", "held"}
Works == [job : {"task", "pass"} \cup Batches, gave : BOOLEAN,
          stamp : 0..Cardinality(Items), items : SUBSET Items, todo : SUBSET Items]

\* A thread that goes over its items: they get rows, and notes.
Passing == {"observe", "relay", "post", "record"}

\* What a thread has in hand was written, and was handed over by the time it
\* is marked; what its bundle's stamp covers was handed over or is in it.
Hand(t) ==
    /\ work[t].items \subseteq Written /\ work[t].todo \subseteq Written
    /\ work[t].stamp <= Now
    /\ pc[t] \in {"offer", "batch"} => work[t].job \in Batches
    /\ pc[t] \in {"read", "owed", "batch"} => ~work[t].gave
    /\ pc[t] = "batch" => work[t].stamp = 0
    /\ pc[t] \in Passing \cup {"report", "card"} => work[t].todo # {}
    /\ pc[t] \in Passing => work[t].todo \subseteq work[t].items
    /\ pc[t] \in Passing \cup {"run", "offer", "mark"} \/ work[t].gave
           => \A i \in work[t].items : fate[i] = "given"
    /\ pc[t] # "read" => \A i \in Written :
           at[i] <= work[t].stamp => fate[i] # "none" \/ i \in work[t].items

HasRow(i) == file[i] # "none"

HandInv ==
    /\ \A t \in Threads : Hand(t)
    /\ \A b \in Batches : task[b].text \subseteq Written /\ task[b].offer \subseteq Written
    /\ \A i \in Items : (mem[i] = "none" <=> file[i] = "none") /\ (HasRow(i) => i \in Written)

\* Who is about to post a note of an item, or to put it on record.
At(i, step) == {t \in Threads : pc[t] = step /\ First(t) = i}

NotesInv ==
    hit["kill"] + hit["answer"] = 0 =>
        \A i \in Items :
            /\ i \notin relayed => notes[i] = Cardinality(At(i, "record"))
            /\ i \in relayed => notes[i] + Cardinality(At(i, "post")) <= Cardinality(Threads)

\* A pass that will see to it that an item it gave has a row.
Opens(t, i) ==
    /\ i \in work[t].items
    /\ \/ pc[t] = "offer"
       \/ pc[t] = "compose" /\ work[t].job = "pass" /\ work[t].gave
       \/ pc[t] = "mark" /\ work[t].job = "pass"
       \/ pc[t] = "observe" /\ work[t].job = "pass" /\ i \in work[t].todo

\* What the last account calls done is closed, also as the lane has it.
Settled == \A i \in finished : HasRow(i) /\ {file[i], mem[i]} \cap OpenStates = {}

\* What a thread has passed has its row, and a report is on rows that it was
\* offered.
RowsOf(t) ==
    /\ pc[t] \in {"read", "owed"} => work[t].job \in {"task", "pass"}
    /\ pc[t] = "compose" => work[t].job = "pass"
    /\ pc[t] = "observe" => \A i \in work[t].items : HasRow(i) \/ i \in work[t].todo
    /\ pc[t] \in {"relay", "post", "record"} => \A i \in work[t].items : HasRow(i)
    /\ pc[t] \in {"report", "card"} =>
           \A i \in work[t].todo : HasRow(i) /\ i \in work[t].items
    /\ pc[t] = "offer" /\ task[work[t].job].status # "none" =>
           task[work[t].job].text = work[t].items
    /\ pc[t] = "batch" => task[work[t].job].status = "running"

OneEach ==
    \A t, u \in Threads :
        pc[t] = "batch" /\ pc[u] = "batch" /\ work[t].job = work[u].job => t = u

\* What a composed task carries is offered with it, and has its row, unless
\* its pass has yet to see to that.
RowsOfTask(b) ==
    task[b].status # "none" =>
        /\ \/ task[b].text \subseteq task[b].offer
           \/ \E t \in Threads : pc[t] = "offer" /\ work[t].job = b
        /\ \A i \in task[b].text : HasRow(i) \/ \E t \in Threads : Opens(t, i)

RowsInv ==
    hit["early"] + hit["kill"] = 0 =>
        Settled /\ (\A t \in Threads : RowsOf(t)) /\ OneEach /\ \A b \in Batches : RowsOfTask(b)

----------------------------------------------------------------------------
(* The operators the module is built from                                  *)

\* Of some numbers with a bound there is a greatest.
LEMMA LatestExists ==
    ASSUME NEW S, S # {}, NEW f, NEW n \in Nat, \A x \in S : f[x] \in 0..n
    PROVE  \E x \in S : \A y \in S : f[y] <= f[x]
<1> DEFINE T == {n - f[x] : x \in S}
<1>1. T \subseteq Nat /\ T # {}
    OBVIOUS
<1>2. \E d \in T : \A e \in T : ~(<<e, d>> \in OpToRel(<, Nat))
    <2> HIDE DEF T
    <2> QED
        BY <1>1, WFMin, NatLessThanWellFounded
<1>3. PICK x \in S : \A e \in T : ~(<<e, n - f[x]>> \in OpToRel(<, Nat))
    BY <1>2
<1>4. \A y \in S : ~(n - f[y] < n - f[x])
    BY <1>1, <1>3 DEF OpToRel
<1> QED
    BY <1>4

LEMMA FatesAre == Range(Fates) = {"none", "missed", "aside", "cut", "given"}
BY DEF Range, Fates

LEMMA RankIs ==
    /\ Rank("none") = 1 /\ Rank("missed") = 2 /\ Rank("aside") = 3
    /\ Rank("cut") = 4 /\ Rank("given") = 5
BY DEF Rank, Fates

\* Items get at least as far as f, and none falls back.
LEMMA GetIs ==
    ASSUME NEW was \in [Items -> Range(Fates)], NEW items, NEW f \in Range(Fates)
    PROVE  /\ Get(was, items, f) \in [Items -> Range(Fates)]
           /\ \A i \in Items :
                  /\ was[i] # "none" => Get(was, items, f)[i] # "none"
                  /\ was[i] = "given" => Get(was, items, f)[i] = "given"
                  /\ i \in items /\ f # "none" => Get(was, items, f)[i] # "none"
                  /\ i \in items /\ f = "given" => Get(was, items, f)[i] = "given"
                  /\ Get(was, items, f)[i] = "missed" => was[i] = "missed" \/ f = "missed"
BY RankIs, FatesAre DEF Get

\* The next item of a loop is one of those it has still to look at.
LEMMA FirstIn ==
    ASSUME NEW t \in Threads, at \in [Items -> 0..Cardinality(Items)],
           work[t].todo \subseteq Items, work[t].todo # {}
    PROVE  First(t) \in work[t].todo
<1>1. Cardinality(Items) \in Nat
    BY UpdatesAssumption, FS_CardinalityType
<1>2. \E i \in work[t].todo : \A k \in work[t].todo : at[k] <= at[i]
    BY <1>1, LatestExists
<1> QED
    BY <1>2 DEF First

\* It is the same after a step that leaves them, and their dates, alone.
LEMMA FirstStays ==
    ASSUME NEW t \in Threads, work'[t] = work[t],
           \A i \in work[t].todo : at'[i] = at[i]
    PROVE  First(t)' = First(t)
BY DEF First

\* The dates that were given are counted.
LEMMA NowIs ==
    TypeOK => /\ IsFiniteSet(Written) /\ Now \in 0..Cardinality(Items)
              /\ Cardinality(Items) \in Nat
<1> SUFFICES ASSUME TypeOK
             PROVE  /\ IsFiniteSet(Written) /\ Now \in 0..Cardinality(Items)
                    /\ Cardinality(Items) \in Nat
    OBVIOUS
<1>1. Written \in SUBSET Items
    BY DEF Written
<1>2. IsFiniteSet(Written) /\ Cardinality(Written) <= Cardinality(Items)
    BY <1>1, UpdatesAssumption, FS_Subset
<1>3. Cardinality(Written) \in Nat /\ Cardinality(Items) \in Nat
    BY <1>2, UpdatesAssumption, FS_CardinalityType
<1> QED
    BY <1>2, <1>3 DEF Now

\* So they are after a step.
LEMMA NowIsNext == (TypeOK => Now \in Nat)'
<1>1. TypeOK => Now \in Nat
    BY NowIs
<1> QED
    BY <1>1, PTL

\* A step that writes nothing leaves the clock.
LEMMA NowStays ==
    ASSUME UNCHANGED at
    PROVE  UNCHANGED Written /\ UNCHANGED Now
BY DEF Written, Now

----------------------------------------------------------------------------
(* Type correctness                                                        *)

Pcs == {"idle", "read", "owed", "compose", "offer", "run", "batch", "mark", "observe",
        "relay", "post", "record", "report", "card"}

ThreadsTyped == pc \in [Threads -> Pcs] /\ work \in [Threads -> Works]

RestTyped ==
    /\ at \in [Items -> 0..Cardinality(Items)] /\ mark \in 0..Now
    /\ file \in [Items -> Rows] /\ mem \in [Items -> Rows]
    /\ relayed \subseteq Written /\ notes \in [Items -> Nat]
    /\ task \in [Batches -> [status : {"none", "queued", "running"},
                             text : SUBSET Items, offer : SUBSET Items]]
    /\ fate \in [Items -> Range(Fates)] /\ finished \subseteq Written
    /\ \A i \in Items : file[i] # "none" => fate[i] = "given"
    /\ hit \in [Accidents -> Nat]

LEMMA TypeIs == TypeOK <=> ThreadsTyped /\ RestTyped
BY DEF TypeOK, ThreadsTyped, RestTyped, Pcs, Works, Rows

LEMMA TypeIsNext == TypeOK' <=> ThreadsTyped' /\ RestTyped'
BY DEF TypeOK, ThreadsTyped, RestTyped, Pcs, Works, Rows

LEMMA NoWorkIs == TypeOK => NoWork \in Works
BY NowIs DEF NoWork, Works

\* An accident is counted.
LEMMA AccidentCounts ==
    ASSUME TypeOK, NEW a, Accident(a)
    PROVE  /\ a \in Accidents /\ hit' \in [Accidents -> Nat]
           /\ hit' = [b \in Accidents |-> IF b = a THEN hit[b] + 1 ELSE hit[b]]
<1>1. a \in Accidents
    BY UpdatesAssumption DEF Accident
<1>2. hit \in [Accidents -> Nat] /\ hit' = [hit EXCEPT ![a] = @ + 1]
    BY TypeIs DEF RestTyped, Accident
<1>3. hit' \in [Accidents -> Nat]
    BY <1>1, <1>2
<1>4. hit' = [b \in Accidents |-> IF b = a THEN hit[b] + 1 ELSE hit[b]]
    BY <1>1, <1>2
<1> QED
    BY <1>1, <1>3, <1>4

\* What a thread does when it goes on.
LEMMA GoOnIs ==
    ASSUME TypeOK, NEW t \in Threads, NEW step \in Pcs, NEW w \in Works, GoOn(t, step, w)
    PROVE  /\ ThreadsTyped'
           /\ pc'[t] = step /\ work'[t] = IF step = "idle" THEN NoWork ELSE w
           /\ \A u \in Threads \ {t} : pc'[u] = pc[u] /\ work'[u] = work[u]
BY NoWorkIs, TypeIs DEF GoOn, ThreadsTyped

\* What it has in hand, and the parts of it a loop takes.
LEMMA WorkIs ==
    ASSUME TypeOK, NEW t \in Threads
    PROVE  /\ work[t] \in Works
           /\ work[t].todo \subseteq Items /\ work[t].items \subseteq Items
           /\ All(t) \in Works /\ All(t) = [work[t] EXCEPT !.todo = work[t].items]
           /\ Rest(t) \in Works /\ Rest(t) = [work[t] EXCEPT !.todo = @ \ {First(t)}]
BY TypeIs DEF ThreadsTyped, Works, All, Rest

\* A loop looks at the next of its items, or is through with the last one.
LEMMA LoopIs ==
    ASSUME TypeOK, NEW t \in Threads, work[t].todo # {},
           NEW step \in Pcs \ {"idle"}, NEW after \in Pcs, Loop(t, step, after)
    PROVE  /\ ThreadsTyped' /\ First(t) \in work[t].todo
           /\ \A u \in Threads \ {t} : pc'[u] = pc[u] /\ work'[u] = work[u]
           /\ \/ /\ work[t].todo = {First(t)} /\ pc'[t] = after
                 /\ work'[t] = IF after = "idle" THEN NoWork ELSE All(t)
              \/ /\ work[t].todo \ {First(t)} # {} /\ pc'[t] = step
                 /\ work'[t] = Rest(t)
<1>1. First(t) \in work[t].todo
    BY WorkIs, FirstIn, TypeIs DEF RestTyped
<1>2. CASE work[t].todo = {First(t)}
    BY <1>1, <1>2, WorkIs, GoOnIs DEF Loop
<1>3. CASE work[t].todo # {First(t)}
    BY <1>1, <1>3, WorkIs, GoOnIs DEF Loop
<1> QED
    BY <1>2, <1>3

LEMMA PeopleTyped == TypeOK /\ HandInv /\ People => TypeOK'
<1> SUFFICES ASSUME TypeOK, HandInv, People PROVE TypeOK'
    OBVIOUS
<1> USE TypeIs, TypeIsNext
<1>1. ASSUME NEW i \in Items, Write(i) PROVE TypeOK'
    <2>1. /\ at[i] = 0 /\ at' = [at EXCEPT ![i] = Now + 1]
          /\ at \in [Items -> 0..Cardinality(Items)]
        BY <1>1 DEF Write, RestTyped
    <2>2. i \notin Written /\ Written' = Written \cup {i}
        BY <2>1, NowIs DEF Written
    <2>3. Now' = Now + 1
        BY <2>2, NowIs, FS_AddElement DEF Now
    <2>4. Now + 1 <= Cardinality(Items)
        <3>1. Written \cup {i} \in SUBSET Items
            BY DEF Written
        <3>2. Cardinality(Written \cup {i}) <= Cardinality(Items)
            BY <3>1, UpdatesAssumption, FS_Subset
        <3> QED
            BY <2>2, <3>2, NowIs, FS_AddElement DEF Now
    <2>5. at' \in [Items -> 0..Cardinality(Items)]
        BY <2>1, <2>4, NowIs
    <2>6. mark' \in 0..Now'
        BY <1>1, <2>3, NowIs DEF Write, RestTyped
    <2> QED
        BY <1>1, <2>2, <2>5, <2>6 DEF Write, RestTyped, ThreadsTyped
<1>2. ASSUME NEW i \in Items, Settle(i) PROVE TypeOK'
    <2>1. /\ UNCHANGED <<at, mark, relayed, notes, task, pc, work, fate, finished, hit>>
          /\ file[i] # "none" /\ file' = [file EXCEPT ![i] = "held"] /\ mem' \in {mem, file'}
        BY <1>2 DEF Settle
    <2> QED
        BY <2>1, NowStays DEF RestTyped, ThreadsTyped, Rows
<1> QED
    BY <1>1, <1>2 DEF People

LEMMA StartTyped ==
    ASSUME TypeOK, HandInv, NEW t \in Threads, Start(t)
    PROVE  TypeOK'
<1> USE TypeIs, TypeIsNext
<1>1. ASSUME NEW j \in {"task", "pass"}, Begin(t, j) PROVE TypeOK'
    <2>1. [NoWork EXCEPT !.job = j, !.stamp = Now] \in Works
        BY NowIs DEF NoWork, Works
    <2>2. ThreadsTyped'
        BY <1>1, <2>1, GoOnIs DEF Begin, Pcs
    <2> QED
        BY <1>1, <2>2, NowStays DEF Begin, RestTyped
<1>2. ASSUME NEW b \in Batches, TakeBatch(t, b) PROVE TypeOK'
    <2>1. [NoWork EXCEPT !.job = b] \in Works
        BY NoWorkIs DEF Works
    <2>2. ThreadsTyped'
        BY <1>2, <2>1, GoOnIs DEF TakeBatch, Pcs
    <2> QED
        BY <1>2, <2>2, NowStays DEF TakeBatch, RestTyped
<1> QED
    BY <1>1, <1>2 DEF Start

\* The threads that mark what they were given.
LEMMA SeenTyped ==
    ASSUME TypeOK, HandInv, NEW t \in Threads, Seen(t)
    PROVE  TypeOK'
<1> USE TypeIs, TypeIsNext
<1>1. CASE MarkSeen(t)
    <2>1. [All(t) EXCEPT !.stamp = 0, !.gave = FALSE] \in Works
        <3>1. \A w \in Works : [w EXCEPT !.stamp = 0] \in Works
            BY NowIs DEF Works
        <3>2. \A w \in Works : [w EXCEPT !.gave = FALSE] \in Works
            BY DEF Works
        <3> QED
            BY <3>1, <3>2, WorkIs
    <2>2. ThreadsTyped'
        BY <1>1, <2>1, GoOnIs DEF MarkSeen, Pcs
    <2>3. Stamp(t) \in 0..Now
        BY WorkIs, NowIs DEF Stamp, Works, HandInv, Hand
    <2>4. mark' \in 0..Now
        BY <1>1, <2>3 DEF MarkSeen, RestTyped
    <2> QED
        BY <1>1, <2>2, <2>4, NowStays DEF MarkSeen, RestTyped
<1>2. ASSUME pc[t] \in Passing
      PROVE  First(t) \in work[t].todo /\ First(t) \in Items /\ First(t) \in Written
             /\ fate[First(t)] = "given" /\ work[t].todo # {}
             /\ AfterRelay(t) \in {"report", "idle"}
    <2>1. work[t].todo # {} /\ work[t].todo \subseteq work[t].items
        BY <1>2 DEF HandInv, Hand
    <2>2. First(t) \in work[t].todo
        BY <2>1, WorkIs, FirstIn DEF RestTyped
    <2> QED
        BY <1>2, <2>1, <2>2 DEF HandInv, Hand, Written, AfterRelay
<1>3. CASE Observe(t)
    <2>1. pc[t] \in Passing
        BY <1>3 DEF Observe, Passing
    <2>2. ThreadsTyped'
        BY <1>2, <1>3, <2>1, LoopIs DEF Observe, Pcs
    <2> QED
        BY <1>2, <1>3, <2>1, <2>2, NowStays DEF Observe, RestTyped, Rows
<1>4. CASE Relay(t)
    <2>1. pc[t] \in Passing
        BY <1>4 DEF Relay, Passing
    <2>2. ThreadsTyped'
        BY <1>2, <1>4, <2>1, LoopIs, GoOnIs, WorkIs DEF Relay, Pcs
    <2> QED
        BY <1>4, <2>2, NowStays DEF Relay, RestTyped
<1>5. CASE Post(t)
    <2>1. pc[t] \in Passing
        BY <1>5 DEF Post, Passing
    <2>2. ThreadsTyped'
        BY <1>2, <1>5, <2>1, LoopIs, GoOnIs, WorkIs DEF Post, Pcs
    <2>3. hit' \in [Accidents -> Nat]
        BY <1>5, AccidentCounts DEF Post, RestTyped
    <2>4. notes' \in [Items -> Nat]
        BY <1>5 DEF Post, AddNote, RestTyped
    <2> QED
        BY <1>5, <2>2, <2>3, <2>4, NowStays DEF Post, RestTyped
<1>6. CASE RecordRelay(t)
    <2>1. pc[t] \in Passing
        BY <1>6 DEF RecordRelay, Passing
    <2>2. ThreadsTyped'
        BY <1>2, <1>6, <2>1, LoopIs DEF RecordRelay, Pcs
    <2> QED
        BY <1>2, <1>6, <2>1, <2>2, NowStays DEF RecordRelay, OnceRelayed, RestTyped
<1> QED
    BY <1>1, <1>3, <1>4, <1>5, <1>6 DEF Seen

\* A run moves a row to a state of a row, and opens none.
LEMMA MovedIs ==
    ASSUME NEW row \in Rows, NEW d \in Dispositions
    PROVE  /\ Moved(row, d) \in Rows
           /\ Moved(row, d) = "none" <=> row = "none"
           /\ row = "held" => Moved(row, d) = "held"
           /\ d = "done" /\ row # "none" => Moved(row, d) \notin OpenStates
           /\ d = "not used" => Moved(row, d) = row
BY DEF Moved, Rows, Dispositions, OpenStates

LEMMA ReportTyped ==
    ASSUME TypeOK, HandInv, NEW t \in Threads, Reports(t)
    PROVE  TypeOK'
<1> USE TypeIs, TypeIsNext
<1>1. pc[t] \in {"report", "card"} /\ work[t].todo # {}
    BY DEF Reports, Account, SaveCard, HandInv, Hand
<1>2. First(t) \in work[t].todo /\ First(t) \in Items /\ First(t) \in Written
    BY <1>1, WorkIs, FirstIn DEF RestTyped, HandInv, Hand
<1>3. ASSUME NEW d \in Dispositions, Account(t, d) PROVE TypeOK'
    <2>1. ThreadsTyped'
        BY <1>1, <1>3, LoopIs, GoOnIs, WorkIs DEF Account, Pcs
    <2>2. /\ file' \in [Items -> Rows] /\ mem' = file'
          /\ \A i \in Items : file'[i] # "none" => file[i] # "none"
        <3>1. file[First(t)] \in Rows /\ file \in [Items -> Rows]
            BY <1>2 DEF RestTyped
        <3>2. \/ file' = file
              \/ file' = [file EXCEPT ![First(t)] = Moved(file[First(t)], d)]
            BY <1>3 DEF Account
        <3>3. mem' = file'
            BY <1>3 DEF Account
        <3>4. Moved(file[First(t)], d) \in Rows
              /\ (file[First(t)] = "none" => Moved(file[First(t)], d) = "none")
            BY <3>1, MovedIs
        <3>5. file' \in [Items -> Rows]
            BY <3>1, <3>2, <3>4
        <3>6. \A i \in Items : file'[i] # "none" => file[i] # "none"
            BY <1>2, <3>1, <3>2, <3>4
        <3> QED
            BY <3>3, <3>5, <3>6
    <2>3. finished' \subseteq Written
        BY <1>2, <1>3 DEF Account, RestTyped
    <2> QED
        BY <1>3, <2>1, <2>2, <2>3, NowStays DEF Account, RestTyped
<1>4. CASE SaveCard(t)
    <2>1. ThreadsTyped'
        BY <1>1, <1>4, LoopIs DEF SaveCard, Pcs
    <2> QED
        BY <1>4, <2>1, NowStays DEF SaveCard, RestTyped, HandInv
<1> QED
    BY <1>3, <1>4 DEF Reports

LEMMA ComposeTyped ==
    ASSUME TypeOK, HandInv, NEW t \in Threads, Compose(t)
    PROVE  TypeOK'
<1> USE TypeIs, TypeIsNext
<1>0. work[t] \in Works /\ work[t].items \subseteq Items
    BY WorkIs
<1>1. ASSUME NEW b \in Batches, Create(t, b) PROVE TypeOK'
    <2>1. [work[t] EXCEPT !.job = b] \in Works
        BY <1>0 DEF Works
    <2>2. ThreadsTyped'
        BY <1>1, <2>1, GoOnIs DEF Create, Pcs
    <2>3. /\ fate' \in [Items -> Range(Fates)]
          /\ \A i \in Items : fate[i] = "given" => fate'[i] = "given"
        BY <1>1, GetIs, FatesAre DEF Create, RestTyped
    <2> QED
        BY <1>0, <1>1, <2>2, <2>3, NowStays DEF Create, RestTyped
<1>2. CASE RememberOffer(t)
    <2>1. [work[t] EXCEPT !.job = "pass", !.gave = work[t].items # {}] \in Works
        BY <1>0 DEF Works
    <2>2. ThreadsTyped'
        BY <1>2, <2>1, GoOnIs DEF RememberOffer, Pcs
    <2>3. work[t].job \in Batches
        BY <1>2 DEF RememberOffer, HandInv, Hand
    <2> QED
        BY <1>0, <1>2, <2>2, <2>3, NowStays DEF RememberOffer, OfferOf, RestTyped
<1>3. CASE Composed(t)
    BY <1>0, <1>3, GoOnIs, NowStays DEF Composed, AfterComposing, RestTyped, Pcs
<1> QED
    BY <1>1, <1>2, <1>3 DEF Compose

\* A read gets its news farther than nowhere: what it misses needs an accident.
LEMMA ReadFates ==
    ASSUME NEW t \in Threads, Read(t), fate \in [Items -> Range(Fates)]
    PROVE  /\ fate' \in [Items -> Range(Fates)]
           /\ \A i \in Items : /\ fate[i] # "none" => fate'[i] # "none"
                               /\ fate[i] = "given" => fate'[i] = "given"
                               /\ fate'[i] = "missed" => fate[i] = "missed" \/ Accident("short")
<1>1. CASE UNCHANGED fate
    BY <1>1
<1>2. ASSUME NEW found \in SUBSET News, NEW admitted \in SUBSET found, Finds(found),
             fate' = Get(Get(fate, News \ found, "missed"), found \ admitted, "aside")
      PROVE  /\ fate' \in [Items -> Range(Fates)]
             /\ \A i \in Items : /\ fate[i] # "none" => fate'[i] # "none"
                                 /\ fate[i] = "given" => fate'[i] = "given"
                                 /\ fate'[i] = "missed"
                                        => fate[i] = "missed" \/ Accident("short")
    <2> DEFINE was == Get(fate, News \ found, "missed")
    <2>1. /\ was \in [Items -> Range(Fates)]
          /\ \A i \in Items : /\ fate[i] # "none" => was[i] # "none"
                              /\ fate[i] = "given" => was[i] = "given"
        BY GetIs, FatesAre
    <2>2. \A i \in Items : was[i] = "missed" => fate[i] = "missed" \/ Accident("short")
        <3>1. CASE found # News
            BY <1>2, <3>1 DEF Finds
        <3>2. CASE found = News
            BY <3>2, RankIs, FatesAre DEF Get
        <3> QED
            BY <3>1, <3>2
    <2>3. fate' = Get(was, found \ admitted, "aside")
        BY <1>2
    <2> HIDE DEF was
    <2> QED
        BY <2>1, <2>2, <2>3, GetIs, FatesAre
<1> QED
    BY <1>1, <1>2 DEF Read

LEMMA StepTyped ==
    ASSUME TypeOK, HandInv, NEW t \in Threads, Step(t)
    PROVE  TypeOK'
<1> USE TypeIs, TypeIsNext
<1>0. work[t] \in Works /\ work[t].items \subseteq Items
    BY WorkIs
<1>1. CASE Read(t)
    <2>1. \A found \in SUBSET News : \A admitted \in SUBSET found :
              [work[t] EXCEPT !.items = admitted] \in Works
        BY <1>0 DEF Works, News, Written
    <2>2. [work[t] EXCEPT !.stamp = OnRecord(t)] \in Works
        BY <1>0, NowIs DEF Works, OnRecord
    <2>3. ThreadsTyped'
        BY <1>1, <2>1, <2>2, GoOnIs DEF Read, Pcs
    <2>4. /\ fate' \in [Items -> Range(Fates)]
          /\ \A i \in Items : fate[i] = "given" => fate'[i] = "given"
        <3>1. fate \in [Items -> Range(Fates)]
            BY DEF RestTyped
        <3> QED
            BY <1>1, <3>1, ReadFates
    <2>5. hit' \in [Accidents -> Nat]
        BY <1>1, AccidentCounts DEF Read, Finds, RestTyped
    <2> QED
        BY <1>1, <2>3, <2>4, <2>5, NowStays DEF Read, RestTyped
<1>2. CASE AddOwed(t)
    <2>1. PICK all \in SUBSET Items, kept \in SUBSET Items :
              /\ fate' = LET cut == Get(fate, all \ kept, "cut") IN
                         IF work[t].job = "task" THEN Get(cut, kept, "given") ELSE cut
              /\ GoOn(t, IF work[t].job = "task" THEN "run" ELSE "compose",
                      [work[t] EXCEPT !.items = kept])
        <3> DEFINE both == work[t].items \cup {i \in Items : file[i] \in OpenStates}
        <3>1. both \in SUBSET Items /\ Capped(both) \in SUBSET both
            BY <1>0 DEF Capped
        <3> QED
            BY <1>2, <3>1 DEF AddOwed
    <2>2. [work[t] EXCEPT !.items = kept] \in Works
        BY <1>0, <2>1 DEF Works
    <2>3. ThreadsTyped'
        BY <2>1, <2>2, GoOnIs DEF Pcs
    <2>4. /\ fate' \in [Items -> Range(Fates)]
          /\ \A i \in Items : fate[i] = "given" => fate'[i] = "given"
        <3> DEFINE cut == Get(fate, all \ kept, "cut")
        <3>1. fate \in [Items -> Range(Fates)]
            BY DEF RestTyped
        <3>2. /\ cut \in [Items -> Range(Fates)]
              /\ \A i \in Items : fate[i] = "given" => cut[i] = "given"
            BY <3>1, GetIs, FatesAre
        <3>3. fate' = cut \/ fate' = Get(cut, kept, "given")
            BY <2>1
        <3> HIDE DEF cut
        <3> QED
            BY <3>2, <3>3, GetIs, FatesAre
    <2> QED
        BY <1>2, <2>3, <2>4, NowStays DEF AddOwed, RestTyped
<1>3. CASE TaskEnds(t)
    <2>1. ThreadsTyped'
        BY <1>3, WorkIs, NoWorkIs, GoOnIs DEF TaskEnds, Pcs
    <2> QED
        BY <1>3, <2>1, NowStays DEF TaskEnds, RestTyped
<1>4. CASE BatchHasResult(t)
    <2>1. work[t].job \in Batches
        BY <1>4 DEF BatchHasResult, HandInv, Hand
    <2>2. task[work[t].job].offer \subseteq Items /\ task[work[t].job].text \subseteq Items
        BY <2>1 DEF RestTyped
    <2>3. [work[t] EXCEPT !.items = task[work[t].job].offer,
                          !.todo = task[work[t].job].text] \in Works
        BY <1>0, <2>2 DEF Works
    <2>4. ThreadsTyped'
        BY <1>4, <2>3, GoOnIs DEF BatchHasResult, Pcs
    <2>5. hit' \in [Accidents -> Nat]
        BY <1>4, AccidentCounts DEF BatchHasResult, RestTyped
    <2> QED
        BY <1>4, <2>1, <2>4, <2>5, NowStays DEF BatchHasResult, RestTyped, NoTask
<1>5. CASE BatchEnds(t)
    <2>1. work[t].job \in Batches
        BY <1>5 DEF BatchEnds, HandInv, Hand
    <2>2. ThreadsTyped'
        BY <1>5, NoWorkIs, GoOnIs DEF BatchEnds, Pcs
    <2>3. task' \in [Batches -> [status : {"none", "queued", "running"},
                                 text : SUBSET Items, offer : SUBSET Items]]
        <3>1. task \in [Batches -> [status : {"none", "queued", "running"},
                                    text : SUBSET Items, offer : SUBSET Items]]
            BY DEF RestTyped
        <3>2. CASE task' = [task EXCEPT ![work[t].job] = NoTask]
            BY <2>1, <3>1, <3>2 DEF NoTask
        <3>3. CASE task' = [task EXCEPT ![work[t].job].status = "queued"]
            BY <2>1, <3>1, <3>3
        <3> QED
            BY <1>5, <3>2, <3>3 DEF BatchEnds
    <2> QED
        BY <1>5, <2>2, <2>3, NowStays DEF BatchEnds, RestTyped
<1> QED
    BY <1>1, <1>2, <1>3, <1>4, <1>5, ComposeTyped, SeenTyped, ReportTyped DEF Step

LEMMA TypePreserved == TypeOK /\ HandInv /\ [Next]_vars => TypeOK'
<1> SUFFICES ASSUME TypeOK, HandInv, [Next]_vars PROVE TypeOK'
    OBVIOUS
<1>1. CASE Kill
    <2>1. ThreadsTyped'
        BY <1>1, NoWorkIs DEF Kill, ThreadsTyped, Pcs
    <2>2. hit' \in [Accidents -> Nat]
        BY <1>1, AccidentCounts DEF Kill
    <2> QED
        BY <1>1, <2>1, <2>2, TypeIs, TypeIsNext, NowStays DEF Kill, RestTyped
<1>2. CASE UNCHANGED vars
    BY <1>2, TypeIs, TypeIsNext, NowStays DEF vars, ThreadsTyped, RestTyped
<1> QED
    BY <1>1, <1>2, PeopleTyped, StartTyped, StepTyped DEF Next

----------------------------------------------------------------------------
(* The watermark.  NoneIsPassed is not inductive: what a thread is      *)
(* about to mark must have been handed over, and everything its stamp       *)
(* covers must be in its bundle or have gone somewhere.                     *)

\* What the watermark has passed went somewhere, if only past a short read.
NoneIsPassed == \A i \in Written : at[i] <= mark => fate[i] # "none"

\* A mail is missed by a short read, and by nothing else.
MissedInv == \A i \in Items : fate[i] = "missed" => hit["short"] > 0

\* Nobody falls back.
FatesGrow ==
    \A i \in Items : /\ fate[i] # "none" => fate'[i] # "none"
                     /\ fate[i] = "given" => fate'[i] = "given"

\* A thread that a step leaves alone.
LEMMA HandStays ==
    ASSUME TypeOK, NEW t \in Threads, Hand(t), UNCHANGED at, FatesGrow,
           pc'[t] = pc[t], work'[t] = work[t]
    PROVE  Hand(t)'
<1>1. work[t].items \subseteq Items
    BY WorkIs
<1>2. Written \subseteq Items /\ Written' = Written /\ Now' = Now
    BY NowStays DEF Written
<1> QED
    BY <1>1, <1>2 DEF Hand, FatesGrow

\* A step of one thread, that leaves the composed tasks and the rows.
LEMMA HandStep ==
    ASSUME TypeOK, HandInv, NEW t \in Threads, UNCHANGED at, FatesGrow, Hand(t)',
           \A u \in Threads \ {t} : pc'[u] = pc[u] /\ work'[u] = work[u],
           \A b \in Batches : task'[b].text \subseteq Written /\ task'[b].offer \subseteq Written,
           \A i \in Items : (mem'[i] = "none" <=> file'[i] = "none")
                               /\ (HasRow(i)' => i \in Written)
    PROVE  HandInv'
<1>1. Written' = Written
    BY NowStays
<1>2. \A u \in Threads : Hand(u)'
    BY HandStays DEF HandInv
<1> QED
    BY <1>1, <1>2 DEF HandInv

\* A thread that is idle has nothing to answer for.
LEMMA IdleHand ==
    ASSUME TypeOK', NEW t \in Threads, pc'[t] = "idle", work'[t] = NoWork
    PROVE  Hand(t)'
<1>1. \A i \in Written' : at'[i] > 0 /\ at'[i] \in Nat
    BY TypeIsNext DEF Written, RestTyped
<1>2. Now' \in Nat
    BY NowIsNext
<1> QED
    BY <1>1, <1>2 DEF Hand, NoWork, Passing

LEMMA PeopleHand == TypeOK /\ HandInv /\ People => HandInv'
<1> SUFFICES ASSUME TypeOK, HandInv, People PROVE HandInv'
    OBVIOUS
<1>1. ASSUME NEW i \in Items, Write(i) PROVE HandInv'
    <2>1. /\ at[i] = 0 /\ at' = [at EXCEPT ![i] = Now + 1] /\ at \in [Items -> Nat]
          /\ UNCHANGED <<file, mem, task, pc, work, fate>>
        BY <1>1, TypeIs, NowIs DEF Write, RestTyped
    <2>2. i \notin Written /\ Written' = Written \cup {i} /\ Now \in Nat
        BY <2>1, NowIs DEF Written
    <2>3. Now' = Now + 1
        BY <2>2, NowIs, FS_AddElement DEF Now
    <2>4. ASSUME NEW t \in Threads PROVE Hand(t)'
        <3>1. work[t].stamp \in Nat /\ work[t].stamp <= Now /\ Hand(t)
            BY WorkIs, NowIs DEF Works, HandInv, Hand
        <3>2. \A k \in Written : at'[k] = at[k] /\ k \in Items
            BY <2>1, <2>2 DEF Written
        <3>3. ~(at'[i] <= work'[t].stamp)
            BY <2>1, <2>2, <3>1
        <3> QED
            BY <2>1, <2>2, <2>3, <3>1, <3>2, <3>3 DEF Hand
    <2> QED
        BY <2>1, <2>2, <2>4 DEF HandInv, HasRow
<1>2. ASSUME NEW i \in Items, Settle(i) PROVE HandInv'
    <2>1. /\ UNCHANGED <<at, task, pc, work, fate>> /\ file[i] # "none"
          /\ file' = [file EXCEPT ![i] = "held"] /\ mem' \in {mem, file'}
        BY <1>2 DEF Settle
    <2>2. \A t \in Threads : Hand(t)'
        BY <2>1, HandStays DEF HandInv, FatesGrow
    <2>3. \A k \in Items : (mem'[k] = "none" <=> file'[k] = "none")
                             /\ (HasRow(k)' => HasRow(k))
        BY <2>1, TypeIs DEF HandInv, RestTyped, HasRow
    <2> QED
        BY <2>1, <2>2, <2>3, NowStays DEF HandInv
<1> QED
    BY <1>1, <1>2 DEF People

LEMMA StartHand ==
    ASSUME TypeOK, HandInv, TypeOK', NEW t \in Threads, Start(t)
    PROVE  HandInv'
<1>1. ASSUME NEW j \in {"task", "pass"}, Begin(t, j) PROVE HandInv'
    <2>1. /\ pc'[t] = "read" /\ work'[t] = [NoWork EXCEPT !.job = j, !.stamp = Now]
          /\ \A u \in Threads \ {t} : pc'[u] = pc[u] /\ work'[u] = work[u]
        BY <1>1, TypeIs DEF Begin, GoOn, ThreadsTyped
    <2>2. UNCHANGED <<at, file, mem, task, fate>>
        BY <1>1 DEF Begin
    <2>3. Hand(t)'
        BY <2>1, <2>2, NowStays, NowIs DEF Hand, NoWork, Passing
    <2> QED
        BY <2>1, <2>2, <2>3, HandStep DEF FatesGrow, HandInv, HasRow
<1>2. ASSUME NEW b \in Batches, TakeBatch(t, b) PROVE HandInv'
    <2>1. /\ pc'[t] = "batch" /\ work'[t] = [NoWork EXCEPT !.job = b]
          /\ \A u \in Threads \ {t} : pc'[u] = pc[u] /\ work'[u] = work[u]
        BY <1>2, TypeIs DEF TakeBatch, GoOn, ThreadsTyped
    <2>2. UNCHANGED <<at, file, mem, fate>> /\ task' = [task EXCEPT ![b].status = "running"]
        BY <1>2 DEF TakeBatch
    <2>3. \A k \in Written : at[k] > 0 /\ at[k] \in Nat
        BY TypeIs, NowIs DEF Written, RestTyped
    <2>4. Hand(t)'
        BY <2>1, <2>2, <2>3, NowStays, NowIs DEF Hand, NoWork, Passing
    <2>5. \A k \in Batches : task'[k].text \subseteq Written /\ task'[k].offer \subseteq Written
        BY <2>2, TypeIs DEF HandInv, RestTyped
    <2> QED
        BY <2>1, <2>2, <2>4, <2>5, HandStep DEF FatesGrow, HandInv, HasRow
<1> QED
    BY <1>1, <1>2 DEF Start

\* A thread whose bundle was handed over, and that still has it, may go on
\* with it.
LEMMA LoopHand ==
    ASSUME TypeOK, NEW t \in Threads, Hand(t), pc[t] \in Passing,
           NEW step \in Passing, NEW after \in Passing \cup {"report", "idle"},
           Loop(t, step, after), TypeOK', UNCHANGED <<at, fate>>
    PROVE  Hand(t)'
<1>1. work[t].todo # {} /\ work[t].todo \subseteq work[t].items
    BY DEF Hand
<1>2. step \in Pcs \ {"idle"} /\ after \in Pcs
    BY DEF Passing, Pcs
<1>3. First(t) \in work[t].todo
    BY <1>1, <1>2, LoopIs
<1>4. \/ /\ pc'[t] = after /\ work'[t] = IF after = "idle" THEN NoWork ELSE All(t)
      \/ /\ work[t].todo \ {First(t)} # {} /\ pc'[t] = step /\ work'[t] = Rest(t)
    BY <1>1, <1>2, LoopIs
<1>5. Written' = Written /\ Now' = Now
    BY NowStays
<1>6. CASE pc'[t] = "idle" /\ work'[t] = NoWork
    BY <1>6, IdleHand
<1>7. CASE pc'[t] = after /\ after # "idle" /\ work'[t] = All(t)
    <2>1. /\ work'[t].items = work[t].items /\ work'[t].todo = work[t].items
          /\ work'[t].stamp = work[t].stamp
        BY <1>7, WorkIs DEF Works
    <2>2. \A i \in work[t].items : fate[i] = "given"
        BY DEF Hand
    <2> QED
        BY <1>1, <1>5, <1>7, <2>1, <2>2 DEF Hand, Passing
<1>8. CASE /\ work[t].todo \ {First(t)} # {} /\ pc'[t] = step /\ work'[t] = Rest(t)
    BY <1>1, <1>5, <1>8, WorkIs DEF Hand, Works, Passing
<1> QED
    BY <1>4, <1>6, <1>7, <1>8

LEMMA SeenHand ==
    ASSUME TypeOK, HandInv, TypeOK', NEW t \in Threads, Seen(t)
    PROVE  HandInv'
<1>1. Hand(t) /\ Written' = Written /\ Now' = Now /\ UNCHANGED at
    BY NowStays DEF HandInv, Seen, MarkSeen, Observe, Relay, Post, RecordRelay
<1>2. /\ UNCHANGED <<task, fate>>
      /\ \A i \in Items : (mem'[i] = "none" <=> file'[i] = "none")
                          /\ (HasRow(i)' => i \in Written)
    <2>1. CASE Observe(t)
        <3>1. First(t) \in Written
            BY <2>1, WorkIs, FirstIn, TypeIs DEF Observe, HandInv, Hand, Passing, RestTyped
        <3> QED
            BY <2>1, <3>1, TypeIs DEF Observe, HandInv, HasRow, RestTyped
    <2>2. CASE ~Observe(t)
        BY <2>2 DEF Seen, MarkSeen, Relay, Post, RecordRelay, HandInv, HasRow
    <2> QED
        BY <2>1, <2>2
<1>3. CASE MarkSeen(t)
    <2>1. [All(t) EXCEPT !.stamp = 0, !.gave = FALSE] \in Works
        <3>1. \A w \in Works : [w EXCEPT !.stamp = 0] \in Works
            BY NowIs DEF Works
        <3>2. \A w \in Works : [w EXCEPT !.gave = FALSE] \in Works
            BY DEF Works
        <3> QED
            BY <3>1, <3>2, WorkIs
    <2>2. /\ pc[t] = "mark" /\ pc'[t] = IF work[t].items = {} THEN "idle" ELSE "observe"
          /\ work'[t] = IF pc'[t] = "idle" THEN NoWork
                        ELSE [All(t) EXCEPT !.stamp = 0, !.gave = FALSE]
          /\ \A u \in Threads \ {t} : pc'[u] = pc[u] /\ work'[u] = work[u]
        BY <1>3, <2>1, GoOnIs DEF MarkSeen, Pcs
    <2>3. Hand(t)'
        <3>1. CASE work[t].items = {}
            BY <2>2, <3>1, IdleHand
        <3>2. CASE work[t].items # {}
            <4>1. /\ work'[t].items = work[t].items /\ work'[t].todo = work[t].items
                  /\ work'[t].stamp = 0
                BY <2>2, <3>2, WorkIs DEF Works
            <4>2. \A i \in work[t].items : fate[i] = "given"
                BY <1>1, <2>2 DEF Hand
            <4>3. \A i \in Written : ~(at[i] <= 0)
                BY TypeIs, NowIs DEF Written, RestTyped
            <4> QED
                BY <1>1, <1>2, <2>2, <3>2, <4>1, <4>2, <4>3, NowIs DEF Hand, Passing
        <3> QED
            BY <3>1, <3>2
    <2> QED
        BY <1>1, <1>2, <2>2, <2>3, HandStep DEF FatesGrow, HandInv
<1>4. CASE Observe(t) \/ RecordRelay(t) \/ Relay(t) \/ Post(t)
    <2>1. pc[t] \in Passing /\ AfterRelay(t) \in {"report", "idle"}
        BY <1>4 DEF Observe, Relay, Post, RecordRelay, Passing, AfterRelay
    <2>2. \/ \E step \in Passing, after \in Passing \cup {"report", "idle"} :
                 Loop(t, step, after)
          \/ \E step \in Passing : GoOn(t, step, work[t])
        BY <1>4, <2>1 DEF Observe, Relay, Post, RecordRelay, Passing
    <2>3. work[t].todo # {} /\ work[t].todo \subseteq work[t].items
        BY <1>1, <2>1 DEF Hand
    <2>4. ASSUME NEW step \in Passing, NEW after \in Passing \cup {"report", "idle"},
                 Loop(t, step, after)
          PROVE  Hand(t)' /\ \A u \in Threads \ {t} : pc'[u] = pc[u] /\ work'[u] = work[u]
        <3>1. Hand(t)'
            BY <1>1, <1>2, <2>1, <2>4, LoopHand
        <3>2. \A u \in Threads \ {t} : pc'[u] = pc[u] /\ work'[u] = work[u]
            BY <2>3, <2>4, LoopIs DEF Passing, Pcs
        <3> QED
            BY <3>1, <3>2
    <2>5. ASSUME NEW step \in Passing, GoOn(t, step, work[t])
          PROVE  Hand(t)' /\ \A u \in Threads \ {t} : pc'[u] = pc[u] /\ work'[u] = work[u]
        <3>1. /\ pc'[t] = step /\ work'[t] = work[t]
              /\ \A u \in Threads \ {t} : pc'[u] = pc[u] /\ work'[u] = work[u]
            BY <2>5, WorkIs, GoOnIs DEF Passing, Pcs
        <3> QED
            BY <1>1, <1>2, <2>1, <3>1 DEF Hand, Passing
    <2> QED
        BY <1>1, <1>2, <2>2, <2>4, <2>5, HandStep DEF FatesGrow, HandInv
<1> QED
    BY <1>3, <1>4 DEF Seen

LEMMA ReportHand ==
    ASSUME TypeOK, HandInv, TypeOK', NEW t \in Threads, Reports(t)
    PROVE  HandInv'
<1>1. Hand(t) /\ pc[t] \in {"report", "card"} /\ work[t].todo # {}
    BY DEF HandInv, Hand, Reports, Account, SaveCard
<1>2. UNCHANGED <<at, task, fate>> /\ Written' = Written /\ Now' = Now
    BY NowStays DEF Reports, Account, SaveCard
<1>3. \A i \in Items : (mem'[i] = "none" <=> file'[i] = "none")
                        /\ (HasRow(i)' => i \in Written)
    <2>1. CASE SaveCard(t)
        BY <2>1 DEF SaveCard, HandInv, HasRow
    <2>2. ASSUME NEW d \in Dispositions, Account(t, d)
          PROVE  mem' = file' /\ \A i \in Items : file[i] = "none" => file'[i] = "none"
        <3>1. \/ file' = file
              \/ file' = [file EXCEPT ![First(t)] = Moved(file[First(t)], d)]
            BY <2>2 DEF Account
        <3>2. \A row \in Rows : row = "none" => Moved(row, d) = "none"
            BY MovedIs
        <3>3. file \in [Items -> Rows] /\ mem' = file'
            BY <2>2, TypeIs DEF Account, RestTyped
        <3> QED
            BY <3>1, <3>2, <3>3
    <2> QED
        BY <2>1, <2>2 DEF Reports, HandInv, HasRow
<1>4. \/ Loop(t, "report", "idle")
      \/ GoOn(t, "card", work[t])
    BY DEF Reports, Account, SaveCard
<1>5. CASE Loop(t, "report", "idle")
    <2>1. /\ First(t) \in work[t].todo
          /\ \A u \in Threads \ {t} : pc'[u] = pc[u] /\ work'[u] = work[u]
          /\ \/ pc'[t] = "idle" /\ work'[t] = NoWork
             \/ /\ work[t].todo \ {First(t)} # {} /\ pc'[t] = "report"
                /\ work'[t] = Rest(t)
        BY <1>1, <1>5, LoopIs DEF Pcs
    <2>2. ASSUME work[t].todo \ {First(t)} # {}, pc'[t] = "report", work'[t] = Rest(t)
          PROVE  Hand(t)'
        <3>1. /\ work'[t].items = work[t].items /\ work'[t].gave = work[t].gave
              /\ work'[t].todo = work[t].todo \ {First(t)} /\ work'[t].stamp = work[t].stamp
            BY <2>2, WorkIs DEF Works
        <3> QED
            BY <1>1, <1>2, <2>2, <3>1 DEF Hand, Passing
    <2>3. Hand(t)'
        BY <2>1, <2>2, IdleHand
    <2> QED
        BY <1>2, <1>3, <2>1, <2>3, HandStep DEF FatesGrow, HandInv
<1>6. CASE GoOn(t, "card", work[t])
    <2>1. /\ pc'[t] = "card" /\ work'[t] = work[t]
          /\ \A u \in Threads \ {t} : pc'[u] = pc[u] /\ work'[u] = work[u]
        BY <1>6, WorkIs, GoOnIs DEF Pcs
    <2>2. Hand(t)'
        BY <1>1, <1>2, <2>1 DEF Hand, Passing
    <2> QED
        BY <1>2, <1>3, <2>1, <2>2, HandStep DEF FatesGrow, HandInv
<1> QED
    BY <1>4, <1>5, <1>6

LEMMA ComposeHand ==
    ASSUME TypeOK, HandInv, TypeOK', NEW t \in Threads, Compose(t)
    PROVE  HandInv'
<1>0. /\ Hand(t) /\ work[t] \in Works /\ UNCHANGED at /\ Written' = Written /\ Now' = Now
      /\ fate \in [Items -> Range(Fates)]
    BY NowStays, WorkIs, TypeIs DEF HandInv, Compose, Create, RememberOffer, Composed, RestTyped
<1>1. ASSUME NEW b \in Batches, Create(t, b) PROVE HandInv'
    <2>1. [work[t] EXCEPT !.job = b] \in Works
        BY <1>0 DEF Works
    <2>2. /\ pc[t] = "compose" /\ pc'[t] = "offer" /\ work'[t] = [work[t] EXCEPT !.job = b]
          /\ \A u \in Threads \ {t} : pc'[u] = pc[u] /\ work'[u] = work[u]
        BY <1>1, <2>1, GoOnIs DEF Create, Pcs
    <2>3. /\ work'[t].items = work[t].items /\ work'[t].todo = work[t].todo
          /\ work'[t].stamp = work[t].stamp /\ work'[t].job = b
        BY <1>0, <2>2 DEF Works
    <2>4. fate' = Get(fate, work[t].items, "given")
        BY <1>1 DEF Create
    <2>5. FatesGrow /\ \A i \in Items : i \in work[t].items => fate'[i] = "given"
        BY <1>0, <2>4, GetIs, FatesAre DEF FatesGrow
    <2>6. Hand(t)'
        BY <1>0, <2>2, <2>3, <2>5, WorkIs DEF Hand, Passing, FatesGrow, Written
    <2>7. \A k \in Batches : task'[k].text \subseteq Written /\ task'[k].offer \subseteq Written
        BY <1>0, <1>1, TypeIs DEF Create, HandInv, Hand, RestTyped
    <2>8. UNCHANGED <<file, mem>>
        BY <1>1 DEF Create
    <2> QED
        BY <1>0, <2>2, <2>5, <2>6, <2>7, <2>8, HandStep DEF HandInv, HasRow
<1>2. CASE RememberOffer(t)
    <2>1. [work[t] EXCEPT !.job = "pass", !.gave = work[t].items # {}] \in Works
        BY <1>0 DEF Works
    <2>2. /\ pc[t] = "offer" /\ pc'[t] = "compose"
          /\ work'[t] = [work[t] EXCEPT !.job = "pass", !.gave = work[t].items # {}]
          /\ \A u \in Threads \ {t} : pc'[u] = pc[u] /\ work'[u] = work[u]
        BY <1>2, <2>1, GoOnIs DEF RememberOffer, Pcs
    <2>3. /\ work'[t].items = work[t].items /\ work'[t].todo = work[t].todo
          /\ work'[t].stamp = work[t].stamp
        BY <1>0, <2>2 DEF Works
    <2>4. work[t].job \in Batches /\ task' = [task EXCEPT ![work[t].job].offer = work[t].items]
        BY <1>0, <1>2 DEF RememberOffer, OfferOf, Hand
    <2>5. Hand(t)'
        BY <1>0, <1>2, <2>2, <2>3 DEF RememberOffer, Hand, Passing
    <2>6. \A k \in Batches : task'[k].text \subseteq Written /\ task'[k].offer \subseteq Written
        BY <1>0, <2>4, TypeIs DEF HandInv, Hand, RestTyped
    <2>7. mem' = file /\ UNCHANGED <<file, fate>>
        BY <1>2 DEF RememberOffer
    <2> QED
        BY <1>0, <2>2, <2>5, <2>6, <2>7, HandStep DEF HandInv, FatesGrow, HasRow
<1>3. CASE Composed(t)
    <2>1. /\ pc[t] = "compose" /\ pc'[t] = AfterComposing(t)
          /\ work'[t] = IF pc'[t] = "idle" THEN NoWork ELSE work[t]
          /\ \A u \in Threads \ {t} : pc'[u] = pc[u] /\ work'[u] = work[u]
        BY <1>0, <1>3, GoOnIs DEF Composed, AfterComposing, Pcs
    <2>2. UNCHANGED <<file, mem, task, fate>>
        BY <1>3 DEF Composed
    <2>3. Hand(t)'
        <3>1. CASE work[t].gave
            BY <1>0, <2>1, <2>2, <3>1 DEF AfterComposing, Hand, Passing
        <3>2. CASE ~work[t].gave
            BY <2>1, <3>2, IdleHand DEF AfterComposing
        <3> QED
            BY <3>1, <3>2
    <2> QED
        BY <1>0, <2>1, <2>2, <2>3, HandStep DEF HandInv, FatesGrow, HasRow
<1> QED
    BY <1>1, <1>2, <1>3 DEF Compose

\* What a bundle loses on its way is dropped by the judge, or by the cap.
LEMMA CollectHand ==
    ASSUME TypeOK, HandInv, TypeOK', NEW t \in Threads, NoneIsPassed, Read(t) \/ AddOwed(t)
    PROVE  HandInv'
<1>0. /\ Hand(t) /\ work[t] \in Works /\ UNCHANGED at /\ Written' = Written /\ Now' = Now
      /\ fate \in [Items -> Range(Fates)] /\ work[t].items \subseteq Items
    BY NowStays, WorkIs, TypeIs DEF HandInv, Read, AddOwed, RestTyped
<1>1. ASSUME NEW found \in SUBSET News, NEW admitted \in SUBSET found,
             GoOn(t, "owed", [work[t] EXCEPT !.items = admitted]),
             fate' = Get(Get(fate, News \ found, "missed"), found \ admitted, "aside"),
             Read(t)
      PROVE  HandInv'
    <2>1. [work[t] EXCEPT !.items = admitted] \in Works
        BY <1>0 DEF Works, News, Written
    <2>2. /\ pc[t] = "read" /\ pc'[t] = "owed"
          /\ work'[t] = [work[t] EXCEPT !.items = admitted]
          /\ \A u \in Threads \ {t} : pc'[u] = pc[u] /\ work'[u] = work[u]
        BY <1>1, <2>1, GoOnIs DEF Read, Pcs
    <2>3. /\ work'[t].items = admitted /\ work'[t].todo = work[t].todo
          /\ work'[t].stamp = work[t].stamp /\ work'[t].gave = work[t].gave
        BY <1>0, <2>2 DEF Works
    <2>4. FatesGrow /\ \A i \in Items : i \in News \ admitted => fate'[i] # "none"
        <3> DEFINE was == Get(fate, News \ found, "missed")
        <3>1. /\ was \in [Items -> Range(Fates)]
              /\ \A i \in Items : i \in News \ found => was[i] # "none"
            BY <1>0, GetIs, FatesAre
        <3>2. fate' = Get(was, found \ admitted, "aside")
            BY <1>1
        <3> HIDE DEF was
        <3>3. \A i \in Items : i \in News \ admitted => fate'[i] # "none"
            BY <3>1, <3>2, GetIs, FatesAre
        <3> QED
            BY <1>0, <1>1, <3>3, ReadFates DEF FatesGrow
    <2>5. \A i \in Written : at[i] <= work[t].stamp => fate'[i] # "none" \/ i \in admitted
        <3> TAKE i \in Written
        <3>1. i \in Items /\ at[i] \in Nat /\ mark \in Nat
            BY TypeIs, NowIs DEF Written, RestTyped
        <3>2. CASE i \in News
            BY <2>4, <3>1, <3>2
        <3>3. CASE i \notin News
            BY <2>4, <3>1, <3>3 DEF News, NoneIsPassed, FatesGrow
        <3> QED
            BY <3>2, <3>3
    <2>6. Hand(t)'
        BY <1>0, <2>2, <2>3, <2>5 DEF Hand, Passing, News
    <2>7. UNCHANGED <<task, file, mem>>
        BY <1>1 DEF Read
    <2> QED
        BY <1>0, <2>2, <2>4, <2>6, <2>7, HandStep DEF HandInv, HasRow
<1>2. ASSUME GoOn(t, "owed", [work[t] EXCEPT !.stamp = OnRecord(t)]), UNCHANGED fate, Read(t)
      PROVE  HandInv'
    <2>1. [work[t] EXCEPT !.stamp = OnRecord(t)] \in Works
        BY <1>0, NowIs DEF Works, OnRecord
    <2>2. /\ pc[t] = "read" /\ pc'[t] = "owed"
          /\ work'[t] = [work[t] EXCEPT !.stamp = OnRecord(t)]
          /\ \A u \in Threads \ {t} : pc'[u] = pc[u] /\ work'[u] = work[u]
        BY <1>2, <2>1, GoOnIs DEF Read, Pcs
    <2>3. /\ work'[t].items = work[t].items /\ work'[t].todo = work[t].todo
          /\ work'[t].stamp = 0 /\ work'[t].gave = work[t].gave
        BY <1>0, <2>2 DEF Works, OnRecord
    <2>4. \A i \in Written : ~(at[i] <= 0)
        BY TypeIs, NowIs DEF Written, RestTyped
    <2>5. Hand(t)'
        BY <1>0, <2>2, <2>3, <2>4, NowIs DEF Hand, Passing
    <2>6. UNCHANGED <<task, file, mem>>
        BY <1>2 DEF Read
    <2> QED
        BY <1>0, <1>2, <2>2, <2>5, <2>6, HandStep DEF HandInv, HasRow, FatesGrow
<1>3. CASE AddOwed(t)
    <2> DEFINE all == work[t].items \cup {i \in Items : file[i] \in OpenStates}
    <2> DEFINE runs == work[t].job = "task"
    <2> DEFINE cut == Get(fate, all \ Capped(all), "cut")
    <2>1. /\ pc[t] = "owed" /\ mem' = file /\ UNCHANGED <<file, task>>
          /\ GoOn(t, IF runs THEN "run" ELSE "compose", [work[t] EXCEPT !.items = Capped(all)])
          /\ fate' = IF runs THEN Get(cut, Capped(all), "given") ELSE cut
        BY <1>3 DEF AddOwed
    <2>2. all \subseteq Items /\ all \subseteq Written /\ Capped(all) \subseteq all
        BY <1>0 DEF HandInv, Hand, HasRow, OpenStates, Capped
    <2>3. PICK kept \in SUBSET all : kept = Capped(all)
        BY <2>2
    <2> HIDE DEF all, runs
    <2>4. [work[t] EXCEPT !.items = kept] \in Works
        BY <1>0, <2>2, <2>3 DEF Works
    <2>5. /\ pc'[t] = IF runs THEN "run" ELSE "compose"
          /\ work'[t] = [work[t] EXCEPT !.items = kept]
          /\ \A u \in Threads \ {t} : pc'[u] = pc[u] /\ work'[u] = work[u]
        BY <2>1, <2>3, <2>4, GoOnIs DEF Pcs
    <2>6. /\ work'[t].items = kept /\ work'[t].todo = work[t].todo
          /\ work'[t].stamp = work[t].stamp /\ work'[t].gave = work[t].gave
        BY <1>0, <2>5 DEF Works
    <2>7. /\ cut \in [Items -> Range(Fates)]
          /\ \A i \in Items : /\ fate[i] # "none" => cut[i] # "none"
                              /\ fate[i] = "given" => cut[i] = "given"
                              /\ i \in all \ kept => cut[i] # "none"
        BY <1>0, <2>3, GetIs, FatesAre
    <2> HIDE DEF cut
    <2>8. /\ FatesGrow
          /\ \A i \in Items : /\ i \in all \ kept => fate'[i] # "none"
                              /\ runs /\ i \in kept => fate'[i] = "given"
        BY <2>1, <2>3, <2>7, GetIs, FatesAre DEF FatesGrow
    <2>9. \A i \in Written : at[i] <= work[t].stamp => fate'[i] # "none" \/ i \in kept
        <3> TAKE i \in Written
        <3>1. i \in Items /\ (i \in work[t].items => i \in all)
            BY DEF Written, all
        <3> QED
            BY <1>0, <2>1, <2>8, <3>1 DEF Hand, FatesGrow
    <2>10. Hand(t)'
        BY <1>0, <2>1, <2>2, <2>5, <2>6, <2>8, <2>9 DEF Hand, Passing
    <2> QED
        BY <1>0, <2>1, <2>5, <2>8, <2>10, HandStep DEF HandInv, HasRow
<1> QED
    BY <1>1, <1>2, <1>3 DEF Read

LEMMA BatchHand ==
    ASSUME TypeOK, HandInv, TypeOK', NEW t \in Threads,
           TaskEnds(t) \/ BatchHasResult(t) \/ BatchEnds(t)
    PROVE  HandInv'
<1>0. /\ Hand(t) /\ work[t] \in Works /\ UNCHANGED <<at, fate>>
      /\ Written' = Written /\ Now' = Now /\ NoWork \in Works
    BY NowStays, WorkIs, NoWorkIs DEF HandInv, TaskEnds, BatchHasResult, BatchEnds
<1>1. CASE TaskEnds(t)
    <2>1. /\ \A u \in Threads \ {t} : pc'[u] = pc[u] /\ work'[u] = work[u]
          /\ \/ pc'[t] = "mark" /\ work'[t] = All(t)
             \/ pc'[t] = "idle" /\ work'[t] = NoWork
        BY <1>0, <1>1, WorkIs, GoOnIs DEF TaskEnds, Pcs
    <2>2. pc[t] = "run" /\ UNCHANGED <<file, mem, task>>
        BY <1>1 DEF TaskEnds
    <2>3. ASSUME pc'[t] = "mark", work'[t] = All(t) PROVE Hand(t)'
        <3>1. /\ work'[t].items = work[t].items /\ work'[t].todo = work[t].items
              /\ work'[t].stamp = work[t].stamp
            BY <2>3, WorkIs DEF Works
        <3> QED
            BY <1>0, <2>2, <2>3, <3>1 DEF Hand, Passing
    <2>4. Hand(t)'
        BY <2>1, <2>3, IdleHand
    <2> QED
        BY <1>0, <2>1, <2>2, <2>4, HandStep DEF HandInv, FatesGrow, HasRow
<1>2. CASE BatchHasResult(t)
    <2> DEFINE b == work[t].job
    <2>1. pc[t] = "batch" /\ b \in Batches /\ task' = [task EXCEPT ![b] = NoTask]
          /\ mem' = file /\ UNCHANGED file
        BY <1>0, <1>2 DEF BatchHasResult, Hand
    <2>2. task[b].offer \subseteq Items /\ task[b].text \subseteq Items
        BY <2>1, TypeIs DEF RestTyped
    <2> DEFINE w == [work[t] EXCEPT !.items = task[b].offer, !.todo = task[b].text]
    <2>3. w \in Works
        BY <1>0, <2>2 DEF Works
    <2>4. /\ \A u \in Threads \ {t} : pc'[u] = pc[u] /\ work'[u] = work[u]
          /\ \/ pc'[t] = "idle" /\ work'[t] = NoWork
             \/ pc'[t] = "report" /\ work'[t] = w /\ task[b].text # {}
        BY <1>2, <2>3, GoOnIs DEF BatchHasResult, Pcs
    <2>5. ASSUME pc'[t] = "report", work'[t] = w, task[b].text # {} PROVE Hand(t)'
        <3>1. /\ work'[t].items = task[b].offer /\ work'[t].todo = task[b].text
              /\ work'[t].stamp = work[t].stamp /\ work'[t].gave = work[t].gave
            BY <1>0, <2>5 DEF Works
        <3>2. task[b].text \subseteq Written /\ task[b].offer \subseteq Written
            BY <2>1 DEF HandInv
        <3>3. work[t].stamp = 0 /\ ~work[t].gave
            BY <1>0, <2>1 DEF Hand
        <3>4. \A i \in Written : ~(at[i] <= 0)
            BY TypeIs, NowIs DEF Written, RestTyped
        <3> QED
            BY <1>0, <2>5, <3>1, <3>2, <3>3, <3>4, NowIs DEF Hand, Passing
    <2>6. Hand(t)'
        BY <2>4, <2>5, IdleHand
    <2>7. \A k \in Batches : task'[k].text \subseteq Written /\ task'[k].offer \subseteq Written
        BY <2>1, TypeIs DEF HandInv, RestTyped, NoTask
    <2> QED
        BY <1>0, <2>1, <2>4, <2>6, <2>7, HandStep DEF HandInv, FatesGrow, HasRow
<1>3. CASE BatchEnds(t)
    <2> DEFINE b == work[t].job
    <2>1. /\ b \in Batches /\ UNCHANGED <<file, mem>>
          /\ task' \in {[task EXCEPT ![b] = NoTask], [task EXCEPT ![b].status = "queued"]}
        BY <1>0, <1>3 DEF BatchEnds, Hand
    <2>2. /\ pc'[t] = "idle" /\ work'[t] = NoWork
          /\ \A u \in Threads \ {t} : pc'[u] = pc[u] /\ work'[u] = work[u]
        BY <1>0, <1>3, GoOnIs DEF BatchEnds, Pcs
    <2>3. Hand(t)'
        BY <2>2, IdleHand
    <2>4. \A k \in Batches : task'[k].text \subseteq Written /\ task'[k].offer \subseteq Written
        BY <2>1, TypeIs DEF HandInv, RestTyped, NoTask
    <2> QED
        BY <1>0, <2>1, <2>2, <2>3, <2>4, HandStep DEF HandInv, FatesGrow, HasRow
<1> QED
    BY <1>1, <1>2, <1>3

LEMMA HandPreserved ==
    TypeOK /\ HandInv /\ NoneIsPassed /\ [Next]_vars /\ TypeOK' => HandInv'
<1> SUFFICES ASSUME TypeOK, HandInv, NoneIsPassed, [Next]_vars, TypeOK' PROVE HandInv'
    OBVIOUS
<1>1. CASE Kill
    <2>1. /\ UNCHANGED <<at, file, fate>> /\ mem' = file /\ Written' = Written
          /\ \A t \in Threads : pc'[t] = "idle" /\ work'[t] = NoWork
        BY <1>1, NowStays DEF Kill
    <2>2. \A b \in Batches : task'[b].text \subseteq Written /\ task'[b].offer \subseteq Written
        BY <1>1, TypeIs DEF Kill, HandInv, RestTyped
    <2> QED
        BY <2>1, <2>2, IdleHand DEF HandInv, HasRow
<1>2. CASE UNCHANGED vars
    <2>1. Written' = Written /\ UNCHANGED <<at, file, mem, task, pc, work, fate>>
        BY <1>2, NowStays DEF vars
    <2> QED
        BY <2>1, HandStays DEF HandInv, HasRow, FatesGrow
<1> QED
    BY <1>1, <1>2, PeopleHand, StartHand, SeenHand, ReportHand, ComposeHand, CollectHand,
       BatchHand DEF Next, Step

\* No step of the program lets the watermark pass what went nowhere.
LEMMA SkipPreserved ==
    TypeOK /\ HandInv /\ NoneIsPassed /\ [Next]_vars => NoneIsPassed'
<1> SUFFICES ASSUME TypeOK, HandInv, NoneIsPassed, [Next]_vars PROVE NoneIsPassed'
    OBVIOUS
<1>0. /\ at \in [Items -> Nat] /\ mark \in Nat /\ mark <= Now /\ Now \in Nat
      /\ fate \in [Items -> Range(Fates)] /\ Written \subseteq Items
    BY TypeIs, NowIs DEF RestTyped, Written
<1>1. ASSUME UNCHANGED <<at, mark>>, FatesGrow PROVE NoneIsPassed'
    BY <1>0, <1>1, NowStays DEF NoneIsPassed, FatesGrow
<1>2. ASSUME NEW i \in Items, Write(i) PROVE NoneIsPassed'
    <2>1. /\ at[i] = 0 /\ at' = [at EXCEPT ![i] = Now + 1] /\ UNCHANGED <<mark, fate>>
        BY <1>2 DEF Write
    <2> QED
        BY <1>0, <2>1 DEF NoneIsPassed, Written
<1>3. ASSUME NEW t \in Threads, MarkSeen(t) PROVE NoneIsPassed'
    <2>1. /\ pc[t] = "mark" /\ mark' \in {mark, work[t].stamp} /\ UNCHANGED <<at, fate>>
        BY <1>3 DEF MarkSeen, Stamp
    <2>2. Hand(t) /\ Written' = Written
        BY <2>1, NowStays DEF HandInv
    <2> QED
        BY <2>1, <2>2 DEF NoneIsPassed, Hand
<1>4. ASSUME NEW t \in Threads, Read(t) PROVE UNCHANGED <<at, mark>> /\ FatesGrow
    BY <1>0, <1>4, ReadFates DEF Read, FatesGrow
<1>5. ASSUME NEW t \in Threads, AddOwed(t) PROVE UNCHANGED <<at, mark>> /\ FatesGrow
    <2>1. PICK out, kept :
              \/ fate' = Get(fate, out, "cut")
              \/ fate' = Get(Get(fate, out, "cut"), kept, "given")
        BY <1>5 DEF AddOwed
    <2> DEFINE cut == Get(fate, out, "cut")
    <2>2. /\ cut \in [Items -> Range(Fates)]
          /\ \A i \in Items : /\ fate[i] # "none" => cut[i] # "none"
                              /\ fate[i] = "given" => cut[i] = "given"
        BY <1>0, GetIs, FatesAre
    <2>3. fate' = cut \/ fate' = Get(cut, kept, "given")
        BY <2>1
    <2> HIDE DEF cut
    <2>4. FatesGrow
        BY <2>2, <2>3, GetIs, FatesAre DEF FatesGrow
    <2> QED
        BY <1>5, <2>4 DEF AddOwed
<1>6. ASSUME NEW t \in Threads, NEW b \in Batches, Create(t, b)
      PROVE  UNCHANGED <<at, mark>> /\ FatesGrow
    BY <1>0, <1>6, GetIs, FatesAre DEF Create, FatesGrow
<1>7. ASSUME NEW t \in Threads, Start(t) \/ RememberOffer(t) \/ Composed(t) \/ TaskEnds(t)
                 \/ BatchHasResult(t) \/ BatchEnds(t) \/ Reports(t)
                 \/ Observe(t) \/ Relay(t) \/ Post(t) \/ RecordRelay(t)
      PROVE  UNCHANGED <<at, mark, fate>>
    BY <1>7 DEF Start, Begin, TakeBatch, RememberOffer, Composed, TaskEnds, BatchHasResult,
                BatchEnds, Reports, Account, SaveCard, Observe, Relay, Post, RecordRelay
<1>8. ASSUME \/ \E i \in Items : Settle(i)
             \/ Kill \/ UNCHANGED vars
      PROVE  UNCHANGED <<at, mark, fate>>
    BY <1>8 DEF Settle, Kill, vars
<1> QED
    BY <1>1, <1>2, <1>3, <1>4, <1>5, <1>6, <1>7, <1>8
       DEF Next, People, Step, Compose, Seen, FatesGrow

\* Accidents are counted and not forgotten.
LEMMA HitsGrow ==
    ASSUME TypeOK, \/ UNCHANGED hit
                   \/ \E a \in Accidents : Accident(a)
    PROVE  hit["short"] > 0 => hit'["short"] > 0
<1>1. hit \in [Accidents -> Nat] /\ "short" \in Accidents
    BY TypeIs DEF RestTyped, Accidents
<1>2. CASE UNCHANGED hit
    BY <1>2
<1>3. ASSUME NEW a \in Accidents, Accident(a)
      PROVE  hit["short"] > 0 => hit'["short"] > 0
    BY <1>1, <1>3, AccidentCounts
<1> QED
    BY <1>2, <1>3

\* An accident has happened.
LEMMA ShortCounts == TypeOK /\ Accident("short") => hit'["short"] > 0
<1> SUFFICES ASSUME TypeOK, Accident("short") PROVE hit'["short"] > 0
    OBVIOUS
<1>1. hit["short"] \in Nat
    BY TypeIs DEF RestTyped, Accidents
<1> QED
    BY <1>1, AccidentCounts

LEMMA MissedPreserved == TypeOK /\ MissedInv /\ [Next]_vars => MissedInv'
<1> SUFFICES ASSUME TypeOK, MissedInv, [Next]_vars PROVE MissedInv'
    OBVIOUS
<1>0. fate \in [Items -> Range(Fates)]
    BY TypeIs DEF RestTyped
<1>1. ASSUME UNCHANGED fate, UNCHANGED hit \/ \E a \in Accidents : Accident(a)
      PROVE  MissedInv'
    BY <1>1, HitsGrow DEF MissedInv
<1>2. ASSUME NEW t \in Threads, Read(t) PROVE MissedInv'
    <2>1. UNCHANGED hit \/ \E a \in Accidents : Accident(a)
        BY <1>2 DEF Read, Finds, Accidents
    <2>2. \A i \in Items : fate'[i] = "missed" => fate[i] = "missed" \/ Accident("short")
        BY <1>0, <1>2, ReadFates
    <2> QED
        BY <2>1, <2>2, HitsGrow, ShortCounts DEF MissedInv
<1>3. ASSUME UNCHANGED hit,
             \A i \in Items : fate'[i] = "missed" => fate[i] = "missed"
      PROVE  MissedInv'
    BY <1>3 DEF MissedInv
<1>4. ASSUME NEW t \in Threads, AddOwed(t) PROVE MissedInv'
    <2>1. PICK out, kept :
              \/ fate' = Get(fate, out, "cut")
              \/ fate' = Get(Get(fate, out, "cut"), kept, "given")
        BY <1>4 DEF AddOwed
    <2> DEFINE cut == Get(fate, out, "cut")
    <2>2. /\ cut \in [Items -> Range(Fates)]
          /\ \A i \in Items : cut[i] = "missed" => fate[i] = "missed"
        BY <1>0, GetIs, FatesAre
    <2>3. fate' = cut \/ fate' = Get(cut, kept, "given")
        BY <2>1
    <2> HIDE DEF cut
    <2>4. \A i \in Items : fate'[i] = "missed" => fate[i] = "missed"
        BY <2>2, <2>3, GetIs, FatesAre
    <2> QED
        BY <1>3, <1>4, <2>4 DEF AddOwed
<1>5. ASSUME NEW t \in Threads, NEW b \in Batches, Create(t, b) PROVE MissedInv'
    <2>1. \A i \in Items : fate'[i] = "missed" => fate[i] = "missed"
        BY <1>0, <1>5, GetIs, FatesAre DEF Create
    <2> QED
        BY <1>3, <1>5, <2>1 DEF Create
<1>6. ASSUME NEW t \in Threads, Start(t) \/ RememberOffer(t) \/ Composed(t) \/ TaskEnds(t)
                 \/ BatchHasResult(t) \/ BatchEnds(t) \/ Reports(t) \/ MarkSeen(t)
                 \/ Observe(t) \/ Relay(t) \/ Post(t) \/ RecordRelay(t)
      PROVE  UNCHANGED fate /\ (UNCHANGED hit \/ \E a \in Accidents : Accident(a))
    BY <1>6 DEF Start, Begin, TakeBatch, RememberOffer, Composed, TaskEnds, BatchHasResult,
                BatchEnds, Reports, Account, SaveCard, MarkSeen, Observe, Relay, Post,
                RecordRelay, Accidents
<1>7. ASSUME \/ \E i \in Items : Write(i) \/ Settle(i)
             \/ Kill \/ UNCHANGED vars
      PROVE  UNCHANGED fate /\ (UNCHANGED hit \/ \E a \in Accidents : Accident(a))
    BY <1>7 DEF Write, Settle, Kill, vars, Accidents
<1> QED
    BY <1>1, <1>2, <1>4, <1>5, <1>6, <1>7 DEF Next, People, Step, Compose, Seen

LEMMA InitTyped == Init => TypeOK
<1> SUFFICES ASSUME Init PROVE TypeOK
    OBVIOUS
<1>1. Cardinality(Items) \in Nat
    BY UpdatesAssumption, FS_CardinalityType
<1>2. Written = {} /\ Now = 0
    BY FS_EmptySet DEF Init, Written, Now
<1>3. NoWork \in Works
    BY <1>1 DEF NoWork, Works
<1>4. ThreadsTyped
    BY <1>3 DEF Init, ThreadsTyped, Pcs
<1>5. RestTyped
    BY <1>1, <1>2, FatesAre DEF Init, RestTyped, Rows, NoTask
<1> QED
    BY <1>4, <1>5, TypeIs

LEMMA InitHand == Init => HandInv /\ NoneIsPassed
<1> SUFFICES ASSUME Init PROVE HandInv /\ NoneIsPassed
    OBVIOUS
<1>1. Written = {} /\ Now = 0
    BY FS_EmptySet DEF Init, Written, Now
<1>2. \A t \in Threads : Hand(t)
    BY <1>1 DEF Init, Hand, NoWork, Passing
<1>3. \A b \in Batches : task[b].text = {} /\ task[b].offer = {}
    BY DEF Init, NoTask
<1> QED
    BY <1>1, <1>2, <1>3 DEF Init, HandInv, NoneIsPassed, HasRow

\* The invariant the theorems of the watermark rest on.
LEMMA Invariant == Spec => [](TypeOK /\ HandInv /\ NoneIsPassed)
<1> DEFINE Inv == TypeOK /\ HandInv /\ NoneIsPassed
<1>1. Init => Inv
    BY InitTyped, InitHand
<1>2. Inv /\ [Next]_vars => Inv'
    BY TypePreserved, HandPreserved, SkipPreserved
<1> QED
    BY <1>1, <1>2, PTL DEF Spec

\* Every variable keeps its type, whatever threads, people and kills do.
THEOREM TypeCorrect == Spec => []TypeOK
BY Invariant, PTL

\* docs/how-to/context-updates.md:330 "A watermark moves only when the
\* material was delivered": what is behind it was given to a run, set aside by
\* the judge, cut off by the cap or missed by a read that came back short
\* without an error, for any number of threads that collect and mark over each
\* other, sources that raise and lanes that are killed.
THEOREM NothingSkipped == Spec => []NothingIsSkipped
<1>1. Init => MissedInv
    BY DEF Init, MissedInv
<1>2. TypeOK /\ NoneIsPassed /\ MissedInv => NothingIsSkipped
    BY DEF NoneIsPassed, MissedInv, NothingIsSkipped, Written
<1> QED
    BY <1>1, <1>2, Invariant, MissedPreserved, PTL DEF Spec

----------------------------------------------------------------------------
(* A person's word                                                         *)

\* No step but the save of a card takes a row from a person who settled it.
LEMMA WordStep ==
    TypeOK /\ [Next]_vars =>
        \A i \in Items : file[i] = "held" =>
            file'[i] = "held" \/ \E t \in Threads : SaveCard(t)
<1> SUFFICES ASSUME TypeOK, [Next]_vars, NEW i \in Items, file[i] = "held",
                    ~\E t \in Threads : SaveCard(t)
             PROVE  file'[i] = "held"
    OBVIOUS
<1>0. file \in [Items -> Rows]
    BY TypeIs DEF RestTyped
<1>1. ASSUME NEW k \in Items, Settle(k) PROVE file'[i] = "held"
    BY <1>0, <1>1 DEF Settle
<1>2. ASSUME NEW t \in Threads, NEW d \in Dispositions, Account(t, d)
      PROVE  file'[i] = "held"
    <2>1. \/ file' = file
          \/ file' = [file EXCEPT ![First(t)] = Moved(file[First(t)], d)]
        BY <1>2 DEF Account
    <2>2. Moved("held", d) = "held"
        BY MovedIs DEF Rows
    <2> QED
        BY <1>0, <2>1, <2>2
<1>3. ASSUME NEW t \in Threads, Observe(t) PROVE file'[i] = "held"
    BY <1>0, <1>3 DEF Observe
<1>4. ASSUME NEW t \in Threads, Start(t) \/ Read(t) \/ AddOwed(t) \/ Compose(t)
                 \/ TaskEnds(t) \/ BatchHasResult(t) \/ BatchEnds(t)
                 \/ MarkSeen(t) \/ Relay(t) \/ Post(t) \/ RecordRelay(t)
      PROVE  UNCHANGED file
    BY <1>4 DEF Start, Begin, TakeBatch, Read, AddOwed, Compose, Create, RememberOffer,
                Composed, TaskEnds, BatchHasResult, BatchEnds, MarkSeen, Relay, Post,
                RecordRelay
<1>5. ASSUME \/ \E k \in Items : Write(k)
             \/ Kill \/ UNCHANGED vars
      PROVE  UNCHANGED file
    BY <1>5 DEF Write, Kill, vars
<1> QED
    BY <1>1, <1>2, <1>3, <1>4, <1>5 DEF Next, People, Step, Seen, Reports

\* feedback_ledger.py "A person's word stands until that person changes it",
\* for any number of runs that report on the item meanwhile, whatever they say.
THEOREM WordStands == Spec => PersonsWordStands
<1>1. TypeOK /\ [Next]_vars =>
          [\A i \in Items : file[i] = "held" =>
               file'[i] = "held" \/ \E t \in Threads : SaveCard(t)]_vars
    BY WordStep
<1> QED
    BY <1>1, TypeCorrect, PTL DEF Spec, PersonsWordStands

----------------------------------------------------------------------------
(* The notes.  Only a record keeps a mail from being relayed again, so     *)
(* whoever posts before there is one has yet to write it: the notes of an  *)
(* item that is not on record are those of the threads about to record it. *)

Calm == hit["kill"] + hit["answer"] = 0

\* After a step without accidents of a kind there had been none of it before.
LEMMA NoneBefore ==
    ASSUME TypeOK, TypeOK', [Next]_vars, NEW a \in Accidents, hit'[a] = 0
    PROVE  hit[a] = 0 /\ ~Accident(a)
<1>1. UNCHANGED hit \/ \E b : Accident(b)
    <2>1. CASE People \/ Kill \/ UNCHANGED vars
        BY <2>1 DEF People, Write, Settle, Kill, vars
    <2>2. ASSUME NEW t \in Threads, Start(t) \/ Read(t) \/ AddOwed(t) \/ Compose(t)
          PROVE  UNCHANGED hit \/ \E b : Accident(b)
        BY <2>2 DEF Start, Begin, TakeBatch, Read, Finds, AddOwed, Compose, Create,
                    RememberOffer, Composed
    <2>3. ASSUME NEW t \in Threads, TaskEnds(t) \/ BatchHasResult(t) \/ BatchEnds(t)
          PROVE  UNCHANGED hit \/ \E b : Accident(b)
        BY <2>3 DEF TaskEnds, BatchHasResult, BatchEnds
    <2>4. ASSUME NEW t \in Threads, Seen(t) \/ Reports(t)
          PROVE  UNCHANGED hit \/ \E b : Accident(b)
        BY <2>4 DEF Seen, MarkSeen, Observe, Relay, Post, RecordRelay, Reports, Account, SaveCard
    <2> QED
        BY <2>1, <2>2, <2>3, <2>4 DEF Next, Step
<1>2. hit \in [Accidents -> Nat] /\ hit' \in [Accidents -> Nat]
    BY TypeIs, TypeIsNext DEF RestTyped
<1>3. ASSUME NEW b, Accident(b) PROVE hit[a] = 0 /\ a # b
    BY <1>2, <1>3, AccidentCounts
<1> QED
    BY <1>1, <1>3

LEMMA CalmIs ==
    ASSUME TypeOK, TypeOK', [Next]_vars, Calm'
    PROVE  Calm /\ ~Accident("kill") /\ ~Accident("answer")
<1>1. /\ hit' \in [Accidents -> Nat] /\ "kill" \in Accidents /\ "answer" \in Accidents
    BY TypeIsNext DEF RestTyped, Accidents
<1>2. hit'["kill"] = 0 /\ hit'["answer"] = 0
    BY <1>1 DEF Calm
<1> QED
    BY <1>1, <1>2, NoneBefore DEF Calm

\* A thread is about to do one thing with one item.
LEMMA AtIs ==
    ASSUME NEW i
    PROVE  /\ IsFiniteSet(At(i, "post")) /\ IsFiniteSet(At(i, "record"))
           /\ Cardinality(At(i, "post")) \in Nat /\ Cardinality(At(i, "record")) \in Nat
           /\ Cardinality(Threads) \in Nat
           /\ Cardinality(At(i, "post")) + Cardinality(At(i, "record"))
                  <= Cardinality(Threads)
<1>1. /\ At(i, "post") \subseteq Threads /\ At(i, "record") \subseteq Threads
      /\ At(i, "post") \cap At(i, "record") = {}
    BY DEF At
<1>2. IsFiniteSet(At(i, "post")) /\ IsFiniteSet(At(i, "record"))
    BY <1>1, UpdatesAssumption, FS_Subset
<1>3. /\ Cardinality(At(i, "post")) \in Nat /\ Cardinality(At(i, "record")) \in Nat
      /\ Cardinality(Threads) \in Nat
    BY <1>2, UpdatesAssumption, FS_CardinalityType
<1>4. Cardinality(At(i, "post") \cup At(i, "record"))
          = Cardinality(At(i, "post")) + Cardinality(At(i, "record"))
    <2>1. Cardinality(At(i, "post") \cap At(i, "record")) = 0
        BY <1>1, FS_EmptySet
    <2>2. Cardinality(At(i, "post") \cup At(i, "record"))
              = Cardinality(At(i, "post")) + Cardinality(At(i, "record"))
                    - Cardinality(At(i, "post") \cap At(i, "record"))
        BY <1>2, FS_Union
    <2> QED
        BY <1>3, <2>1, <2>2
<1>5. Cardinality(At(i, "post") \cup At(i, "record")) <= Cardinality(Threads)
    BY <1>1, UpdatesAssumption, FS_Subset
<1> QED
    BY <1>2, <1>3, <1>4, <1>5

Noting == {"post", "record"}

\* A step that nobody takes there, and that leaves those who are there alone.
LEMMA NotesStay ==
    ASSUME TypeOK, HandInv, NotesInv, Calm, UNCHANGED <<relayed, notes>>,
           \A i \in Written : at'[i] = at[i],
           \A t \in Threads : pc[t] \in Noting \/ pc'[t] \in Noting =>
               pc'[t] = pc[t] /\ work'[t] = work[t]
    PROVE  NotesInv'
<1>1. ASSUME NEW t \in Threads, pc[t] \in Noting PROVE First(t)' = First(t)
    BY <1>1, FirstStays DEF HandInv, Hand
<1>2. ASSUME NEW i \in Items, NEW step \in Noting PROVE At(i, step)' = At(i, step)
    BY <1>1 DEF At
<1>3. \A i \in Items : At(i, "post")' = At(i, "post") /\ At(i, "record")' = At(i, "record")
    BY <1>2 DEF Noting
<1> QED
    BY <1>3 DEF NotesInv, Calm

\* One thread goes somewhere else.
LEMMA NotesElse ==
    ASSUME TypeOK, HandInv, NotesInv, Calm, UNCHANGED <<at, relayed, notes>>,
           NEW t \in Threads, pc[t] \notin Noting, pc'[t] \notin Noting,
           \A u \in Threads \ {t} : pc'[u] = pc[u] /\ work'[u] = work[u]
    PROVE  NotesInv'
<1>1. \A u \in Threads : pc[u] \in Noting \/ pc'[u] \in Noting =>
          pc'[u] = pc[u] /\ work'[u] = work[u]
    OBVIOUS
<1> QED
    BY <1>1, NotesStay

\* A thread whose next step is fixed by its place.
LEMMA Elsewhere ==
    ASSUME TypeOK, NEW t \in Threads,
           Start(t) \/ Read(t) \/ AddOwed(t) \/ Compose(t) \/ TaskEnds(t)
               \/ BatchHasResult(t) \/ BatchEnds(t) \/ MarkSeen(t) \/ Observe(t) \/ Reports(t)
    PROVE  /\ UNCHANGED <<at, relayed, notes>> /\ pc[t] \notin Noting /\ pc'[t] \notin Noting
           /\ \A u \in Threads \ {t} : pc'[u] = pc[u] /\ work'[u] = work[u]
<1>1. UNCHANGED <<at, relayed, notes>> /\ pc[t] \notin Noting
    BY DEF Noting, Start, Begin, TakeBatch, Read, AddOwed, Compose, Create, RememberOffer,
           Composed, TaskEnds, BatchHasResult, BatchEnds, MarkSeen, Observe, Reports, Account,
           SaveCard
<1>2. \E step \in Pcs \ Noting : \E w : GoOn(t, step, w)
    <2>1. CASE Start(t)
        BY <2>1 DEF Start, Begin, TakeBatch, Pcs, Noting
    <2>2. CASE Read(t)
        BY <2>2 DEF Read, Pcs, Noting
    <2>3. CASE AddOwed(t)
        BY <2>3 DEF AddOwed, Pcs, Noting
    <2>4. CASE Compose(t)
        BY <2>4 DEF Compose, Create, RememberOffer, Composed, AfterComposing, Pcs, Noting
    <2>5. CASE TaskEnds(t)
        BY <2>5 DEF TaskEnds, Pcs, Noting
    <2>6. CASE BatchHasResult(t)
        BY <2>6 DEF BatchHasResult, Pcs, Noting
    <2>7. CASE BatchEnds(t)
        BY <2>7 DEF BatchEnds, Pcs, Noting
    <2>8. CASE MarkSeen(t)
        BY <2>8 DEF MarkSeen, Pcs, Noting
    <2>9. CASE Observe(t)
        BY <2>9 DEF Observe, Loop, Pcs, Noting
    <2>10. CASE Reports(t)
        BY <2>10 DEF Reports, Account, SaveCard, Loop, Pcs, Noting
    <2> QED
        BY <2>1, <2>2, <2>3, <2>4, <2>5, <2>6, <2>7, <2>8, <2>9, <2>10
<1>3. pc \in [Threads -> Pcs] /\ work \in [Threads -> Works]
    BY TypeIs DEF ThreadsTyped
<1>4. PICK step \in Pcs \ Noting : \E w : GoOn(t, step, w)
    BY <1>2
<1>5. pc'[t] \notin Noting
    BY <1>3, <1>4 DEF GoOn
<1>6. \A u \in Threads \ {t} : pc'[u] = pc[u] /\ work'[u] = work[u]
    BY <1>3, <1>4 DEF GoOn
<1> QED
    BY <1>1, <1>5, <1>6

\* The thread that relays: of all the sets of threads about to note an item,
\* a step changes one or two, by itself.
LEMMA RelayNotes ==
    ASSUME TypeOK, HandInv, NotesInv, Calm, ~Accident("answer"), NEW t \in Threads,
           Relay(t) \/ Post(t) \/ RecordRelay(t)
    PROVE  NotesInv'
<1>0. /\ Hand(t) /\ pc[t] \in Passing /\ work[t].todo # {} /\ UNCHANGED at
      /\ AfterRelay(t) \in {"report", "idle"}
    BY DEF HandInv, Hand, Relay, Post, RecordRelay, Passing, AfterRelay
<1>1. First(t) \in Items /\ relayed \subseteq Items /\ notes \in [Items -> Nat]
    BY <1>0, WorkIs, LoopIs, FirstIn, TypeIs DEF RestTyped, Written
<1>2. \A u \in Threads \ {t} : pc'[u] = pc[u] /\ work'[u] = work[u]
    BY <1>0, WorkIs, LoopIs, GoOnIs DEF Relay, Post, RecordRelay, Pcs
<1>3. \A u \in Threads \ {t} : pc[u] \in Noting => First(u)' = First(u)
    BY <1>0, <1>2, FirstStays
<1>4. ASSUME NEW k, NEW step \in Noting
      PROVE  \A u \in Threads \ {t} : u \in At(k, step)' <=> u \in At(k, step)
    BY <1>2, <1>3, <1>4 DEF At
<1>4a. PICK i \in Items : First(t) = i
    BY <1>1
<1>5. CASE Relay(t)
    <2>1. pc[t] = "relay" /\ UNCHANGED <<relayed, notes>>
        BY <1>5 DEF Relay
    <2>2. CASE i \in relayed
        <3>1. Loop(t, "relay", AfterRelay(t))
            BY <1>5, <1>4a, <2>2 DEF Relay
        <3>2. pc'[t] \in {"relay", "report", "idle"}
            BY <1>0, <3>1, LoopIs DEF Pcs
        <3> QED
            BY <1>0, <1>2, <2>1, <3>2, NotesElse DEF Noting
    <2>3. CASE i \notin relayed
        <3>1. GoOn(t, "post", work[t])
            BY <1>5, <1>4a, <2>3 DEF Relay
        <3>2. pc'[t] = "post" /\ work'[t] = work[t]
            BY <3>1, WorkIs, GoOnIs DEF Pcs
        <3>3. First(t)' = i
            BY <1>0, <1>4a, <3>2, FirstStays
        <3>4. \A k : At(k, "record")' = At(k, "record")
            BY <1>4, <2>1, <3>2 DEF At, Noting
        <3>5. \A k \in Items : k # i => At(k, "post")' = At(k, "post")
            BY <1>4, <1>4a, <2>1, <3>3 DEF At, Noting
        <3> QED
            BY <2>1, <2>3, <3>4, <3>5 DEF NotesInv, Calm
    <2> QED
        BY <2>2, <2>3
<1>6. CASE Post(t)
    <2>1. /\ pc[t] = "post" /\ notes' = [notes EXCEPT ![i] = @ + 1] /\ UNCHANGED relayed
          /\ GoOn(t, "record", work[t])
        BY <1>6, <1>4a DEF Post, AddNote
    <2>2. pc'[t] = "record" /\ work'[t] = work[t]
        BY <2>1, WorkIs, GoOnIs DEF Pcs
    <2>3. First(t)' = i /\ First(t) = i
        BY <1>0, <1>4a, <2>2, FirstStays
    <2>4. At(i, "post")' = At(i, "post") \ {t} /\ t \in At(i, "post")
        <3>1. t \in At(i, "post") /\ t \notin At(i, "post")'
            BY <2>1, <2>2, <2>3 DEF At
        <3>2. \A u \in Threads \ {t} : u \in At(i, "post")' <=> u \in At(i, "post")
            BY <1>4 DEF Noting
        <3>3. At(i, "post") \subseteq Threads /\ At(i, "post")' \subseteq Threads
            BY DEF At
        <3> QED
            BY <3>1, <3>2, <3>3
    <2>5. At(i, "record")' = At(i, "record") \cup {t} /\ t \notin At(i, "record")
        <3>1. t \notin At(i, "record") /\ t \in At(i, "record")'
            BY <2>1, <2>2, <2>3 DEF At
        <3>2. \A u \in Threads \ {t} : u \in At(i, "record")' <=> u \in At(i, "record")
            BY <1>4 DEF Noting
        <3>3. At(i, "record") \subseteq Threads /\ At(i, "record")' \subseteq Threads
            BY DEF At
        <3> QED
            BY <3>1, <3>2, <3>3
    <2>6. \A k \in Items : k # i => /\ At(k, "post")' = At(k, "post")
                                    /\ At(k, "record")' = At(k, "record")
        BY <1>4, <2>1, <2>2, <2>3 DEF At, Noting
    <2>7. Cardinality(At(i, "post")') = Cardinality(At(i, "post")) - 1
        BY <2>4, AtIs, FS_RemoveElement
    <2>8. Cardinality(At(i, "record")') = Cardinality(At(i, "record")) + 1
        BY <2>5, AtIs, FS_AddElement
    <2>9. /\ i \notin relayed => notes[i] = Cardinality(At(i, "record"))
          /\ i \in relayed => notes[i] + Cardinality(At(i, "post")) <= Cardinality(Threads)
        BY <1>1 DEF NotesInv, Calm
    <2>10. /\ i \notin relayed' => notes'[i] = Cardinality(At(i, "record")')
           /\ i \in relayed' => notes'[i] + Cardinality(At(i, "post")') <= Cardinality(Threads)
        BY <1>1, <2>1, <2>7, <2>8, <2>9, AtIs
    <2>11. \A k \in Items : k # i =>
               /\ k \notin relayed' => notes'[k] = Cardinality(At(k, "record")')
               /\ k \in relayed' => notes'[k] + Cardinality(At(k, "post")')
                                        <= Cardinality(Threads)
        BY <1>1, <2>1, <2>6 DEF NotesInv, Calm
    <2> QED
        BY <2>10, <2>11 DEF NotesInv
<1>7. CASE RecordRelay(t)
    <2>1. /\ pc[t] = "record" /\ relayed' = relayed \cup {i} /\ UNCHANGED notes
          /\ Loop(t, "relay", AfterRelay(t))
        BY <1>7, <1>4a DEF RecordRelay, OnceRelayed
    <2>2. pc'[t] \in {"relay", "report", "idle"}
        BY <1>0, <2>1, LoopIs DEF Pcs
    <2>3. \A k : At(k, "post")' = At(k, "post")
        BY <1>4, <1>4a, <2>1, <2>2 DEF At, Noting
    <2>4. \A k \in Items : k # i => At(k, "record")' = At(k, "record")
        BY <1>4, <1>4a, <2>1, <2>2 DEF At, Noting
    <2>5. notes[i] + Cardinality(At(i, "post")) <= Cardinality(Threads)
        BY <1>1, AtIs DEF NotesInv, Calm
    <2> QED
        BY <1>1, <2>1, <2>3, <2>4, <2>5 DEF NotesInv, Calm
<1> QED
    BY <1>5, <1>6, <1>7

LEMMA NotesPreserved == TypeOK /\ HandInv /\ NotesInv /\ [Next]_vars /\ TypeOK' => NotesInv'
<1> SUFFICES ASSUME TypeOK, HandInv, NotesInv, [Next]_vars, TypeOK', Calm' PROVE NotesInv'
    BY DEF NotesInv, Calm
<1>0. Calm /\ ~Accident("kill") /\ ~Accident("answer")
    BY CalmIs
<1>1. ASSUME NEW i \in Items, Write(i) \/ Settle(i) PROVE NotesInv'
    <2>1. UNCHANGED <<relayed, notes, pc, work>>
        BY <1>1 DEF Write, Settle
    <2>2. \A k \in Written : at'[k] = at[k]
        BY <1>1, TypeIs DEF Write, Settle, Written, RestTyped
    <2> QED
        BY <1>0, <2>1, <2>2, NotesStay
<1>2. ASSUME NEW t \in Threads,
             Start(t) \/ Read(t) \/ AddOwed(t) \/ Compose(t) \/ TaskEnds(t)
                 \/ BatchHasResult(t) \/ BatchEnds(t) \/ MarkSeen(t) \/ Observe(t) \/ Reports(t)
      PROVE  NotesInv'
    BY <1>0, <1>2, Elsewhere, NotesElse
<1>3. ~Kill
    BY <1>0 DEF Kill
<1>4. CASE UNCHANGED vars
    BY <1>0, <1>4, NotesStay DEF vars
<1> QED
    BY <1>0, <1>1, <1>2, <1>3, <1>4, RelayNotes DEF Next, People, Step, Seen

LEMMA InitNotes == Init => NotesInv
BY FS_EmptySet DEF Init, NotesInv, At

\* docs/how-to/context-updates.md "Idempotent": however often a mail comes to
\* the threads again, it is a note on the quest at most once per thread, when
\* no thread dies between its note and the record of it and no answer is lost.
THEOREM RelayBounded == Spec => []RelayIsBounded
<1>1. TypeOK /\ HandInv /\ NoneIsPassed /\ NotesInv /\ [Next]_vars
          /\ (TypeOK /\ HandInv /\ NoneIsPassed)' => NotesInv'
    BY NotesPreserved
<1>2. TypeOK /\ NotesInv => RelayIsBounded
    <2> SUFFICES ASSUME TypeOK, NotesInv, Calm, NEW i \in Items
                 PROVE  notes[i] <= Cardinality(Threads)
        BY DEF RelayIsBounded, Calm
    <2>1. notes[i] \in Nat
        BY TypeIs DEF RestTyped
    <2> QED
        BY <2>1, AtIs DEF NotesInv, Calm
<1> QED
    BY <1>1, <1>2, InitNotes, Invariant, PTL DEF Spec

----------------------------------------------------------------------------
(* What is done is closed.  A report can only close a row that is there:   *)
(* a composed task's items get theirs from the pass that composed it, so   *)
(* while one has none, that pass is still on its way to it.                *)

Tidy == hit["early"] + hit["kill"] = 0

LEMMA TidyIs ==
    ASSUME TypeOK, TypeOK', [Next]_vars, Tidy'
    PROVE  Tidy /\ ~Accident("early") /\ ~Accident("kill")
<1>1. /\ hit' \in [Accidents -> Nat] /\ "kill" \in Accidents /\ "early" \in Accidents
    BY TypeIsNext DEF RestTyped, Accidents
<1>2. hit'["early"] = 0 /\ hit'["kill"] = 0
    BY <1>1 DEF Tidy
<1> QED
    BY <1>1, <1>2, NoneBefore DEF Tidy

\* A row is never lost.
RowsGrow == \A i \in Items : HasRow(i) => HasRow(i)'

\* What a step does to the ledger.
LEMMA LedgerStep ==
    ASSUME TypeOK, HandInv, [Next]_vars
    PROVE  \/ UNCHANGED <<file, finished>> /\ mem' \in {mem, file}
           \/ \E i \in Items : Settle(i)
           \/ \E t \in Threads : Observe(t) \/ SaveCard(t)
           \/ \E t \in Threads, d \in Dispositions : Account(t, d)
<1> DEFINE Same == UNCHANGED <<file, finished>> /\ mem' \in {mem, file}
<1>1. CASE Kill \/ UNCHANGED vars \/ \E i \in Items : Write(i)
    BY <1>1 DEF Write, Kill, vars
<1>2. ASSUME NEW t \in Threads, Start(t) \/ Read(t) \/ AddOwed(t) PROVE Same
    BY <1>2 DEF Start, Begin, TakeBatch, Read, AddOwed
<1>3. ASSUME NEW t \in Threads, Compose(t) PROVE Same
    BY <1>3 DEF Compose, Create, RememberOffer, Composed
<1>4. ASSUME NEW t \in Threads, TaskEnds(t) \/ BatchHasResult(t) \/ BatchEnds(t) PROVE Same
    BY <1>4 DEF TaskEnds, BatchHasResult, BatchEnds
<1>5. ASSUME NEW t \in Threads, MarkSeen(t) \/ Relay(t) \/ Post(t) \/ RecordRelay(t) PROVE Same
    BY <1>5 DEF MarkSeen, Relay, Post, RecordRelay
<1> QED
    BY <1>1, <1>2, <1>3, <1>4, <1>5 DEF Next, People, Step, Seen, Reports

LEMMA AccountIs ==
    ASSUME TypeOK, HandInv, NEW t \in Threads, NEW d \in Dispositions, Account(t, d)
    PROVE  /\ First(t) \in work[t].todo /\ First(t) \in Items /\ mem' = file'
           /\ \A k \in Items :
                  file'[k] = IF k = First(t) /\ k \in work[t].items THEN Moved(file[k], d)
                             ELSE file[k]
<1>1. First(t) \in work[t].todo /\ First(t) \in Items
    BY WorkIs, FirstIn, TypeIs DEF Account, HandInv, Hand, RestTyped
<1>2. file \in [Items -> Rows]
    BY TypeIs DEF RestTyped
<1>3. mem' = file'
    BY DEF Account
<1>4. file' = IF First(t) \in work[t].items
              THEN [file EXCEPT ![First(t)] = Moved(@, d)] ELSE file
    BY DEF Account
<1> QED
    BY <1>1, <1>2, <1>3, <1>4

LEMMA ObserveIs ==
    ASSUME TypeOK, HandInv, NEW t \in Threads, Observe(t)
    PROVE  /\ First(t) \in work[t].todo /\ First(t) \in Items /\ mem' = file'
           /\ \A k \in Items :
                  file'[k] = IF k = First(t) /\ file[k] = "none" THEN "open" ELSE file[k]
<1>1. First(t) \in work[t].todo /\ First(t) \in Items
    BY WorkIs, FirstIn, TypeIs DEF Observe, HandInv, Hand, Passing, RestTyped
<1> QED
    BY <1>1, TypeIs DEF Observe, RestTyped

LEMMA RowsStand == TypeOK /\ HandInv /\ [Next]_vars => RowsGrow
<1> SUFFICES ASSUME TypeOK, HandInv, [Next]_vars PROVE RowsGrow
    OBVIOUS
<1>0. file \in [Items -> Rows]
    BY TypeIs DEF RestTyped
<1>1. ASSUME NEW i \in Items, Settle(i) PROVE RowsGrow
    BY <1>0, <1>1 DEF Settle, RowsGrow, HasRow
<1>2. ASSUME NEW t \in Threads, Observe(t) PROVE RowsGrow
    BY <1>2, ObserveIs DEF RowsGrow, HasRow
<1>3. ASSUME NEW t \in Threads, SaveCard(t) PROVE RowsGrow
    BY <1>3 DEF SaveCard, RowsGrow, HasRow, HandInv
<1>4. ASSUME NEW t \in Threads, NEW d \in Dispositions, Account(t, d) PROVE RowsGrow
    <2>1. \A k \in Items : file[k] # "none" => Moved(file[k], d) # "none"
        BY <1>0, MovedIs
    <2> QED
        BY <1>4, <2>1, AccountIs DEF RowsGrow, HasRow
<1>5. CASE UNCHANGED file
    BY <1>5 DEF RowsGrow, HasRow
<1> QED
    BY <1>1, <1>2, <1>3, <1>4, <1>5, LedgerStep

LEMMA SettledPreserved ==
    ASSUME TypeOK, HandInv, Settled, \A t \in Threads : RowsOf(t), [Next]_vars
    PROVE  Settled'
<1>0. /\ file \in [Items -> Rows] /\ mem \in [Items -> Rows] /\ finished \subseteq Items
    BY TypeIs DEF RestTyped, Written
<1>1. ASSUME NEW i \in Items, Settle(i) PROVE Settled'
    <2>1. /\ file' = [file EXCEPT ![i] = "held"] /\ mem' \in {mem, file'} /\ UNCHANGED finished
        BY <1>1 DEF Settle
    <2> QED
        BY <1>0, <2>1 DEF Settled, HasRow, OpenStates
<1>2. ASSUME NEW t \in Threads, Observe(t) PROVE Settled'
    <2>1. UNCHANGED finished
        BY <1>2 DEF Observe
    <2> QED
        BY <1>0, <1>2, <2>1, ObserveIs DEF Settled, HasRow, OpenStates
<1>3. ASSUME NEW t \in Threads, SaveCard(t) PROVE Settled'
    BY <1>0, <1>3 DEF SaveCard, Settled, HasRow, HandInv
<1>4. ASSUME NEW t \in Threads, NEW d \in Dispositions, Account(t, d) PROVE Settled'
    <2>0. PICK i \in Items : i = First(t) /\ i \in work[t].todo
        BY <1>4, AccountIs
    <2>1. /\ HasRow(i) /\ i \in work[t].items /\ mem' = file'
          /\ \A k \in Items : file'[k] = IF k = i THEN Moved(file[k], d) ELSE file[k]
        <3>1. HasRow(i) /\ i \in work[t].items
            BY <1>4, <2>0 DEF RowsOf, Account
        <3> QED
            BY <1>4, <2>0, <3>1, AccountIs
    <2>2. finished' = CASE d = "done"     -> finished \cup {i}
                        [] d = "not used" -> finished
                        [] OTHER          -> finished \ {i}
        BY <1>4, <2>0 DEF Account
    <2> DEFINE Closed(k) == file'[k] # "none" /\ file'[k] \notin OpenStates
    <2>3. ASSUME NEW k \in finished, k # i PROVE Closed(k)
        <3>1. k \in Items /\ file'[k] = file[k]
            BY <1>0, <2>1, <2>3
        <3> QED
            BY <2>3, <3>1 DEF Settled, HasRow
    <2>4. file'[i] = Moved(file[i], d) /\ file[i] \in Rows /\ file[i] # "none"
        BY <1>0, <2>1 DEF HasRow
    <2>5. /\ d = "done" => Closed(i)
          /\ d = "not used" => file'[i] = file[i]
        <3>1. PICK row \in Rows : row = file[i]
            BY <2>4
        <3>2. file'[i] = Moved(row, d) /\ row # "none"
            BY <2>4, <3>1
        <3>3. /\ Moved(row, d) # "none"
              /\ d = "done" => Moved(row, d) \notin OpenStates
              /\ d = "not used" => Moved(row, d) = row
            BY <3>2, MovedIs
        <3> QED
            BY <3>1, <3>2, <3>3
    <2>6. \A k \in finished' : Closed(k)
        <3> TAKE k \in finished'
        <3>1. CASE k # i
            BY <2>2, <2>3, <3>1
        <3>2. CASE k = i
            <4>1. d = "done" \/ (d = "not used" /\ i \in finished)
                BY <2>2, <3>2
            <4>2. i \in finished => file[i] # "none" /\ file[i] \notin OpenStates
                BY DEF Settled, HasRow
            <4> QED
                BY <2>5, <3>2, <4>1, <4>2
        <3> QED
            BY <3>1, <3>2
    <2> QED
        BY <2>1, <2>6 DEF Settled, HasRow
<1>5. CASE UNCHANGED <<file, finished>> /\ mem' \in {mem, file}
    BY <1>5 DEF Settled, HasRow
<1> QED
    BY <1>1, <1>2, <1>3, <1>4, <1>5, LedgerStep

\* A thread that a step leaves alone, with the task it has in hand.
LEMMA RowsOfStays ==
    ASSUME TypeOK, NEW t \in Threads, RowsOf(t), RowsGrow, pc'[t] = pc[t], work'[t] = work[t],
           NEW b, b = work[t].job,
           pc[t] = "offer" /\ task'[b].status # "none" =>
               task[b].status # "none" /\ task'[b].text = task[b].text,
           pc[t] = "batch" => task'[b].status = "running"
    PROVE  RowsOf(t)'
<1>1. work[t].items \subseteq Items /\ work[t].todo \subseteq Items /\ work'[t].job = b
    BY WorkIs
<1> QED
    BY <1>1 DEF RowsOf, RowsGrow

\* A task that a step leaves alone, and the passes that are to open its rows.
LEMMA RowsOfTaskStays ==
    ASSUME TypeOK, NEW b \in Batches, RowsOfTask(b), RowsGrow,
           task'[b] = task[b],
           \A t \in Threads : pc[t] = "offer" /\ work[t].job = b =>
               pc'[t] = "offer" /\ work'[t].job = b,
           \A t \in Threads, i \in Items : Opens(t, i) => Opens(t, i)' \/ HasRow(i)'
    PROVE  RowsOfTask(b)'
<1>1. task[b].text \subseteq Items
    BY TypeIs DEF RestTyped
<1> QED
    BY <1>1 DEF RowsOfTask, RowsGrow

\* What one thread does, with the tasks as they are.
LEMMA OwnRows ==
    ASSUME TypeOK, RowsGrow, UNCHANGED task, \A u \in Threads : RowsOf(u), OneEach,
           \A b \in Batches : RowsOfTask(b),
           NEW t \in Threads, RowsOf(t)',
           pc[t] # "offer", pc'[t] # "batch",
           \A u \in Threads \ {t} : pc'[u] = pc[u] /\ work'[u] = work[u],
           \A i \in Items : Opens(t, i) => Opens(t, i)' \/ HasRow(i)'
    PROVE  (\A u \in Threads : RowsOf(u)') /\ OneEach' /\ \A b \in Batches : RowsOfTask(b)'
<1>1. ASSUME NEW u \in Threads PROVE RowsOf(u)'
    <2>1. CASE u # t
        <3>1. PICK b : b = work[u].job
            OBVIOUS
        <3>2. task'[b] = task[b] /\ (pc[u] = "batch" => task[b].status = "running")
            BY <3>1 DEF RowsOf
        <3> QED
            BY <2>1, <3>1, <3>2, RowsOfStays
    <2> QED
        BY <2>1
<1>2. OneEach'
    BY DEF OneEach
<1>3. ASSUME NEW u \in Threads, NEW i \in Items, Opens(u, i)
      PROVE  Opens(u, i)' \/ HasRow(i)'
    <2>1. CASE u # t
        BY <1>3, <2>1 DEF Opens
    <2> QED
        BY <1>3, <2>1
<1>4. \A b \in Batches : RowsOfTask(b)'
    BY <1>3, RowsOfTaskStays
<1> QED
    BY <1>1, <1>2, <1>4

\* What the steps of a thread do to the tasks and the other threads.
LEMMA OwnSteps ==
    ASSUME TypeOK, HandInv, NEW t \in Threads,
           (\E j \in {"task", "pass"} : Begin(t, j)) \/ Read(t) \/ AddOwed(t) \/ Composed(t)
               \/ TaskEnds(t) \/ Seen(t) \/ Reports(t)
    PROVE  UNCHANGED task /\ pc[t] \notin {"offer", "batch"}
<1>1. CASE \E j \in {"task", "pass"} : Begin(t, j)
    BY <1>1 DEF Begin
<1>2. CASE Read(t) \/ AddOwed(t) \/ Composed(t) \/ TaskEnds(t)
    BY <1>2 DEF Read, AddOwed, Composed, TaskEnds
<1>3. CASE Seen(t) \/ Reports(t)
    BY <1>3 DEF Seen, MarkSeen, Observe, Relay, Post, RecordRelay, Reports, Account, SaveCard
<1> QED
    BY <1>1, <1>2, <1>3

LEMMA CollectRows ==
    ASSUME TypeOK, HandInv, RowsGrow, NEW t \in Threads, RowsOf(t),
           (\E j \in {"task", "pass"} : Begin(t, j)) \/ Read(t) \/ AddOwed(t) \/ Composed(t)
               \/ TaskEnds(t)
    PROVE  /\ RowsOf(t)' /\ pc'[t] # "batch"
           /\ \A u \in Threads \ {t} : pc'[u] = pc[u] /\ work'[u] = work[u]
           /\ \A i \in Items : Opens(t, i) => Opens(t, i)' \/ HasRow(i)'
<1>0. work[t] \in Works /\ pc \in [Threads -> Pcs] /\ work \in [Threads -> Works]
    BY WorkIs, TypeIs DEF ThreadsTyped
<1>1. ASSUME NEW j \in {"task", "pass"}, Begin(t, j)
      PROVE  /\ pc[t] = "idle" /\ pc'[t] = "read" /\ work'[t].job = j
             /\ \A u \in Threads \ {t} : pc'[u] = pc[u] /\ work'[u] = work[u]
    BY <1>0, <1>1 DEF Begin, GoOn, NoWork
<1>2. ASSUME Read(t)
      PROVE  /\ pc[t] = "read" /\ pc'[t] = "owed" /\ work'[t].job = work[t].job
             /\ \A u \in Threads \ {t} : pc'[u] = pc[u] /\ work'[u] = work[u]
    <2>1. pc[t] = "read" /\ \/ \E items : GoOn(t, "owed", [work[t] EXCEPT !.items = items])
                            \/ GoOn(t, "owed", [work[t] EXCEPT !.stamp = OnRecord(t)])
        BY <1>2 DEF Read
    <2>2. /\ \A items : [work[t] EXCEPT !.items = items].job = work[t].job
          /\ [work[t] EXCEPT !.stamp = OnRecord(t)].job = work[t].job
        BY <1>0 DEF Works
    <2>3. PICK w : GoOn(t, "owed", w) /\ w.job = work[t].job
        BY <2>1, <2>2
    <2> QED
        BY <1>0, <2>1, <2>3 DEF GoOn
<1>3. ASSUME AddOwed(t)
      PROVE  /\ pc[t] = "owed" /\ pc'[t] = IF work[t].job = "task" THEN "run" ELSE "compose"
             /\ work'[t].job = work[t].job
             /\ \A u \in Threads \ {t} : pc'[u] = pc[u] /\ work'[u] = work[u]
    <2>1. /\ pc[t] = "owed"
          /\ \E kept : GoOn(t, IF work[t].job = "task" THEN "run" ELSE "compose",
                            [work[t] EXCEPT !.items = kept])
        BY <1>3 DEF AddOwed
    <2>2. \A kept : [work[t] EXCEPT !.items = kept].job = work[t].job
        BY <1>0 DEF Works
    <2> QED
        BY <1>0, <2>1, <2>2 DEF GoOn
<1>4. ASSUME Composed(t)
      PROVE  /\ pc[t] = "compose" /\ pc'[t] = IF work[t].gave THEN "mark" ELSE "idle"
             /\ work[t].gave => work'[t] = work[t]
             /\ \A u \in Threads \ {t} : pc'[u] = pc[u] /\ work'[u] = work[u]
    <2>1. pc[t] = "compose" /\ GoOn(t, AfterComposing(t), work[t])
        BY <1>4 DEF Composed
    <2>2. work[t].gave \in BOOLEAN
        BY <1>0 DEF Works
    <2> QED
        BY <1>0, <2>1, <2>2 DEF GoOn, AfterComposing
<1>5. ASSUME TaskEnds(t)
      PROVE  /\ pc[t] = "run" /\ pc'[t] \in {"mark", "idle"}
             /\ \A u \in Threads \ {t} : pc'[u] = pc[u] /\ work'[u] = work[u]
    BY <1>0, <1>5 DEF TaskEnds, GoOn
<1>6. RowsOf(t)'
    BY <1>0, <1>1, <1>2, <1>3, <1>4, <1>5 DEF RowsOf
<1>7. \A i \in Items : Opens(t, i) => Opens(t, i)'
    BY <1>0, <1>1, <1>2, <1>3, <1>4, <1>5 DEF Opens
<1> QED
    BY <1>1, <1>2, <1>3, <1>4, <1>5, <1>6, <1>7

LEMMA SeenRows ==
    ASSUME TypeOK, HandInv, RowsGrow, NEW t \in Threads, RowsOf(t), Seen(t)
    PROVE  /\ RowsOf(t)' /\ pc'[t] # "batch"
           /\ \A u \in Threads \ {t} : pc'[u] = pc[u] /\ work'[u] = work[u]
           /\ \A i \in Items : Opens(t, i) => Opens(t, i)' \/ HasRow(i)'
<1>0. /\ work[t] \in Works /\ pc \in [Threads -> Pcs] /\ work \in [Threads -> Works]
      /\ Hand(t) /\ work[t].items \subseteq Items
    BY WorkIs, TypeIs DEF ThreadsTyped, HandInv
<1>1. CASE MarkSeen(t)
    <2>1. /\ pc[t] = "mark" /\ \A u \in Threads \ {t} : pc'[u] = pc[u] /\ work'[u] = work[u]
          /\ pc'[t] = IF work[t].items = {} THEN "idle" ELSE "observe"
          /\ work[t].items # {} => work'[t] = [All(t) EXCEPT !.stamp = 0, !.gave = FALSE]
        BY <1>0, <1>1 DEF MarkSeen, GoOn
    <2>2. work[t].items # {} => /\ work'[t].items = work[t].items
                                /\ work'[t].todo = work[t].items
                                /\ work'[t].job = work[t].job
        <3>1. /\ [All(t) EXCEPT !.stamp = 0, !.gave = FALSE].items = work[t].items
              /\ [All(t) EXCEPT !.stamp = 0, !.gave = FALSE].todo = work[t].items
              /\ [All(t) EXCEPT !.stamp = 0, !.gave = FALSE].job = work[t].job
            BY <1>0 DEF Works, All
        <3> QED
            BY <2>1, <3>1
    <2>3. RowsOf(t)'
        <3>1. CASE work[t].items = {}
            <4>1. pc'[t] = "idle"
                BY <2>1, <3>1
            <4> QED
                BY <4>1 DEF RowsOf
        <3>2. CASE work[t].items # {}
            <4>1. pc'[t] = "observe" /\ work'[t].todo = work'[t].items
                BY <2>1, <2>2, <3>2
            <4> QED
                BY <4>1 DEF RowsOf
        <3> QED
            BY <3>1, <3>2
    <2>4. \A i \in Items : Opens(t, i) => Opens(t, i)'
        BY <2>1, <2>2 DEF Opens
    <2> QED
        BY <2>1, <2>3, <2>4
<1>2. CASE Observe(t)
    <2>0. /\ pc[t] = "observe" /\ Loop(t, "observe", "relay")
          /\ work[t].todo # {} /\ work[t].todo \subseteq work[t].items
        BY <1>0, <1>2 DEF Observe, Hand, Passing
    <2>1. /\ \A u \in Threads \ {t} : pc'[u] = pc[u] /\ work'[u] = work[u]
          /\ \/ work[t].todo = {First(t)} /\ pc'[t] = "relay" /\ work'[t] = All(t)
             \/ work[t].todo \ {First(t)} # {} /\ pc'[t] = "observe" /\ work'[t] = Rest(t)
        BY <2>0, LoopIs DEF Pcs
    <2>2. PICK i \in Items : i = First(t)
        BY <1>2, ObserveIs
    <2>3. HasRow(i)'
        BY <1>2, <2>2, ObserveIs DEF HasRow
    <2>4. /\ work'[t].items = work[t].items /\ work'[t].job = work[t].job
          /\ \/ work[t].todo = {i} /\ pc'[t] = "relay"
             \/ pc'[t] = "observe" /\ work'[t].todo = work[t].todo \ {i}
        BY <2>1, <2>2, WorkIs DEF Works
    <2>5. \A k \in work[t].items : HasRow(k)' \/ k \in work[t].todo
        BY <1>0, <2>0 DEF RowsOf, RowsGrow
    <2>6. RowsOf(t)'
        BY <2>3, <2>4, <2>5 DEF RowsOf
    <2>7. \A k \in Items : Opens(t, k) => Opens(t, k)' \/ HasRow(k)'
        BY <2>0, <2>3, <2>4 DEF Opens
    <2> QED
        BY <2>1, <2>4, <2>6, <2>7
<1>3. CASE Relay(t) \/ Post(t) \/ RecordRelay(t)
    <2>0. /\ pc[t] \in {"relay", "post", "record"} /\ work[t].todo # {}
          /\ work[t].todo \subseteq work[t].items
        BY <1>0, <1>3 DEF Relay, Post, RecordRelay, Hand, Passing
    <2>1. \/ Loop(t, "relay", AfterRelay(t))
          \/ \E step \in {"post", "record"} : GoOn(t, step, work[t])
        BY <1>3 DEF Relay, Post, RecordRelay
    <2>2. \A k \in work[t].items : HasRow(k)'
        BY <1>0, <2>0 DEF RowsOf, RowsGrow
    <2>3. \A k \in Items : ~Opens(t, k)
        BY <2>0 DEF Opens
    <2>4. CASE Loop(t, "relay", AfterRelay(t))
        <3>1. AfterRelay(t) \in {"report", "idle"}
            BY DEF AfterRelay
        <3>2. /\ \A u \in Threads \ {t} : pc'[u] = pc[u] /\ work'[u] = work[u]
              /\ \/ pc'[t] = "report" /\ work'[t] = All(t)
                 \/ pc'[t] = "idle"
                 \/ pc'[t] = "relay" /\ work'[t] = Rest(t)
            BY <2>0, <2>4, <3>1, LoopIs DEF Pcs
        <3>3. \/ pc'[t] = "idle"
              \/ /\ pc'[t] \in {"report", "relay"} /\ work'[t].items = work[t].items
                 /\ work'[t].todo \subseteq work[t].items
            BY <2>0, <3>2, WorkIs DEF Works
        <3>4. RowsOf(t)'
            BY <2>2, <3>3 DEF RowsOf
        <3> QED
            BY <2>3, <3>2, <3>3, <3>4
    <2>5. ASSUME NEW step \in {"post", "record"}, GoOn(t, step, work[t])
          PROVE  /\ pc'[t] = step /\ work'[t] = work[t]
                 /\ \A u \in Threads \ {t} : pc'[u] = pc[u] /\ work'[u] = work[u]
        BY <1>0, <2>5 DEF GoOn
    <2>6. ASSUME NEW step \in {"post", "record"}, GoOn(t, step, work[t]) PROVE RowsOf(t)'
        BY <2>2, <2>5, <2>6 DEF RowsOf
    <2> QED
        BY <2>1, <2>3, <2>4, <2>5, <2>6
<1> QED
    BY <1>1, <1>2, <1>3 DEF Seen

LEMMA ReportRows ==
    ASSUME TypeOK, HandInv, RowsGrow, NEW t \in Threads, RowsOf(t), Reports(t)
    PROVE  /\ RowsOf(t)' /\ pc'[t] # "batch"
           /\ \A u \in Threads \ {t} : pc'[u] = pc[u] /\ work'[u] = work[u]
           /\ \A i \in Items : Opens(t, i) => Opens(t, i)' \/ HasRow(i)'
<1>0. /\ work[t] \in Works /\ pc \in [Threads -> Pcs] /\ work \in [Threads -> Works]
      /\ pc[t] \in {"report", "card"} /\ work[t].todo # {} /\ work[t].todo \subseteq Items
    BY WorkIs, TypeIs DEF ThreadsTyped, HandInv, Hand, Reports, Account, SaveCard
<1>1. \A i \in work[t].todo : HasRow(i)' /\ i \in work[t].items
    BY <1>0 DEF RowsOf, RowsGrow
<1>2. Loop(t, "report", "idle") \/ GoOn(t, "card", work[t])
    BY DEF Reports, Account, SaveCard
<1>3. CASE Loop(t, "report", "idle")
    <2>1. /\ \A u \in Threads \ {t} : pc'[u] = pc[u] /\ work'[u] = work[u]
          /\ \/ pc'[t] = "idle"
             \/ pc'[t] = "report" /\ work'[t] = Rest(t)
        BY <1>0, <1>3, LoopIs DEF Pcs
    <2>2. \/ pc'[t] = "idle"
          \/ /\ pc'[t] = "report" /\ work'[t].items = work[t].items
             /\ work'[t].todo \subseteq work[t].todo
        BY <2>1, WorkIs DEF Works
    <2>3. RowsOf(t)'
        BY <1>1, <2>2 DEF RowsOf
    <2> QED
        BY <1>0, <2>1, <2>2, <2>3 DEF Opens
<1>4. CASE GoOn(t, "card", work[t])
    <2>1. /\ pc'[t] = "card" /\ work'[t] = work[t]
          /\ \A u \in Threads \ {t} : pc'[u] = pc[u] /\ work'[u] = work[u]
        BY <1>0, <1>4 DEF GoOn
    <2>2. RowsOf(t)'
        BY <1>1, <2>1 DEF RowsOf
    <2> QED
        BY <1>0, <2>1, <2>2 DEF Opens
<1> QED
    BY <1>2, <1>3, <1>4

\* The steps that make, take and end the composed tasks.
LEMMA CreateRows ==
    ASSUME TypeOK, HandInv, RowsGrow, \A u \in Threads : RowsOf(u), OneEach,
           \A k \in Batches : RowsOfTask(k), NEW t \in Threads, NEW b \in Batches, Create(t, b)
    PROVE  (\A u \in Threads : RowsOf(u)') /\ OneEach' /\ \A k \in Batches : RowsOfTask(k)'
<1>0. /\ work[t] \in Works /\ pc \in [Threads -> Pcs] /\ work \in [Threads -> Works]
      /\ work[t].items \subseteq Items /\ RowsOf(t)
    BY WorkIs, TypeIs DEF ThreadsTyped
<1>1. /\ pc[t] = "compose" /\ task[b].status = "none" /\ \A u \in Threads : work[u].job # b
      /\ pc'[t] = "offer" /\ work'[t].job = b /\ work'[t].items = work[t].items
      /\ \A u \in Threads \ {t} : pc'[u] = pc[u] /\ work'[u] = work[u]
    <2>1. [work[t] EXCEPT !.job = b].job = b /\ [work[t] EXCEPT !.job = b].items = work[t].items
        BY <1>0 DEF Works
    <2> QED
        BY <1>0, <2>1 DEF Create, GoOn
<1>2. /\ task'[b].status = "queued" /\ task'[b].text = work[t].items
      /\ \A k \in Batches : k # b => task'[k] = task[k]
    BY TypeIs DEF Create, RestTyped
<1>3. ASSUME NEW u \in Threads PROVE RowsOf(u)'
    <2>1. CASE u = t
        BY <1>1, <1>2, <2>1 DEF RowsOf
    <2>2. CASE u # t
        <3>1. PICK k : k = work[u].job /\ (pc[u] \in {"offer", "batch"} => k \in Batches)
            BY DEF HandInv, Hand
        <3>2. /\ k # b /\ (pc[u] \in {"offer", "batch"} => task'[k] = task[k])
              /\ (pc[u] = "batch" => task[k].status = "running")
            BY <1>1, <1>2, <3>1 DEF RowsOf
        <3> QED
            BY <1>1, <2>2, <3>1, <3>2, RowsOfStays
    <2> QED
        BY <2>1, <2>2
<1>4. OneEach'
    BY <1>1 DEF OneEach
<1>5. ASSUME NEW u \in Threads, NEW i \in Items, Opens(u, i)
      PROVE  Opens(u, i)' \/ HasRow(i)'
    <2>1. CASE u = t
        BY <1>1, <1>5, <2>1 DEF Opens
    <2> QED
        BY <1>1, <1>5, <2>1 DEF Opens
<1>6. ASSUME NEW k \in Batches PROVE RowsOfTask(k)'
    <2>1. CASE k = b
        <3>1. \A i \in work[t].items : Opens(t, i)'
            BY <1>1 DEF Opens
        <3> QED
            BY <1>1, <1>2, <2>1, <3>1 DEF RowsOfTask
    <2>2. CASE k # b
        <3>1. \A u \in Threads : pc[u] = "offer" /\ work[u].job = k =>
                  pc'[u] = "offer" /\ work'[u].job = k
            BY <1>1
        <3> QED
            BY <1>2, <1>5, <2>2, <3>1, RowsOfTaskStays
    <2> QED
        BY <2>1, <2>2
<1> QED
    BY <1>3, <1>4, <1>6

LEMMA OfferRows ==
    ASSUME TypeOK, HandInv, RowsGrow, \A u \in Threads : RowsOf(u), OneEach,
           \A k \in Batches : RowsOfTask(k), NEW t \in Threads, RememberOffer(t)
    PROVE  (\A u \in Threads : RowsOf(u)') /\ OneEach' /\ \A k \in Batches : RowsOfTask(k)'
<1>0. /\ work[t] \in Works /\ pc \in [Threads -> Pcs] /\ work \in [Threads -> Works]
      /\ work[t].items \subseteq Items /\ RowsOf(t)
    BY WorkIs, TypeIs DEF ThreadsTyped
<1>1. PICK b \in Batches : b = work[t].job
    BY DEF RememberOffer, HandInv, Hand
<1>2. /\ pc[t] = "offer" /\ pc'[t] = "compose" /\ work'[t].job = "pass"
      /\ work'[t].items = work[t].items /\ (work'[t].gave <=> work[t].items # {})
      /\ \A u \in Threads \ {t} : pc'[u] = pc[u] /\ work'[u] = work[u]
    <2> DEFINE w == [work[t] EXCEPT !.job = "pass", !.gave = work[t].items # {}]
    <2>1. w.job = "pass" /\ w.items = work[t].items /\ w.gave = (work[t].items # {})
        BY <1>0 DEF Works
    <2>2. pc[t] = "offer" /\ GoOn(t, "compose", w)
        BY DEF RememberOffer
    <2>3. work'[t] = w
        BY <1>0, <2>2 DEF GoOn
    <2>4. work'[t].gave <=> work[t].items # {}
        BY <2>1, <2>3
    <2> QED
        BY <1>0, <2>1, <2>2, <2>3, <2>4 DEF GoOn
<1>3. /\ task'[b].status = task[b].status /\ task'[b].text = task[b].text
      /\ task'[b].offer = work[t].items /\ \A k \in Batches : k # b => task'[k] = task[k]
    BY <1>1, TypeIs DEF RememberOffer, OfferOf, RestTyped
<1>4. ASSUME NEW u \in Threads PROVE RowsOf(u)'
    <2>1. CASE u = t
        BY <1>2, <2>1 DEF RowsOf
    <2>2. CASE u # t
        <3>1. PICK k : k = work[u].job /\ (pc[u] \in {"offer", "batch"} => k \in Batches)
            BY DEF HandInv, Hand
        <3>2. /\ pc[u] \in {"offer", "batch"} =>
                     task'[k].status = task[k].status /\ task'[k].text = task[k].text
              /\ (pc[u] = "batch" => task[k].status = "running")
            BY <1>3, <3>1 DEF RowsOf
        <3> QED
            BY <1>2, <2>2, <3>1, <3>2, RowsOfStays
    <2> QED
        BY <2>1, <2>2
<1>5. OneEach'
    BY <1>2 DEF OneEach
<1>6. ASSUME NEW u \in Threads, NEW i \in Items, Opens(u, i)
      PROVE  Opens(u, i)' \/ HasRow(i)'
    <2>1. CASE u = t
        BY <1>2, <1>6, <2>1 DEF Opens
    <2> QED
        BY <1>2, <1>6, <2>1 DEF Opens
<1>7. ASSUME NEW k \in Batches PROVE RowsOfTask(k)'
    <2>1. CASE k = b
        <3>1. task[b].text \subseteq Items
            BY TypeIs DEF RestTyped
        <3>2. task[b].status # "none" => task[b].text = work[t].items
            BY <1>0, <1>1, <1>2 DEF RowsOf
        <3> QED
            BY <1>3, <1>6, <2>1, <3>1, <3>2 DEF RowsOfTask, RowsGrow
    <2>2. CASE k # b
        <3>1. \A u \in Threads : pc[u] = "offer" /\ work[u].job = k =>
                  pc'[u] = "offer" /\ work'[u].job = k
            BY <1>1, <1>2, <2>2
        <3> QED
            BY <1>3, <1>6, <2>2, <3>1, RowsOfTaskStays
    <2> QED
        BY <2>1, <2>2
<1> QED
    BY <1>4, <1>5, <1>7

LEMMA TakeRows ==
    ASSUME TypeOK, HandInv, RowsGrow, \A u \in Threads : RowsOf(u), OneEach,
           \A k \in Batches : RowsOfTask(k), NEW t \in Threads, NEW b \in Batches,
           TakeBatch(t, b)
    PROVE  (\A u \in Threads : RowsOf(u)') /\ OneEach' /\ \A k \in Batches : RowsOfTask(k)'
<1>0. pc \in [Threads -> Pcs] /\ work \in [Threads -> Works]
    BY TypeIs DEF ThreadsTyped
<1>1. /\ pc[t] = "idle" /\ pc'[t] = "batch" /\ work'[t].job = b
      /\ \A u \in Threads \ {t} : pc'[u] = pc[u] /\ work'[u] = work[u]
    BY <1>0 DEF TakeBatch, GoOn, NoWork
<1>2. /\ task[b].status = "queued" /\ task'[b].status = "running"
      /\ task'[b].text = task[b].text /\ task'[b].offer = task[b].offer
      /\ \A k \in Batches : k # b => task'[k] = task[k]
    BY TypeIs DEF TakeBatch, RestTyped
<1>3. \A u \in Threads : ~(pc[u] = "batch" /\ work[u].job = b)
    BY <1>2 DEF RowsOf
<1>4. ASSUME NEW u \in Threads PROVE RowsOf(u)'
    <2>1. CASE u = t
        BY <1>1, <1>2, <2>1 DEF RowsOf
    <2>2. CASE u # t
        <3>1. PICK k : k = work[u].job /\ (pc[u] \in {"offer", "batch"} => k \in Batches)
            BY DEF HandInv, Hand
        <3>2. /\ pc[u] = "offer" => /\ task'[k].text = task[k].text
                                    /\ task'[k].status # "none" => task[k].status # "none"
              /\ (pc[u] = "batch" => task'[k].status = "running")
            BY <1>2, <3>1 DEF RowsOf
        <3> QED
            BY <1>1, <2>2, <3>1, <3>2, RowsOfStays
    <2> QED
        BY <2>1, <2>2
<1>5. OneEach'
    BY <1>1, <1>3 DEF OneEach
<1>6. ASSUME NEW u \in Threads, NEW i \in Items, Opens(u, i)
      PROVE  Opens(u, i)' \/ HasRow(i)'
    BY <1>1, <1>6 DEF Opens
<1>7. ASSUME NEW k \in Batches PROVE RowsOfTask(k)'
    <2>0. \A u \in Threads : pc[u] = "offer" /\ work[u].job = k =>
              pc'[u] = "offer" /\ work'[u].job = k
        BY <1>1
    <2>1. CASE k = b
        <3>1. task[b].text \subseteq Items
            BY TypeIs DEF RestTyped
        <3> QED
            BY <1>2, <1>6, <2>0, <2>1, <3>1 DEF RowsOfTask, RowsGrow
    <2>2. CASE k # b
        BY <1>2, <1>6, <2>0, <2>2, RowsOfTaskStays
    <2> QED
        BY <2>1, <2>2
<1> QED
    BY <1>4, <1>5, <1>7

\* A composed task has its result after the pass that composed it: all its
\* items have their rows by then, and the offer is there.
LEMMA ResultRows ==
    ASSUME TypeOK, HandInv, RowsGrow, \A u \in Threads : RowsOf(u), OneEach,
           \A k \in Batches : RowsOfTask(k), ~Accident("early"),
           NEW t \in Threads, BatchHasResult(t) \/ BatchEnds(t)
    PROVE  (\A u \in Threads : RowsOf(u)') /\ OneEach' /\ \A k \in Batches : RowsOfTask(k)'
<1>0. /\ work[t] \in Works /\ pc \in [Threads -> Pcs] /\ work \in [Threads -> Works]
      /\ RowsOf(t) /\ pc[t] = "batch"
    BY WorkIs, TypeIs DEF ThreadsTyped, BatchHasResult, BatchEnds
<1>1. PICK b \in Batches : b = work[t].job
    BY DEF BatchHasResult, BatchEnds, HandInv, Hand
<1>2. task[b].status = "running"
    BY <1>0, <1>1 DEF RowsOf
<1>3. /\ \/ task'[b].status = "none"
         \/ /\ task'[b].status = "queued" /\ task'[b].text = task[b].text
            /\ task'[b].offer = task[b].offer
      /\ \A k \in Batches : k # b => task'[k] = task[k]
    <2>1. task' = [task EXCEPT ![b] = NoTask] \/ task' = [task EXCEPT ![b].status = "queued"]
        BY <1>1 DEF BatchHasResult, BatchEnds
    <2>2. NoTask.status = "none"
        BY DEF NoTask
    <2>3. task \in [Batches -> [status : {"none", "queued", "running"},
                               text : SUBSET Items, offer : SUBSET Items]]
        BY TypeIs DEF RestTyped
    <2>4. \A k \in Batches : k # b => task'[k] = task[k]
        BY <2>1, <2>3
    <2> QED
        BY <2>1, <2>2, <2>3, <2>4
<1>4. /\ pc'[t] \in {"idle", "report"}
      /\ \A u \in Threads \ {t} : pc'[u] = pc[u] /\ work'[u] = work[u]
    BY <1>0 DEF BatchHasResult, BatchEnds, GoOn
<1>5. RowsOf(t)'
    <2>1. CASE BatchEnds(t)
        BY <1>0, <2>1 DEF BatchEnds, GoOn, RowsOf
    <2>2. CASE BatchHasResult(t)
        <3>1. PassIsThrough
            BY <2>2 DEF BatchHasResult
        <3>2. \A u \in Threads : pc[u] # "offer" /\ work[u].job # "pass"
            BY <3>1, UpdatesAssumption DEF PassIsThrough
        <3>3. PICK text \in SUBSET Items, offer \in SUBSET Items :
                  text = task[b].text /\ offer = task[b].offer
            BY TypeIs DEF RestTyped
        <3>4. \A u \in Threads, i \in Items : ~Opens(u, i)
            BY <1>0, <3>2 DEF Opens, RowsOf
        <3>5. text \subseteq offer /\ \A i \in text : HasRow(i)
            BY <1>2, <3>2, <3>3, <3>4 DEF RowsOfTask
        <3>6. \/ pc'[t] = "idle"
              \/ pc'[t] = "report" /\ work'[t].items = offer /\ work'[t].todo = text
            <4> DEFINE w == [work[t] EXCEPT !.items = offer, !.todo = text]
            <4>1. GoOn(t, IF text = {} THEN "idle" ELSE "report", w)
                BY <1>1, <2>2, <3>3 DEF BatchHasResult
            <4>2. w.items = offer /\ w.todo = text
                BY <1>0 DEF Works
            <4> HIDE DEF w
            <4> QED
                BY <1>0, <4>1, <4>2 DEF GoOn
        <3> QED
            BY <3>5, <3>6 DEF RowsOf, RowsGrow
    <2> QED
        BY <2>1, <2>2
<1>6. ASSUME NEW u \in Threads PROVE RowsOf(u)'
    <2>1. CASE u # t
        <3>1. PICK k : k = work[u].job /\ (pc[u] \in {"offer", "batch"} => k \in Batches)
            BY DEF HandInv, Hand
        <3>2. pc[u] = "batch" => k # b /\ task[k].status = "running"
            BY <1>0, <1>1, <2>1, <3>1 DEF RowsOf, OneEach
        <3>3. pc[u] = "offer" /\ task'[k].status # "none" =>
                  task[k].status # "none" /\ task'[k].text = task[k].text
            BY <1>2, <1>3, <3>1
        <3> QED
            BY <1>0, <1>3, <1>4, <2>1, <3>1, <3>2, <3>3, RowsOfStays
    <2> QED
        BY <1>5, <2>1
<1>7. OneEach'
    BY <1>4 DEF OneEach
<1>8. ASSUME NEW u \in Threads, NEW i \in Items, Opens(u, i)
      PROVE  Opens(u, i)' \/ HasRow(i)'
    BY <1>0, <1>4, <1>8 DEF Opens
<1>9. ASSUME NEW k \in Batches PROVE RowsOfTask(k)'
    <2>0. \A u \in Threads : pc[u] = "offer" /\ work[u].job = k =>
              pc'[u] = "offer" /\ work'[u].job = k
        BY <1>0, <1>4
    <2>1. CASE k = b
        <3>1. task[b].text \subseteq Items
            BY TypeIs DEF RestTyped
        <3> QED
            BY <1>2, <1>3, <1>8, <2>0, <2>1, <3>1 DEF RowsOfTask, RowsGrow
    <2>2. CASE k # b
        BY <1>3, <1>8, <2>0, <2>2, RowsOfTaskStays
    <2> QED
        BY <2>1, <2>2
<1> QED
    BY <1>6, <1>7, <1>9

\* What every thread and every task keeps, in a step without accidents.
Linked == (\A t \in Threads : RowsOf(t)) /\ OneEach /\ \A b \in Batches : RowsOfTask(b)

LEMMA LinkedPreserved ==
    ASSUME TypeOK, HandInv, Linked, ~Accident("early"), ~Accident("kill"), [Next]_vars
    PROVE  Linked'
<1>0. RowsGrow
    BY RowsStand
<1>1. ASSUME UNCHANGED <<task, pc, work>> PROVE Linked'
    <2>1. \A t \in Threads : RowsOf(t)'
        <3> TAKE t \in Threads
        <3>1. PICK b : b = work[t].job
            OBVIOUS
        <3>2. pc[t] = "batch" => task[b].status = "running"
            BY <3>1 DEF Linked, RowsOf
        <3> QED
            BY <1>0, <1>1, <3>1, <3>2, RowsOfStays DEF Linked
    <2>2. \A t \in Threads, i \in Items : Opens(t, i) => Opens(t, i)'
        BY <1>1 DEF Opens
    <2>3. \A b \in Batches : RowsOfTask(b)'
        BY <1>0, <1>1, <2>2, RowsOfTaskStays DEF Linked
    <2> QED
        BY <1>1, <2>1, <2>3 DEF Linked, OneEach
<1>2. ASSUME \/ \E i \in Items : Write(i) \/ Settle(i)
             \/ UNCHANGED vars
      PROVE  UNCHANGED <<task, pc, work>>
    BY <1>2 DEF Write, Settle, vars
<1>3. ASSUME NEW t \in Threads,
             (\E j \in {"task", "pass"} : Begin(t, j)) \/ Read(t) \/ AddOwed(t)
                 \/ Composed(t) \/ TaskEnds(t) \/ Seen(t) \/ Reports(t)
      PROVE  Linked'
    <2>1. UNCHANGED task /\ pc[t] \notin {"offer", "batch"}
        BY <1>3, OwnSteps
    <2>2. /\ RowsOf(t)' /\ pc'[t] # "batch"
          /\ \A u \in Threads \ {t} : pc'[u] = pc[u] /\ work'[u] = work[u]
          /\ \A i \in Items : Opens(t, i) => Opens(t, i)' \/ HasRow(i)'
        BY <1>0, <1>3, CollectRows, SeenRows, ReportRows DEF Linked
    <2> QED
        BY <1>0, <2>1, <2>2, OwnRows DEF Linked
<1>4. ASSUME NEW t \in Threads,
             (\E b \in Batches : Create(t, b) \/ TakeBatch(t, b)) \/ RememberOffer(t)
                 \/ BatchHasResult(t) \/ BatchEnds(t)
      PROVE  Linked'
    BY <1>0, <1>4, CreateRows, OfferRows, TakeRows, ResultRows DEF Linked
<1>5. ~Kill
    BY DEF Kill
<1> QED
    BY <1>1, <1>2, <1>3, <1>4, <1>5 DEF Next, People, Start, Step, Compose

LEMMA RowsPreserved == TypeOK /\ HandInv /\ RowsInv /\ [Next]_vars /\ TypeOK' => RowsInv'
<1> SUFFICES ASSUME TypeOK, HandInv, RowsInv, [Next]_vars, TypeOK', Tidy'
             PROVE  Settled' /\ Linked'
    BY DEF RowsInv, Linked, Tidy
<1>1. Tidy /\ ~Accident("early") /\ ~Accident("kill")
    BY TidyIs
<1>2. Settled /\ Linked
    BY <1>1 DEF RowsInv, Linked, Tidy
<1> QED
    BY <1>1, <1>2, SettledPreserved, LinkedPreserved DEF Linked

LEMMA InitRows == Init => RowsInv
BY DEF Init, RowsInv, Settled, RowsOf, OneEach, RowsOfTask, NoTask

\* What the last account of a run calls done is not owed any more, whatever
\* other runs and passes do meanwhile, unless the lane was killed or a composed
\* task had its result before the pass that composed it had marked its bundle.
THEOREM DoneIsClosed == Spec => []DoneIsNotOwed
<1>1. TypeOK /\ HandInv /\ NoneIsPassed /\ RowsInv /\ [Next]_vars
          /\ (TypeOK /\ HandInv /\ NoneIsPassed)' => RowsInv'
    BY RowsPreserved
<1>2. RowsInv => DoneIsNotOwed
    BY DEF RowsInv, Settled, DoneIsNotOwed
<1> QED
    BY <1>1, <1>2, InitRows, Invariant, PTL DEF Spec
==========================================================================
