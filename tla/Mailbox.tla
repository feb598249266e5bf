----------------------------- MODULE Mailbox -----------------------------
(* What the steering messages of a task are promised, with no executor in  *)
(* it: a message waits on its task, is held by a run, and ends with a      *)
(* model, in a note that asks its sender to send it again, or nowhere; a   *)
(* run may put back what it holds, and nothing comes back from a model     *)
(* (docs/how-to/stream-json-runner.md, "Exactly once").  What a new run is *)
(* opened with stays its opening until the task has another run.           *)
CONSTANT Messages

VARIABLE place

Init == place = [m \in Messages |-> "unsent"]

\* The messages ms, which are all in one place, go to another.
Move(ms, from, to) ==
    /\ \A m \in ms : place[m] = from
    /\ place' = [m \in Messages |-> IF m \in ms THEN to ELSE place[m]]

\* The held messages ms open a run of the task.  Those that opened the run
\* before it are with its model.
Open(ms) ==
    /\ \A m \in ms : place[m] = "held"
    /\ place' = [m \in Messages |-> IF m \in ms THEN "opening"
                                   ELSE IF place[m] = "opening" THEN "given"
                                   ELSE place[m]]

Next ==
    \E ms \in SUBSET Messages :
        \/ Move(ms, "unsent", "waiting")
        \/ \E to \in {"held", "given", "lost"} : Move(ms, "waiting", to)
        \/ \E to \in {"waiting", "given", "told", "lost"} : Move(ms, "held", to)
        \/ Open(ms)

Spec == Init /\ [][Next]_place
==========================================================================
