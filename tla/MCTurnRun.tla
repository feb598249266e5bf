----------------------------- MODULE MCTurnRun -----------------------------
(* Turns for TLC: chat turns with the overseer, with a queue and a budget, *)
(* that concern a milestone, held; and the brief of a task, which can be   *)
(* stopped.                                                                *)
EXTENDS TurnRun, TLC

Chat(runner, on) == [typed |-> TRUE, mode |-> "normal", runner |-> runner, on |-> on]

MCTurns == {Chat("inline", {"overseer"}),
            Chat("background", {"queue", "budget"}),
            Chat("none", {"cue"}),
            [Chat("inline", {"asks", "signals"}) EXCEPT !.mode = "held"],
            [Chat("inline", {"queue", "cancel"}) EXCEPT
                 !.typed = FALSE, !.mode = "released"]}

Plan1(a, t, r) == [action |-> a, target |-> t, reply |-> r]

MCPlanned ==
    {Plan1("answer", t, "plain") : t \in {"none", "chat"}} \cup
    {Plan1("answer", "none", r) : r \in {"declines", "waits"}} \cup
    {Plan1(a, "code", "handoff") : a \in {"answer", "read"}} \cup
    {Plan1(a, "none", "plain") : a \in {"read", "tool", "clarify", "confirm"}} \cup
    {Plan1("deep", "code", "plain")}

MCHeld == {[Chat("inline", {"asks", "cue"}) EXCEPT !.mode = "held"]}
=============================================================================
