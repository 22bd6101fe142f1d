----------------------- MODULE MCProfileAuthorization -----------------------
(* The pilot of EXP-0001: two tasks, both conditions once per task, in     *)
(* counterbalanced order, once its prerequisites are met.                  *)
EXTENDS ProfileAuthorization

PlanOf(name, condition, number, position) ==
    [run |-> name, condition |-> condition, task |-> number, pair |-> number, order |-> position,
     fixed |-> "same", cap |-> 1, fits |-> TRUE, listed |-> TRUE, typed |-> TRUE,
     authorized |-> FALSE]

TwoByTwo ==
    [r1 |-> PlanOf("r1", "reactive", 1, 1), s1 |-> PlanOf("s1", "simulative", 1, 2),
     s2 |-> PlanOf("s2", "simulative", 2, 1), r2 |-> PlanOf("r2", "reactive", 2, 2)]

PairOf(number, starts, bound) ==
    [id |-> number, task |-> number, first |-> starts, second |-> OtherOf(starts),
     plans |-> {[path |-> p, condition |-> TwoByTwo[p].condition] : p \in bound}]

PilotProfile ==
    [count |-> 2, cap |-> 4, authorized |-> FALSE, eligible |-> TRUE, blockers |-> FALSE,
     form |-> "plain", paths |-> <<"r1", "s1", "s2", "r2">>,
     pairs |-> <<PairOf(1, "reactive", {"r1", "s1"}), PairOf(2, "simulative", {"s2", "r2"})>>]
=============================================================================
