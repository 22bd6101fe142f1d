---------------------------- MODULE MCRunSession ----------------------------
(* Small instances of RunSession: two non-wall units and two raw files, or *)
(* one of each, and adapter results that claim files or not, leak or not,  *)
(* and attest a unit as unavailable, within or beyond its projection, or   *)
(* over the budget.                                                        *)
EXTENDS RunSession

TwoUnits == {"model_tokens", "tool_calls"}
TwoProjections == [u \in TwoUnits |-> IF u = "tool_calls" THEN 1 ELSE 0]
TwoBudgets == [r \in TwoUnits \cup {"wall"} |-> 2]
TwoRawPaths == <<"sub/events.jsonl", "trace.json">>
NestedPath == {"sub/events.jsonl"}

OneUnit == {"tool_calls"}
SmallProjection == [u \in OneUnit |-> 1]
NoProjection == [u \in OneUnit |-> 0]
SmallBudget == [r \in {"tool_calls", "wall"} |-> 2]
OneRawPath == <<"trace.json">>

Results(claims, kinds, units) ==
    [claims : claims, events : kinds, accounting : units]

Attestations ==
    {a \in [TwoUnits -> {Unavailable, 0, 1, 3}] :
       a["tool_calls"] # 0 /\ a["model_tokens"] # 3}

SomeResults ==
    Results({<<>>, <<"trace.json">>, TwoRawPaths},
            {<<"observation", "error">>, <<"observation", "leak">>}, Attestations)

FreeResults == Results({<<>>, OneRawPath}, {<<"observation">>}, [OneUnit -> {0}])

PlainResults == Results({<<>>, OneRawPath}, {<<"observation">>}, [OneUnit -> {1}])

ExcessResults == Results({<<>>}, {<<>>}, [OneUnit -> {2}])
=============================================================================
