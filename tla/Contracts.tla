------------------------------- MODULE Contracts -------------------------------
(***************************************************************************)
(* Parts of the harness that keep no state another part reads: the redactor *)
(* of a pipe, a pair of SiRA commands, the decision an adapter hands to the *)
(* writer of the event stream, and the plan a program hands to the          *)
(* executor.  They share no variable, so it is enough to let one of them    *)
(* work while the others rest.                                              *)
(***************************************************************************)
EXTENDS Redaction, MatchedPair, PlanContract

CONSTANTS
    SampleTexts, \* the texts an adapter or a program fills in
    SamplePaths, \* the paths it fills in
    MaxFills     \* bound: fields that depart from a decision or a plan that is valid

VARIABLES
    payload,     \* the decision an adapter is about to emit, Null when none is
    executed,    \* the plan a program is about to execute, Null when none is
    fills        \* how many fields may still be changed
filledVars == <<payload, executed, fills>>

vars == <<redactorVars, pairVars, filledVars>>

-----------------------------------------------------------------------------
(* An adapter fills in a decision.                                          *)

\* Nothing but what is required, and everything that can be present.
Sparse(text, path) ==
    [decision_id |-> text, source_kind |-> "unknown", policy_id |-> Null,
     policy_revision |-> Null, available_modes |-> Null, selected_mode |-> text,
     confidence |-> Null, override |-> [applied |-> Null, source |-> Null, reason |-> Null],
     fallback |-> [triggered |-> Null, target |-> Null, reason |-> Null],
     input_event_sequences |-> <<>>, raw_artifact_refs |-> <<path>>,
     resolved_configuration_refs |-> <<>>,
     field_provenance |-> [f \in FieldNames |->
         IF f \in {"decision_id", "selected_mode", "raw_artifact_refs"} THEN "observed"
         ELSE "unavailable"]]

Full(text, path) ==
    [decision_id |-> text, source_kind |-> "human_override", policy_id |-> text,
     policy_revision |-> text, available_modes |-> <<text>>, selected_mode |-> text,
     confidence |-> 100, override |-> [applied |-> TRUE, source |-> text, reason |-> text],
     fallback |-> [triggered |-> TRUE, target |-> text, reason |-> Null],
     input_event_sequences |-> <<1>>, raw_artifact_refs |-> <<path>>,
     resolved_configuration_refs |-> <<path>>,
     field_provenance |-> [f \in FieldNames |-> "derived"]]

\* An adapter fills one field differently.
Lists(S) == {<<>>} \cup {<<x>> : x \in S} \cup {<<x, x>> : x \in S}
OptionalTexts == SampleTexts \cup {Null}
Switch == {Null, TRUE, FALSE}
Sequences == Lists({0, 1} \cup DOMAIN FloatValue) \cup {<<1, x>> : x \in DOMAIN FloatValue}

Filled(d) ==
    {[d EXCEPT ![f] = t] : f \in {"decision_id", "selected_mode"}, t \in SampleTexts}
    \cup {[d EXCEPT ![f] = t] : f \in {"policy_id", "policy_revision"}, t \in OptionalTexts}
    \cup {[d EXCEPT !.source_kind = k] : k \in {"unknown", "external_rule", "guess"}}
    \cup {[d EXCEPT !.available_modes = s] : s \in Lists(SampleTexts) \cup {Null}}
    \cup {[d EXCEPT !.confidence = c] : c \in {Null, 0, 100, 101}}
    \cup {[d EXCEPT !.override.applied = b] : b \in Switch}
    \cup {[d EXCEPT !.override[f] = t] : f \in {"source", "reason"}, t \in OptionalTexts}
    \cup {[d EXCEPT !.fallback.triggered = b] : b \in Switch}
    \cup {[d EXCEPT !.fallback[f] = t] : f \in {"target", "reason"}, t \in OptionalTexts}
    \cup {[d EXCEPT !.input_event_sequences = s] : s \in Sequences}
    \cup {[d EXCEPT ![f] = s] : f \in {"raw_artifact_refs", "resolved_configuration_refs"},
                                s \in Lists(SamplePaths)}
    \cup {[d EXCEPT !.field_provenance[f] = p] :
              f \in DOMAIN d.field_provenance, p \in {"observed", "unavailable", "guess"}}
    \cup {[d EXCEPT !.field_provenance =
              [g \in DOMAIN d.field_provenance \ {f} |-> d.field_provenance[g]]] :
              f \in DOMAIN d.field_provenance}

SampleText == CHOOSE t \in SampleTexts : t \in Texts
SamplePath == CHOOSE p \in SamplePaths : p \in Paths
ValidDecisions == {Sparse(SampleText, SamplePath), Full(SampleText, SamplePath)}

-----------------------------------------------------------------------------
(* A program fills in a plan.                                               *)

Identifier == CHOOSE i \in Identifiers : TRUE
Digest == CHOOSE d \in Digests : TRUE
PairId == CHOOSE i \in PairIds : TRUE

Unauthorized ==
    [authorized |-> FALSE, authorization_reference |-> Null, command_sha256 |-> Null]
Query ==
    [task_id |-> SampleText, source_kind |-> "open-ended-query", query |-> SampleText,
     dataset_id |-> Null, dataset_revision |-> Null, start_idx |-> Null, end_idx |-> Null]
Slice ==
    [task_id |-> SampleText, source_kind |-> "dataset-slice", query |-> Null,
     dataset_id |-> SampleText, dataset_revision |-> SampleText,
     start_idx |-> 0, end_idx |-> 1]
Pairing == [pair_id |-> PairId, order_index |-> 1]

BarePlan ==
    [profile |-> "smoke", condition |-> SampleText, interpretation_allowed |-> FALSE,
     authorization |-> Unauthorized, model_revision |-> Null, dataset_revision |-> Null,
     root |-> SamplePath, profile_plan_id |-> Null, profile_sha256 |-> Null,
     task |-> Null, pairing |-> Null]
FullPlan(task) ==
    [profile |-> "pilot", condition |-> SampleText, interpretation_allowed |-> TRUE,
     authorization |-> [authorized |-> TRUE, authorization_reference |-> Identifier,
                        command_sha256 |-> Digest],
     model_revision |-> SampleText, dataset_revision |-> SampleText, root |-> SamplePath,
     profile_plan_id |-> Identifier, profile_sha256 |-> Digest,
     task |-> task, pairing |-> Pairing]
ValidPlans == {BarePlan, FullPlan(Query), FullPlan(Slice)}

FilledAuthorization(a) ==
    {[a EXCEPT !.authorized = b] : b \in BOOLEAN}
    \cup {[a EXCEPT !.authorization_reference = i] : i \in {Null, "", Identifier}}
    \cup {[a EXCEPT !.command_sha256 = d] : d \in {Null} \cup Digests}

FilledTask(t) ==
    {[t EXCEPT ![f] = v] : f \in {"query", "dataset_id", "dataset_revision"},
                           v \in OptionalTexts}
    \cup {[t EXCEPT !.task_id = v] : v \in SampleTexts}
    \cup {[t EXCEPT ![f] = n] : f \in {"start_idx", "end_idx"}, n \in {Null, -1, 0, 1, 2}}

FilledPairing(q) ==
    {[q EXCEPT !.pair_id = v] : v \in SampleTexts \cup PairIds}
    \cup {[q EXCEPT !.order_index = n] : n \in 0..3}

\* A program fills one field differently, or a part of one.
Fillings(p) ==
    ({"profile"} \X {"smoke", "pilot", "guess"})
    \cup ({"interpretation_allowed"} \X BOOLEAN)
    \cup ({"condition", "model_revision", "dataset_revision"} \X OptionalTexts)
    \cup ({"root"} \X SamplePaths)
    \cup ({"profile_plan_id"} \X {Null, "", Identifier})
    \cup ({"profile_sha256"} \X ({Null} \cup Digests))
    \cup ({"authorization"} \X FilledAuthorization(p.authorization))
    \cup ({"task"} \X ({Null, Query, Slice}
                        \cup IF p.task = Null THEN {} ELSE FilledTask(p.task)))
    \cup ({"pairing"} \X ({Null, Pairing}
                        \cup IF p.pairing = Null THEN {} ELSE FilledPairing(p.pairing)))

FilledPlan(p) == {[p EXCEPT ![c[1]] = c[2]] : c \in Fillings(p)}

-----------------------------------------------------------------------------
FillInit ==
    /\ \/ payload \in ValidDecisions /\ executed = Null
       \/ payload = Null /\ executed \in ValidPlans
    /\ fills = MaxFills
FillUnused == payload = Null /\ executed = Null /\ fills = 0

Fill ==
    /\ fills > 0
    /\ fills' = fills - 1
    /\ \/ payload # Null /\ payload' \in Filled(payload) /\ UNCHANGED executed
       \/ executed # Null /\ executed' \in FilledPlan(executed) /\ UNCHANGED payload

-----------------------------------------------------------------------------
\* A pair nobody asks for: there are no edits, no changes, and no stage to leave.
PairUnused ==
    /\ config = [m \in Modes |-> Null] /\ plan = config /\ root = config
    /\ command = config /\ decision = config
    /\ tree = "audited" /\ changes = 0 /\ since = 0 /\ edits = 0
    /\ stage = "refused" /\ side = "reactive" /\ looked = FALSE

Init ==
    \/ RedactorInit /\ PairUnused /\ FillUnused
    \/ RedactorUnused /\ PairInit /\ FillUnused
    \/ RedactorUnused /\ PairUnused /\ FillInit

Next ==
    \/ Redact /\ UNCHANGED <<pairVars, filledVars>>
    \/ Pair /\ UNCHANGED <<redactorVars, filledVars>>
    \/ Fill /\ UNCHANGED <<redactorVars, pairVars>>

Spec == Init /\ [][Next]_vars

-----------------------------------------------------------------------------
\* A contract that is stated twice is one contract.  Whatever an adapter fills in, the
\* writer never accepts what the offline schema refuses, but for a reference with a line
\* break in it, and the schema accepts more only for an unlisted mode, an unsafe text, a
\* blank or loose reference, or a sequence such as 1.0 (regulation.py,
\* schemas/harness-event.schema.json).  Whatever plan the constructors accept, the document
\* retained with the run is that plan again and is accepted offline, but for the form of its
\* pair_id and a line break in its root; and a digest that authorizes a plan authorizes no
\* other (models.py, plan.py, schemas/run-plan.schema.json).
ContractsAgree ==
    /\ payload # Null => WriterWithinSchema(payload) /\ SchemaBeyondWriter(payload)
    /\ executed # Null =>
          /\ RetainedAsExecuted(executed)
          /\ \A q \in ValidPlans : AuthorizesOnly(executed, q)
=============================================================================
