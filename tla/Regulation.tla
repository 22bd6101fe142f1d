------------------------------ MODULE Regulation ------------------------------
(***************************************************************************)
(* The contract of a regulation decision (src/giclab/harness/regulation.py) *)
(* is stated twice: by RegulationDecision, which the writer of the event    *)
(* stream runs on every payload before it appends it (events.py:41-42), and *)
(* by schemas/harness-event.schema.json, which only the offline validation  *)
(* runs.  A payload the first accepts and the second refuses is discovered  *)
(* when the evidence can no longer be repaired.                             *)
(*                                                                          *)
(* JSON values of a wrong type are refused by both and left out, except in  *)
(* input_event_sequences: a number such as 1.0 is an integer to JSON schema *)
(* ("type": "integer", and equal to 1), and is none to the writer.          *)
(***************************************************************************)
EXTENDS Integers, Sequences, TextClasses

CONSTANT FloatValue \* the integer each JSON number such as 1.0 is equal to

FloatAssumption ==
    /\ DOMAIN FloatValue \cap Int = {}
    /\ \A x \in DOMAIN FloatValue : FloatValue[x] \in Int
ASSUME FloatAssumption

SourceKinds == {"experiment_assignment", "external_rule", "external_prompted_model",
                "model_explicit_output", "human_override", "unknown"}
Provenances == {"observed", "derived", "inferred", "unavailable"}

FieldNames == {"decision_id", "source_kind", "policy_id", "policy_revision",
               "available_modes", "selected_mode", "confidence", "override", "fallback",
               "input_event_sequences", "raw_artifact_refs", "resolved_configuration_refs"}

Members(s) == {s[i] : i \in DOMAIN s}
NoDuplicates(s) == \A i, j \in DOMAIN s : s[i] = s[j] => i = j

-----------------------------------------------------------------------------
(* What the writer runs: regulation.py.                                     *)

UniqueTexts(s) == s # <<>> /\ Members(s) \subseteq Texts /\ NoDuplicates(s)
References(s) == Members(s) \subseteq Paths \cup BrokenPaths /\ NoDuplicates(s)

\* RegulationOverride and RegulationFallback are the same record under two names:
\* whether it happened, its source or target, the reason.
Detail(happened, subject, reason) ==
    /\ happened \in {Null, TRUE, FALSE}
    /\ OptionalText(subject) /\ OptionalText(reason)
    /\ happened # TRUE => subject = Null /\ reason = Null
    /\ happened = TRUE => subject # Null

\* Mutant: an empty list passes for a list.
MissingButLists(d) ==
    {f \in {"policy_id", "policy_revision", "available_modes", "confidence"} : d[f] = Null}
    \cup (IF d.source_kind = "unknown" THEN {"source_kind"} ELSE {})
    \cup (IF d.override.applied = Null THEN {"override"} ELSE {})
    \cup (IF d.fallback.triggered = Null THEN {"fallback"} ELSE {})

\* The fields whose provenance has to be "unavailable"; all others must not be.
Missing(d) ==
    {f \in {"policy_id", "policy_revision", "available_modes", "confidence"} : d[f] = Null}
    \cup {f \in {"input_event_sequences", "raw_artifact_refs", "resolved_configuration_refs"} :
              d[f] = <<>>}
    \cup (IF d.source_kind = "unknown" THEN {"source_kind"} ELSE {})
    \cup (IF d.override.applied = Null THEN {"override"} ELSE {})
    \cup (IF d.fallback.triggered = Null THEN {"fallback"} ELSE {})

ProvenanceFits(d) ==
    /\ DOMAIN d.field_provenance = FieldNames
    /\ \A f \in FieldNames :
          /\ d.field_provenance[f] \in Provenances
          /\ d.field_provenance[f] = "unavailable" <=> f \in Missing(d)

ValidDecision(d) ==
    /\ d.decision_id \in Texts /\ d.selected_mode \in Texts
    /\ d.source_kind \in SourceKinds
    /\ OptionalText(d.policy_id) /\ OptionalText(d.policy_revision)
    /\ d.available_modes # Null =>
          UniqueTexts(d.available_modes) /\ d.selected_mode \in Members(d.available_modes)
    /\ d.confidence # Null => d.confidence \in 0..100
    /\ Detail(d.override.applied, d.override.source, d.override.reason)
    /\ Detail(d.fallback.triggered, d.fallback.target, d.fallback.reason)
    /\ Members(d.input_event_sequences) \subseteq Nat \ {0}
    /\ NoDuplicates(d.input_event_sequences)
    /\ References(d.raw_artifact_refs) /\ References(d.resolved_configuration_refs)
    /\ d.raw_artifact_refs # <<>> \/ d.resolved_configuration_refs # <<>>
    /\ ProvenanceFits(d)

-----------------------------------------------------------------------------
(* What the offline validation runs as well: the definitions                *)
(* regulation-decision, override, fallback, reference and field-provenance  *)
(* of schemas/harness-event.schema.json.                                    *)

NumberOf(x) == IF x \in DOMAIN FloatValue THEN FloatValue[x] ELSE x
SchemaSequences(s) ==
    /\ \A i \in DOMAIN s : NumberOf(s[i]) \in Nat \ {0}
    /\ \A i, j \in DOMAIN s : NumberOf(s[i]) = NumberOf(s[j]) => i = j

SchemaReferences(s) == (\A i \in DOMAIN s : SchemaPath(s[i])) /\ NoDuplicates(s)

SchemaDetail(happened, subject, reason) ==
    /\ happened \in {Null, TRUE, FALSE}
    /\ IF happened = TRUE THEN MinLength1(subject) /\ NullOrMinLength1(reason)
                          ELSE subject = Null /\ reason = Null

\* One if/then/else of the schema: "unavailable" when absent, else one of the others.
SchemaProvenance(d, f, absent) ==
    IF absent THEN d.field_provenance[f] = "unavailable"
              ELSE d.field_provenance[f] \in Provenances \ {"unavailable"}

SchemaFieldProvenance(d) ==
    /\ DOMAIN d.field_provenance = FieldNames
    /\ SchemaProvenance(d, "decision_id", FALSE)
    /\ SchemaProvenance(d, "selected_mode", FALSE)
    /\ SchemaProvenance(d, "source_kind", d.source_kind = "unknown")
    /\ \A f \in {"policy_id", "policy_revision", "available_modes", "confidence"} :
          SchemaProvenance(d, f, d[f] = Null)
    /\ SchemaProvenance(d, "override", d.override.applied = Null)
    /\ SchemaProvenance(d, "fallback", d.fallback.triggered = Null)
    /\ \A f \in {"input_event_sequences", "raw_artifact_refs", "resolved_configuration_refs"} :
          SchemaProvenance(d, f, d[f] = <<>>)

SchemaAccepts(d) ==
    /\ MinLength1(d.decision_id) /\ MinLength1(d.selected_mode)
    /\ d.source_kind \in SourceKinds
    /\ NullOrMinLength1(d.policy_id) /\ NullOrMinLength1(d.policy_revision)
    /\ \/ d.available_modes = Null
       \/ /\ d.available_modes # <<>> /\ NoDuplicates(d.available_modes)
          /\ \A i \in DOMAIN d.available_modes : MinLength1(d.available_modes[i])
    /\ d.confidence = Null \/ d.confidence \in 0..100
    /\ SchemaDetail(d.override.applied, d.override.source, d.override.reason)
    /\ SchemaDetail(d.fallback.triggered, d.fallback.target, d.fallback.reason)
    /\ SchemaSequences(d.input_event_sequences)
    /\ SchemaReferences(d.raw_artifact_refs)
    /\ SchemaReferences(d.resolved_configuration_refs)
    /\ d.raw_artifact_refs # <<>> \/ d.resolved_configuration_refs # <<>>
    /\ SchemaFieldProvenance(d)

-----------------------------------------------------------------------------
(* Where the two contracts part.                                            *)

AllReferences(d) == Members(d.raw_artifact_refs) \cup Members(d.resolved_configuration_refs)
AllTexts(d) ==
    {d.decision_id, d.selected_mode, d.policy_id, d.policy_revision,
     d.override.source, d.override.reason, d.fallback.target, d.fallback.reason}
    \cup (IF d.available_modes = Null THEN {} ELSE Members(d.available_modes))

\* The writer never accepts what the offline schema refuses, but for a reference with
\* a line break in it.
WriterWithinSchema(d) ==
    ValidDecision(d) /\ AllReferences(d) \cap BrokenPaths = {} => SchemaAccepts(d)

\* The schema alone accepts more: an unlisted mode, unsafe texts, blank or loose paths as
\* references, an integral number such as 1.0 as a sequence.
SchemaBeyondWriter(d) ==
    SchemaAccepts(d) /\ ~ValidDecision(d) =>
        \/ d.available_modes # Null /\ d.selected_mode \notin Members(d.available_modes)
        \/ AllTexts(d) \cap UnsafeTexts # {}
        \/ AllReferences(d) \cap (BlankPaths \cup LoosePaths) # {}
        \/ Members(d.input_event_sequences) \cap DOMAIN FloatValue # {}
=============================================================================
