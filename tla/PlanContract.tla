----------------------------- MODULE PlanContract -----------------------------
(***************************************************************************)
(* A run plan exists as a typed value (src/giclab/harness/models.py), which *)
(* the executor is given, and as a document (plan.py), which it retains as  *)
(* run-plan.json and which the offline validation parses again, after the   *)
(* checks of schemas/run-plan.schema.json.  Plans come from files, checked  *)
(* by both, or from a program, checked by the constructors alone.           *)
(*                                                                          *)
(* Fields with one and the same rule of their own in both contracts (the    *)
(* identifiers, commits, digests and limits) are left out; the ones here    *)
(* depend on each other or are bound in different ways.                     *)
(***************************************************************************)
EXTENDS Integers, TextClasses

CONSTANTS
    PairIds,     \* texts of the form PAIR-..., which the schema wants of a pair_id
    Identifiers, \* plan ids and references of an authorization, well-formed and not tainted
    Digests      \* SHA-256 digests

PlanFields == {"profile", "condition", "interpretation_allowed", "authorization",
               "model_revision", "dataset_revision", "root",
               "profile_plan_id", "profile_sha256", "task", "pairing"}

-----------------------------------------------------------------------------
(* The constructors: models.py.                                             *)

\* ExecutionAuthorization: all of it or nothing.
ValidAuthorization(a) ==
    IF a.authorized
    THEN a.authorization_reference \in Identifiers /\ a.command_sha256 \in Digests
    ELSE a.authorization_reference = Null /\ a.command_sha256 = Null

\* RunTask: a query, or a nonempty slice of a dataset.
ValidTask(t) ==
    /\ t.task_id \in Texts
    /\ \/ /\ t.source_kind = "open-ended-query"
          /\ NotBlank(t.query)
          /\ \A f \in {"dataset_id", "dataset_revision", "start_idx", "end_idx"} : t[f] = Null
       \/ /\ t.source_kind = "dataset-slice"
          /\ t.query = Null
          /\ NotBlank(t.dataset_id) /\ NotBlank(t.dataset_revision)
          /\ t.start_idx \in Nat /\ t.end_idx \in Nat /\ t.end_idx > t.start_idx

ValidPairing(q) == q.pair_id \in Texts /\ q.order_index \in {1, 2}

\* ArtifactPolicy: relative, without dot or parent components, not tainted; but it may be
\* a blank.
ValidRoot(r) == r \in Paths \cup BlankPaths \cup BrokenPaths

\* SourceVersions, where its fields are texts.
ValidRevisions(p) == OptionalText(p.model_revision) /\ OptionalText(p.dataset_revision)

ValidPlan(p) ==
    /\ p.profile \in {"smoke", "pilot", "confirmatory"}
    /\ p.condition \in Texts
    /\ p.interpretation_allowed \in BOOLEAN
    /\ p.profile = "smoke" => ~p.interpretation_allowed
    /\ ValidAuthorization(p.authorization)
    /\ ValidRevisions(p) /\ ValidRoot(p.root)
    /\ p.profile_plan_id # Null => p.profile_plan_id \in Identifiers
    /\ p.profile_sha256 # Null => p.profile_sha256 \in Digests
    /\ p.profile_plan_id = Null <=> p.profile_sha256 = Null
    /\ p.task # Null => ValidTask(p.task)
    /\ p.pairing # Null => ValidPairing(p.pairing)
    /\ p.task = Null <=> p.pairing = Null

-----------------------------------------------------------------------------
(* The document: plan.py.  A field that is not in the DOMAIN is absent.     *)

\* run_plan_document.
PlanDocument(p) ==
    LET parent == IF p.profile_plan_id # Null /\ p.profile_sha256 # Null THEN {}
                  ELSE {"profile_plan_id", "profile_sha256"}
        paired == IF p.task # Null /\ p.pairing # Null THEN {} ELSE {"task", "pairing"}
    IN  [f \in PlanFields \ (parent \cup paired) |-> p[f]]

\* run_plan_from_mapping: what it constructs; it raises unless task and pairing are both
\* there or both absent, and unless the constructors accept their fields.
PlanFromDocument(doc) == [f \in PlanFields |-> IF f \in DOMAIN doc THEN doc[f] ELSE Null]

\* run_plan_authorization_sha256: what the parent profile authorizes of a child plan.
AuthorizedPart(p) ==
    LET doc == PlanDocument(p)
    IN  [f \in DOMAIN doc \ {"profile_sha256"} |-> doc[f]]

-----------------------------------------------------------------------------
(* schemas/run-plan.schema.json.                                            *)

SchemaAuthorization(a) ==
    IF a.authorized
    THEN a.authorization_reference \in Identifiers /\ a.command_sha256 \in Digests
    ELSE a.authorization_reference = Null /\ a.command_sha256 = Null

SchemaTask(t) ==
    /\ MinLength1(t.task_id)
    /\ IF t.source_kind = "open-ended-query"
       THEN /\ MinLength1(t.query)
            /\ \A f \in {"dataset_id", "dataset_revision", "start_idx", "end_idx"} :
                  t[f] = Null
       ELSE /\ t.source_kind = "dataset-slice"
            /\ t.query = Null
            /\ MinLength1(t.dataset_id) /\ MinLength1(t.dataset_revision)
            /\ t.start_idx \in Nat /\ t.end_idx \in Nat \ {0}

SchemaPairing(q) == q.pair_id \in PairIds /\ q.order_index \in {1, 2}

PlanSchemaAccepts(doc) ==
    /\ DOMAIN doc \subseteq PlanFields
    /\ PlanFields \ {"profile_plan_id", "profile_sha256", "task", "pairing"}
          \subseteq DOMAIN doc
    /\ doc.profile \in {"smoke", "pilot", "confirmatory"}
    /\ MinLength1(doc.condition)
    /\ doc.interpretation_allowed \in BOOLEAN
    /\ doc.profile = "smoke" => ~doc.interpretation_allowed
    /\ SchemaAuthorization(doc.authorization)
    /\ NullOrMinLength1(doc.model_revision) /\ NullOrMinLength1(doc.dataset_revision)
    /\ SchemaPath(doc.root)
    /\ "profile_plan_id" \in DOMAIN doc <=> "profile_sha256" \in DOMAIN doc
    /\ "profile_plan_id" \in DOMAIN doc => doc.profile_plan_id \in Identifiers
    /\ "profile_sha256" \in DOMAIN doc => doc.profile_sha256 \in Digests
    /\ "task" \in DOMAIN doc => SchemaTask(doc.task)
    /\ "pairing" \in DOMAIN doc => SchemaPairing(doc.pairing)

-----------------------------------------------------------------------------
(* What connects the two.                                                   *)

\* Where the constructors ask less than the schema: the form of a pair_id, and line breaks
\* in the artifact root.
Conventional(p) ==
    /\ p.pairing # Null => p.pairing.pair_id \in PairIds
    /\ p.root \notin BrokenPaths

\* The document retained with a run is valid offline, and is the plan that was executed.
RetainedAsExecuted(p) ==
    ValidPlan(p) =>
        /\ Conventional(p) => PlanSchemaAccepts(PlanDocument(p))
        /\ PlanFromDocument(PlanDocument(p)) = p

\* A parent that authorizes p authorizes no other plan, but for the parent's own digest.
AuthorizesOnly(p, q) ==
    ValidPlan(p) /\ ValidPlan(q) /\ AuthorizedPart(p) = AuthorizedPart(q) =>
        \A f \in PlanFields \ {"profile_sha256"} : p[f] = q[f]
=============================================================================
