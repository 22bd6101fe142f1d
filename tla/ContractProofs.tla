---------------------------- MODULE ContractProofs ----------------------------
(***************************************************************************)
(* That the two statements of a contract agree: for every regulation       *)
(* decision, every plan, and every value an adapter or a program can reach. *)
(* And that what the pair assertion accepts is a matched pair, bound to     *)
(* audited content, and that every run's mode assignment is faithful: for   *)
(* any tasks, jobs, directories and limits, and any number of edits and of  *)
(* changes of the checkout.                                                 *)
(***************************************************************************)
EXTENDS Contracts, TLAPS

-----------------------------------------------------------------------------
(* Regulation decisions.                                                    *)

LEMMA TextIsLong == ASSUME NEW t, t \in Texts PROVE MinLength1(t) /\ t # Null
  BY TextAssumption DEF MinLength1, TextAssumption

LEMMA OptionalTextIsLong == ASSUME NEW t, OptionalText(t) PROVE NullOrMinLength1(t)
  BY DEF OptionalText, NullOrMinLength1, MinLength1

LEMMA DetailWithinSchema ==
    ASSUME NEW happened, NEW subject, NEW reason, Detail(happened, subject, reason)
    PROVE  SchemaDetail(happened, subject, reason)
  BY DEF Detail, SchemaDetail, OptionalText, NullOrMinLength1, MinLength1

LEMMA ReferencesWithinSchema ==
    ASSUME NEW s, References(s), Members(s) \cap BrokenPaths = {}
    PROVE  SchemaReferences(s)
  BY DEF References, SchemaReferences, Members, SchemaPath

LEMMA ProvenanceWithinSchema ==
    ASSUME NEW d, ProvenanceFits(d)
    PROVE  SchemaFieldProvenance(d)
  <1>1. \A f \in FieldNames :
          IF f \in Missing(d) THEN d.field_provenance[f] = "unavailable"
          ELSE d.field_provenance[f] \in Provenances \ {"unavailable"}
    BY DEF ProvenanceFits
  <1>2. \A f \in FieldNames : SchemaProvenance(d, f, f \in Missing(d))
    BY <1>1 DEF SchemaProvenance
  <1>3. /\ "decision_id" \notin Missing(d) /\ "selected_mode" \notin Missing(d)
        /\ "source_kind" \in Missing(d) <=> d.source_kind = "unknown"
        /\ \A f \in {"policy_id", "policy_revision", "available_modes", "confidence"} :
              f \in Missing(d) <=> d[f] = Null
        /\ "override" \in Missing(d) <=> d.override.applied = Null
        /\ "fallback" \in Missing(d) <=> d.fallback.triggered = Null
        /\ \A f \in {"input_event_sequences", "raw_artifact_refs",
                     "resolved_configuration_refs"} :
              f \in Missing(d) <=> d[f] = <<>>
    BY DEF Missing
  <1> QED
    BY <1>2, <1>3 DEF ProvenanceFits, SchemaFieldProvenance, SchemaProvenance, FieldNames

\* The writer's contract is within the schema's, but for line breaks in references.
THEOREM WriterIsWithinSchema == \A d : WriterWithinSchema(d)
  <1> SUFFICES ASSUME NEW d, ValidDecision(d), AllReferences(d) \cap BrokenPaths = {}
               PROVE  SchemaAccepts(d)
    BY DEF WriterWithinSchema
  <1>1. /\ SchemaReferences(d.raw_artifact_refs)
        /\ SchemaReferences(d.resolved_configuration_refs)
    BY ReferencesWithinSchema DEF ValidDecision, AllReferences
  <1>2. /\ SchemaDetail(d.override.applied, d.override.source, d.override.reason)
        /\ SchemaDetail(d.fallback.triggered, d.fallback.target, d.fallback.reason)
    BY DetailWithinSchema DEF ValidDecision
  <1>3. SchemaFieldProvenance(d)
    BY ProvenanceWithinSchema DEF ValidDecision
  <1>4. /\ MinLength1(d.decision_id) /\ MinLength1(d.selected_mode)
        /\ NullOrMinLength1(d.policy_id) /\ NullOrMinLength1(d.policy_revision)
    BY TextIsLong, OptionalTextIsLong DEF ValidDecision
  <1>5. \/ d.available_modes = Null
        \/ /\ d.available_modes # <<>> /\ NoDuplicates(d.available_modes)
           /\ \A i \in DOMAIN d.available_modes : MinLength1(d.available_modes[i])
    BY TextIsLong DEF ValidDecision, UniqueTexts, Members
  <1>6. SchemaSequences(d.input_event_sequences)
    <2> DEFINE s == d.input_event_sequences
    <2>1. \A i \in DOMAIN s : s[i] \in Nat \ {0} /\ NumberOf(s[i]) = s[i]
      BY FloatAssumption DEF ValidDecision, Members, FloatAssumption, NumberOf
    <2> QED
      BY <2>1 DEF ValidDecision, NoDuplicates, SchemaSequences
  <1> QED
    BY <1>1, <1>2, <1>3, <1>4, <1>5, <1>6 DEF ValidDecision, SchemaAccepts

LEMMA ReferencesBeyondSchema ==
    ASSUME NEW s, SchemaReferences(s), Members(s) \cap (BlankPaths \cup LoosePaths) = {}
    PROVE  References(s)
  BY DEF References, SchemaReferences, Members, SchemaPath

LEMMA DetailBeyondSchema ==
    ASSUME NEW happened, NEW subject, NEW reason, SchemaDetail(happened, subject, reason),
           {subject, reason} \cap UnsafeTexts = {}
    PROVE  Detail(happened, subject, reason)
  <1>1. MinLength1(subject) => subject # Null
    BY TextAssumption DEF MinLength1, TextAssumption
  <1> QED
    BY <1>1 DEF Detail, SchemaDetail, OptionalText, NullOrMinLength1, MinLength1

LEMMA ProvenanceBeyondSchema ==
    ASSUME NEW d, SchemaFieldProvenance(d)
    PROVE  ProvenanceFits(d)
  <1>1. /\ "decision_id" \notin Missing(d) /\ "selected_mode" \notin Missing(d)
        /\ "source_kind" \in Missing(d) <=> d.source_kind = "unknown"
        /\ \A f \in {"policy_id", "policy_revision", "available_modes", "confidence"} :
              f \in Missing(d) <=> d[f] = Null
        /\ "override" \in Missing(d) <=> d.override.applied = Null
        /\ "fallback" \in Missing(d) <=> d.fallback.triggered = Null
        /\ \A f \in {"input_event_sequences", "raw_artifact_refs",
                     "resolved_configuration_refs"} :
              f \in Missing(d) <=> d[f] = <<>>
    BY DEF Missing
  <1>2. \A f \in FieldNames : SchemaProvenance(d, f, f \in Missing(d))
    BY <1>1 DEF SchemaFieldProvenance, SchemaProvenance, FieldNames
  <1>3. \A f \in FieldNames :
          /\ d.field_provenance[f] \in Provenances
          /\ d.field_provenance[f] = "unavailable" <=> f \in Missing(d)
    BY <1>2 DEF SchemaProvenance, Provenances
  <1> QED
    BY <1>3 DEF SchemaFieldProvenance, ProvenanceFits

\* The schema accepts more than the writer's contract only for an unlisted mode, an unsafe
\* text, a blank or loose path as a reference, or an integral number such as 1.0 as a
\* sequence.
THEOREM SchemaIsBeyondWriter == \A d : SchemaBeyondWriter(d)
  <1> SUFFICES ASSUME NEW d, SchemaAccepts(d),
                      d.available_modes # Null =>
                          d.selected_mode \in Members(d.available_modes),
                      AllTexts(d) \cap UnsafeTexts = {},
                      AllReferences(d) \cap (BlankPaths \cup LoosePaths) = {},
                      Members(d.input_event_sequences) \cap DOMAIN FloatValue = {}
               PROVE  ValidDecision(d)
    BY DEF SchemaBeyondWriter
  <1>1. /\ References(d.raw_artifact_refs)
        /\ References(d.resolved_configuration_refs)
    BY ReferencesBeyondSchema DEF SchemaAccepts, AllReferences
  <1>2. /\ Detail(d.override.applied, d.override.source, d.override.reason)
        /\ Detail(d.fallback.triggered, d.fallback.target, d.fallback.reason)
    BY DetailBeyondSchema DEF SchemaAccepts, AllTexts
  <1>3. ProvenanceFits(d)
    BY ProvenanceBeyondSchema DEF SchemaAccepts
  <1>4. /\ d.decision_id \in Texts /\ d.selected_mode \in Texts
        /\ OptionalText(d.policy_id) /\ OptionalText(d.policy_revision)
    BY DEF SchemaAccepts, AllTexts, MinLength1, NullOrMinLength1, OptionalText
  <1>5. d.available_modes # Null => UniqueTexts(d.available_modes)
    BY DEF SchemaAccepts, AllTexts, MinLength1, UniqueTexts, Members
  <1>6. /\ Members(d.input_event_sequences) \subseteq Nat \ {0}
        /\ NoDuplicates(d.input_event_sequences)
    <2> DEFINE s == d.input_event_sequences
    <2>1. SchemaSequences(s)
      BY DEF SchemaAccepts
    <2>2. \A i \in DOMAIN s : NumberOf(s[i]) = s[i]
      BY DEF Members, NumberOf
    <2> QED
      BY <2>1, <2>2 DEF SchemaSequences, Members, NoDuplicates
  <1> QED
    BY <1>1, <1>2, <1>3, <1>4, <1>5, <1>6 DEF SchemaAccepts, ValidDecision

-----------------------------------------------------------------------------
(* Plans.                                                                   *)

\* A value that has the fields of a plan and no others.
HasPlanFields(p) == p = [f \in PlanFields |-> p[f]]

LEMMA DocumentKeepsPlan ==
    ASSUME NEW p, HasPlanFields(p), ValidPlan(p)
    PROVE  PlanFromDocument(PlanDocument(p)) = p
  <1> DEFINE doc == PlanDocument(p)
  <1>1. /\ DOMAIN doc \subseteq PlanFields
        /\ \A f \in DOMAIN doc : doc[f] = p[f]
        /\ \A f \in PlanFields \ DOMAIN doc : p[f] = Null
    BY DEF PlanDocument, ValidPlan, PlanFields
  <1>2. \A f \in PlanFields : (IF f \in DOMAIN doc THEN doc[f] ELSE Null) = p[f]
    BY <1>1
  <1>3. PlanFromDocument(doc) = [f \in PlanFields |-> p[f]]
    BY <1>2 DEF PlanFromDocument
  <1> QED
    BY <1>3 DEF HasPlanFields

LEMMA TaskWithinSchema ==
    ASSUME NEW t, ValidTask(t)
    PROVE  SchemaTask(t)
  BY DEF ValidTask, SchemaTask, NotBlank, MinLength1, UnsafeTexts

LEMMA DocumentWithinSchema ==
    ASSUME NEW p, ValidPlan(p), Conventional(p)
    PROVE  PlanSchemaAccepts(PlanDocument(p))
  <1> DEFINE doc == PlanDocument(p)
  <1>1. /\ DOMAIN doc \subseteq PlanFields
        /\ \A f \in DOMAIN doc : doc[f] = p[f]
        /\ PlanFields \ {"profile_plan_id", "profile_sha256", "task", "pairing"}
              \subseteq DOMAIN doc
        /\ "profile_plan_id" \in DOMAIN doc <=> p.profile_plan_id # Null
        /\ "profile_sha256" \in DOMAIN doc <=> p.profile_sha256 # Null
        /\ "task" \in DOMAIN doc <=> p.task # Null
        /\ "pairing" \in DOMAIN doc <=> p.pairing # Null
    BY DEF PlanDocument, ValidPlan, PlanFields
  <1>2. \A f \in {"profile", "condition", "interpretation_allowed", "authorization",
                  "model_revision", "dataset_revision", "root"} : doc[f] = p[f]
    BY <1>1 DEF PlanFields
  <1>3. p.task # Null => SchemaTask(p.task)
    BY TaskWithinSchema DEF ValidPlan
  <1>4. p.pairing # Null => SchemaPairing(p.pairing)
    BY DEF ValidPlan, ValidPairing, SchemaPairing, Conventional
  <1>5. SchemaAuthorization(p.authorization) /\ SchemaPath(p.root) /\ MinLength1(p.condition)
    BY DEF ValidPlan, ValidAuthorization, SchemaAuthorization, ValidRoot, Conventional,
           SchemaPath, MinLength1
  <1>6. NullOrMinLength1(p.model_revision) /\ NullOrMinLength1(p.dataset_revision)
    BY DEF ValidPlan, ValidRevisions, OptionalText, NullOrMinLength1, MinLength1
  <1> HIDE DEF doc
  <1>7. PlanSchemaAccepts(doc)
    BY <1>1, <1>2, <1>3, <1>4, <1>5, <1>6 DEF PlanSchemaAccepts, ValidPlan
  <1> QED
    BY <1>7 DEF doc

\* Whatever plan the constructors accept, its document is the plan that was executed, and is
\* accepted offline, but for the form of its pair_id and a line break in its artifact root.
THEOREM PlansAreRetained == \A p : HasPlanFields(p) => RetainedAsExecuted(p)
  BY DocumentKeepsPlan, DocumentWithinSchema DEF RetainedAsExecuted

\* What a parent profile authorizes of a plan determines it, but for the parent's digest.
THEOREM AuthorizationIsExact == \A p, q : AuthorizesOnly(p, q)
  <1> SUFFICES ASSUME NEW p, NEW q, ValidPlan(p), ValidPlan(q),
                      AuthorizedPart(p) = AuthorizedPart(q),
                      NEW f \in PlanFields \ {"profile_sha256"}
               PROVE  p[f] = q[f]
    BY DEF AuthorizesOnly
  <1> DEFINE Kept(r) == DOMAIN PlanDocument(r) \ {"profile_sha256"}
  <1>1. /\ Kept(p) = DOMAIN AuthorizedPart(p) /\ Kept(q) = DOMAIN AuthorizedPart(q)
        /\ \A g \in Kept(p) : AuthorizedPart(p)[g] = p[g]
        /\ \A g \in Kept(q) : AuthorizedPart(q)[g] = q[g]
    BY DEF AuthorizedPart, PlanDocument
  <1>2. /\ f \notin Kept(p) => p[f] = Null
        /\ f \notin Kept(q) => q[f] = Null
    BY DEF PlanDocument, ValidPlan, PlanFields
  <1> QED
    BY <1>1, <1>2

-----------------------------------------------------------------------------
(* What a program fills in stays a plan, whether valid or not.              *)

LEMMA FilledKeepsFields ==
    ASSUME NEW p, HasPlanFields(p), NEW q \in FilledPlan(p)
    PROVE  HasPlanFields(q)
  <1>1. PICK c \in Fillings(p) : q = [p EXCEPT ![c[1]] = c[2]]
    BY DEF FilledPlan
  <1>2. c[1] \in PlanFields
    BY DEF Fillings, PlanFields
  <1> QED
    BY <1>1, <1>2 DEF HasPlanFields

LEMMA ValidPlansHaveFields == \A p \in ValidPlans : HasPlanFields(p)
  BY DEF ValidPlans, BarePlan, FullPlan, HasPlanFields, PlanFields

FilledPlans == executed # Null => HasPlanFields(executed)

LEMMA FilledPlansStay == Spec => []FilledPlans
  <1>1. Init => FilledPlans
    BY ValidPlansHaveFields DEF Init, FillInit, FillUnused, FilledPlans
  <1>2. FilledPlans /\ [Next]_vars => FilledPlans'
    <2> SUFFICES ASSUME FilledPlans, [Next]_vars PROVE FilledPlans'
      OBVIOUS
    <2>1. CASE Fill
      BY <2>1, FilledKeepsFields DEF Fill, FilledPlans
    <2>2. CASE executed' = executed
      BY <2>2 DEF FilledPlans
    <2> QED
      BY <2>1, <2>2 DEF Next, vars, filledVars
  <1> QED
    BY <1>1, <1>2, PTL DEF Spec

\* In every reachable state, for all texts, paths and numbers of departures.
THEOREM ContractsDoAgree == Spec => []ContractsAgree
  <1>1. FilledPlans => ContractsAgree
    BY WriterIsWithinSchema, SchemaIsBeyondWriter, PlansAreRetained, AuthorizationIsExact
    DEF FilledPlans, ContractsAgree
  <1> QED
    BY <1>1, FilledPlansStay, PTL

-----------------------------------------------------------------------------
(* A pair of commands.                                                      *)

LEMMA Others ==
    /\ Other("reactive") = "simulative"
    /\ Other("simulative") = "reactive"
  BY DEF Other, Modes

-----------------------------------------------------------------------------
(* What the assertion has established so far.                               *)

\* build_command refuses neither the configuration nor the plan.
Sound(m) == ContractHolds(config[m], plan[m]) /\ Buildable(config[m])

\* The command is the one its adapter builds, from some content of the checkout.
Compared(m) ==
    Sound(m) /\ command[m] = CommandFor(config[m], plan[m], root[m], command[m].input_tree)

SidesInv ==
    /\ config \in [Modes -> Configs] /\ side \in Modes
    /\ stage \in {"draft", "built"} => side = "reactive" /\ ~looked
    /\ stage \in {"assert", "accepted"} => \A m \in Modes : config[m].mode = m
    /\ stage = "assert" /\ looked => Sound(side)
    /\ stage = "assert" /\ side = "simulative" => Compared("reactive")
    /\ stage = "accepted" =>
          /\ \A m \in Modes : Compared(m)
          /\ PairMatches(config, plan, command)

\* Since the assertion began, the checkout has changed often enough for what the first
\* command has been compared with.
ReactiveTree == command["reactive"].input_tree
TreeInv ==
    /\ since \in Nat /\ side \in Modes
    /\ stage = "built" => side = "reactive" /\ ~looked
    /\ stage = "assert" /\ side = "reactive" /\ looked => tree = "audited" \/ since >= 1
    /\ stage = "assert" /\ side = "simulative" /\ ReactiveTree # "audited" =>
          IF tree = "audited" THEN since >= 2
          ELSE IF looked THEN since >= 3 ELSE since >= 1
    /\ BoundTreeIsAudited

\* Plans, as they are edited.
Plans == [config_sha256 : {ConfigDocument(c) : c \in Configs}, pinned : BOOLEAN,
          dataset_revision : Tasks \cup {Null}, condition : Modes, profile : Profiles,
          seed : {"42", "43"}, max_tool_calls : Nat, max_wall_seconds : WallSeconds,
          protocol_sha256 : Protocols, rest : {"base", "drift"}]

DecisionInv ==
    /\ plan \in [Modes -> Plans] /\ config \in [Modes -> Configs]
    /\ decision = [m \in Modes |-> decision[m]]
    /\ \A m \in Modes : decision[m] # Null =>
          /\ stage \in {"accepted", "refused"}
          /\ ContractHolds(config[m], plan[m])
          /\ SessionOf(config[m]) \notin LoosePaths
          /\ decision[m] = Decision(config[m], plan[m])

\* A pair nobody asks for stays where it is.
Resting ==
    stage = "refused" /\ \A m \in Modes : command[m] = Null /\ decision[m] = Null

-----------------------------------------------------------------------------
(* The three invariants.                                                    *)

LEMMA SidesInit == PairInit => SidesInv
  BY DEF PairInit, SidesInv, Modes

LEMMA SidesNext == SidesInv /\ [Pair]_pairVars => SidesInv'
  <1> SUFFICES ASSUME SidesInv, [Pair]_pairVars PROVE SidesInv'
    OBVIOUS
  <1> USE Others
  <1>1. CASE ChangeTree
    BY <1>1 DEF ChangeTree, SidesInv, authored, Sound, Compared
  <1>2. ASSUME NEW m \in Modes, Reconfigure(m) PROVE SidesInv'
    BY <1>2 DEF Reconfigure, SidesInv, checkout
  <1>3. ASSUME NEW m \in Modes, EditPlan(m) PROVE SidesInv'
    BY <1>3 DEF EditPlan, SidesInv, checkout
  <1>4. ASSUME NEW m \in Modes, EditCommand(m) PROVE SidesInv'
    BY <1>4 DEF EditCommand, SidesInv, checkout, authored
  <1>5. CASE Begin
    BY <1>5 DEF Begin, SidesInv, checkout, authored
  <1>6. CASE BeginAssertion
    BY <1>6 DEF BeginAssertion, SidesInv, checkout, authored
  <1>7. CASE LookAtGit
    <2>1. side' = side /\ stage' \in {stage, "refused"} /\ stage' # "accepted"
          /\ config' = config /\ plan' = plan /\ root' = root /\ command' = command
      BY <1>7 DEF LookAtGit, authored
    <2>2. stage' # "refused" => Sound(side)
      BY <1>7 DEF LookAtGit, Sound
    <2>3. stage \in {"build", "assert"}
      BY <1>7 DEF LookAtGit
    <2> QED
      BY <2>1, <2>2, <2>3 DEF SidesInv, Sound, Compared
  <1>8. CASE Build
    BY <1>8 DEF Build, SidesInv, checkout, authored, Modes
  <1>9. CASE Compare
    <2>1. config' = config /\ plan' = plan /\ root' = root /\ command' = command
          /\ side' = Other(side) /\ ~looked'
      BY <1>9 DEF Compare, authored
    <2>2. Sound(side) /\ stage = "assert" /\ side \in Modes
      BY <1>9 DEF Compare, SidesInv
    <2>3. stage' # "refused" => Compared(side)
      <3> SUFFICES ASSUME command[side] = Rebuilt PROVE Compared(side)
        BY <1>9 DEF Compare
      <3> QED
        BY <2>2 DEF Rebuilt, Compared, CommandFor
    <2>4. /\ stage' \in {"assert", "accepted", "refused"}
          /\ stage' = "assert" => side = "reactive"
          /\ stage' = "accepted" => side = "simulative" /\ PairMatches(config, plan, command)
      BY <1>9, <2>2 DEF Compare, Modes
    <2>5. stage' = "accepted" => \A m \in Modes : Compared(m)
      BY <2>2, <2>3, <2>4 DEF SidesInv, Modes
    <2>6. stage' = "assert" => Compared("reactive")
      BY <2>3, <2>4
    <2>7. side' \in Modes
      BY <2>1, <2>2 DEF Modes
    <2> QED
      BY <2>1, <2>2, <2>4, <2>5, <2>6, <2>7 DEF SidesInv, Sound, Compared
  <1>10. ASSUME NEW m \in Modes, Normalize(m) PROVE SidesInv'
    BY <1>10 DEF Normalize, SidesInv, checkout, authored, Sound, Compared
  <1>11. CASE UNCHANGED pairVars
    BY <1>11 DEF pairVars, SidesInv, Sound, Compared
  <1> QED
    BY <1>1, <1>2, <1>3, <1>4, <1>5, <1>6, <1>7, <1>8, <1>9, <1>10, <1>11 DEF Pair

LEMMA MatchedIsAudited ==
    ASSUME PairMatches(config, plan, command), \A m \in Modes : Compared(m)
    PROVE  command["reactive"].input_tree = command["simulative"].input_tree
  <1>1. "input_tree" \in DOMAIN command["reactive"]
    BY DEF Compared, CommandFor, Modes
  <1> QED
    BY <1>1 DEF PairMatches, Differences

LEMMA TreeInit == PairInit => TreeInv
  BY DEF PairInit, TreeInv, BoundTreeIsAudited, Accepted, Modes

LEMMA TreeNext == SidesInv /\ SidesInv' /\ TreeInv /\ [Pair]_pairVars => TreeInv'
  <1> SUFFICES ASSUME SidesInv, SidesInv', TreeInv, [Pair]_pairVars PROVE TreeInv'
    OBVIOUS
  <1> USE Others DEF BoundTreeIsAudited, Accepted, ReactiveTree
  <1>1. CASE ChangeTree
    BY <1>1 DEF ChangeTree, TreeInv, authored, Modes
  <1>2. ASSUME NEW m \in Modes, Reconfigure(m) \/ EditPlan(m) PROVE TreeInv'
    BY <1>2 DEF Reconfigure, EditPlan, TreeInv, checkout
  <1>3. ASSUME NEW m \in Modes, EditCommand(m) PROVE TreeInv'
    BY <1>3 DEF EditCommand, TreeInv, checkout
  <1>4. CASE Begin
    BY <1>4 DEF Begin, TreeInv, checkout
  <1>5. CASE BeginAssertion
    BY <1>5 DEF BeginAssertion, TreeInv, checkout
  <1>6. CASE LookAtGit
    <2>1. /\ since' = since /\ tree' = tree /\ side' = side /\ command' = command
          /\ stage \in {"build", "assert"} /\ stage' \in {stage, "refused"} /\ ~looked
          /\ looked' => tree = "audited"
      BY <1>6 DEF LookAtGit, CleanCheckout, checkout
    <2> QED
      BY <1>6, <2>1 DEF TreeInv, Modes
  <1>7. CASE Build
    BY <1>7 DEF Build, TreeInv, checkout, Modes
  <1>8. CASE Compare
    <2>1. /\ since' = since /\ tree' = tree /\ side' = Other(side) /\ command' = command
          /\ config' = config /\ plan' = plan
          /\ stage = "assert" /\ looked /\ looked' = FALSE
          /\ stage' \in {"assert", "accepted", "refused"}
      BY <1>8 DEF Compare, checkout, authored
    <2>2. stage' # "refused" => command[side].input_tree = tree
      BY <1>8 DEF Compare, Rebuilt, CommandFor, TreeDigest
    <2>3. stage' = "assert" => side = "reactive"
      BY <1>8 DEF Compare, TreeInv, Modes
    <2>4. stage' = "accepted" =>
            /\ side = "simulative"
            /\ command["reactive"].input_tree = command["simulative"].input_tree
      <3> SUFFICES ASSUME stage' = "accepted"
                   PROVE  /\ side = "simulative"
                          /\ command["reactive"].input_tree
                                = command["simulative"].input_tree
        OBVIOUS
      <3>1. side = "simulative" /\ PairMatches(config, plan, command)
        BY <1>8 DEF Compare, TreeInv, Modes
      <3>2. \A m \in Modes : Compared(m)'
        BY DEF SidesInv
      <3>3. \A m \in Modes : Compared(m)
        BY <1>8, <3>2 DEF Compare, Compared, Sound, authored
      <3> QED
        BY <3>1, <3>3, MatchedIsAudited
    <2> QED
      BY <2>1, <2>2, <2>3, <2>4 DEF TreeInv, Modes
  <1>9. ASSUME NEW m \in Modes, Normalize(m) PROVE TreeInv'
    BY <1>9 DEF Normalize, TreeInv, checkout
  <1>10. CASE UNCHANGED pairVars
    BY <1>10 DEF pairVars, TreeInv
  <1> QED
    BY <1>1, <1>2, <1>3, <1>4, <1>5, <1>6, <1>7, <1>8, <1>9, <1>10 DEF Pair

LEMMA PlansAreTyped ==
    ASSUME NEW c \in Configs, NEW wall \in WallSeconds, NEW protocol \in Protocols
    PROVE  PlanFor(c, wall, protocol) \in Plans
  BY DEF PlanFor, Plans, Configs, Modes, MaxSteps

LEMMA EditedPlansAreTyped ==
    ASSUME NEW p \in Plans, config \in [Modes -> Configs], NEW q \in PlanEdits(p)
    PROVE  q \in Plans
  <1>1. \/ q \in {[p EXCEPT !.pinned = FALSE], [p EXCEPT !.dataset_revision = Null],
                  [p EXCEPT !.condition = Other(p.condition)], [p EXCEPT !.seed = "43"],
                  [p EXCEPT !.max_tool_calls = @ + 1], [p EXCEPT !.rest = "drift"]}
        \/ \E w \in WallSeconds : q = [p EXCEPT !.max_wall_seconds = w]
        \/ \E h \in Protocols : q = [p EXCEPT !.protocol_sha256 = h]
        \/ \E m \in Modes : q = [p EXCEPT !.config_sha256 = ConfigDocument(config[m])]
    BY Zenon DEF PlanEdits
  <1>2. /\ p.condition \in Modes /\ Other(p.condition) \in Modes
        /\ p.max_tool_calls + 1 \in Nat
    BY Others DEF Plans, Modes
  <1>3. ASSUME NEW m \in Modes
        PROVE  [p EXCEPT !.config_sha256 = ConfigDocument(config[m])] \in Plans
    BY DEF Plans
  <1>4. \A w \in WallSeconds : [p EXCEPT !.max_wall_seconds = w] \in Plans
    BY DEF Plans
  <1>5. \A h \in Protocols : [p EXCEPT !.protocol_sha256 = h] \in Plans
    BY DEF Plans
  <1>6. /\ [p EXCEPT !.pinned = FALSE] \in Plans
        /\ [p EXCEPT !.dataset_revision = Null] \in Plans
        /\ [p EXCEPT !.condition = Other(p.condition)] \in Plans
        /\ [p EXCEPT !.seed = "43"] \in Plans
        /\ [p EXCEPT !.max_tool_calls = @ + 1] \in Plans
        /\ [p EXCEPT !.rest = "drift"] \in Plans
    BY <1>2 DEF Plans
  <1> QED
    BY <1>1, <1>3, <1>4, <1>5, <1>6

LEMMA DecisionInit == PairInit => DecisionInv
  BY PlansAreTyped DEF PairInit, DecisionInv, Modes

LEMMA DecisionNext == DecisionInv /\ [Pair]_pairVars => DecisionInv'
  <1> SUFFICES ASSUME DecisionInv, [Pair]_pairVars PROVE DecisionInv'
    OBVIOUS
  <1> USE DEF DecisionInv
  <1>1. CASE ChangeTree \/ Begin \/ BeginAssertion \/ LookAtGit \/ Build \/ Compare
    BY <1>1 DEF ChangeTree, Begin, BeginAssertion, LookAtGit, Build, Compare, authored
  <1>2. ASSUME NEW m \in Modes, Reconfigure(m) PROVE DecisionInv'
    <2>1. PICK new \in Configs :
            /\ config' = [config EXCEPT ![m] = new]
            /\ plan' = [plan EXCEPT ![m] =
                           PlanFor(new, @.max_wall_seconds, @.protocol_sha256)]
      BY <1>2 DEF Reconfigure
    <2>2. PlanFor(new, plan[m].max_wall_seconds, plan[m].protocol_sha256) \in Plans
      BY PlansAreTyped DEF Plans
    <2> QED
      BY <1>2, <2>1, <2>2 DEF Reconfigure
  <1>3. ASSUME NEW m \in Modes, EditPlan(m) PROVE DecisionInv'
    <2>1. PICK new \in PlanEdits(plan[m]) : plan' = [plan EXCEPT ![m] = new]
      BY <1>3 DEF EditPlan
    <2> QED
      BY <1>3, <2>1, EditedPlansAreTyped DEF EditPlan
  <1>4. ASSUME NEW m \in Modes, EditCommand(m) PROVE DecisionInv'
    BY <1>4 DEF EditCommand, authored
  <1>5. ASSUME NEW m \in Modes, Normalize(m) PROVE DecisionInv'
    BY <1>5 DEF Normalize, authored
  <1>6. CASE UNCHANGED pairVars
    BY <1>6 DEF pairVars
  <1> QED
    BY <1>1, <1>2, <1>3, <1>4, <1>5, <1>6 DEF Pair

-----------------------------------------------------------------------------
(* What the invariants say.                                                 *)

LEMMA ConfigsAreNamed ==
    ASSUME NEW c \in Configs
    PROVE  /\ c.job \in DOMAIN Label /\ c.directory \in Directories
           /\ c.task \in Tasks /\ c.mode \in Modes
           /\ c.profile = ProfileOf(c.task)
  BY DEF Configs

\* The session files of different jobs are different files, whatever their directories.
LEMMA SessionsAreNamed ==
    ASSUME NEW c \in Configs
    PROVE  /\ SessionOf(c) \in Paths \cup BrokenPaths \cup LoosePaths
           /\ \A other \in Configs : c.job # other.job => SessionOf(c) # SessionOf(other)
  <1>1. <<c.directory, c.job>> \in Directories \X DOMAIN Label
    BY ConfigsAreNamed
  <1>2. ASSUME NEW other \in Configs, c.job # other.job
        PROVE  SessionOf(c) # SessionOf(other)
    <2>1. <<other.directory, other.job>> \in Directories \X DOMAIN Label
      BY ConfigsAreNamed
    <2> QED
      BY <1>1, <1>2, <2>1, PairAssumption DEF PairAssumption, SessionOf
  <1> QED
    BY <1>1, <1>2, PairAssumption DEF PairAssumption, SessionOf

\* Faithful commands of a pair that compares equal differ as the assertion allows.
LEMMA ComparedPairIsMatched ==
    ASSUME SidesInv, stage = "accepted"
    PROVE  /\ config["reactive"].profile = config["simulative"].profile
           /\ config["reactive"].task = config["simulative"].task
           /\ config["reactive"].job # config["simulative"].job
           /\ plan["reactive"].max_wall_seconds = plan["simulative"].max_wall_seconds
           /\ command["reactive"].input_tree = command["simulative"].input_tree
           /\ command["reactive"].argv.output_dir # command["simulative"].argv.output_dir
           /\ PolicyRevision(plan["reactive"]) = PolicyRevision(plan["simulative"])
           /\ MaxSteps(config["reactive"]) = MaxSteps(config["simulative"])
  <1> DEFINE r == command["reactive"]
             s == command["simulative"]
  <1>1. PairMatches(config, plan, command) /\ \A m \in Modes : Compared(m)
    BY DEF SidesInv
  <1>2. /\ r = CommandFor(config["reactive"], plan["reactive"], root["reactive"],
                          r.input_tree)
        /\ s = CommandFor(config["simulative"], plan["simulative"], root["simulative"],
                          s.input_tree)
    BY <1>1 DEF Compared, Modes
  <1>3. /\ DOMAIN r = {"argv", "timeout_seconds", "input_tree", "owned_output_root", "fixed"}
        /\ DOMAIN r.argv = {"job_name", "task", "mode", "max_steps", "output_dir"}
        /\ r.timeout_seconds = plan["reactive"].max_wall_seconds
        /\ s.timeout_seconds = plan["simulative"].max_wall_seconds
    BY <1>2 DEF CommandFor
  <1>4. r.timeout_seconds = s.timeout_seconds /\ r.input_tree = s.input_tree
    BY <1>1, <1>3 DEF PairMatches, Differences
  <1>5. r.argv.output_dir # s.argv.output_dir
    <2>1. "output_dir" \in Differences(r.argv, s.argv)
      BY <1>1 DEF PairMatches
    <2> QED
      BY <2>1 DEF Differences
  <1>6. Differences(ConfigDocument(config["reactive"]), ConfigDocument(config["simulative"]))
            = {"job_name", "mode"}
    BY <1>1 DEF PairMatches
  <1>7. /\ ConfigDocument(config["reactive"]).profile
              = ConfigDocument(config["simulative"]).profile
        /\ ConfigDocument(config["reactive"]).task = ConfigDocument(config["simulative"]).task
        /\ ConfigDocument(config["reactive"]).max_steps
              = ConfigDocument(config["simulative"]).max_steps
        /\ ConfigDocument(config["reactive"]).job_name
              # ConfigDocument(config["simulative"]).job_name
    <2>1. DOMAIN ConfigDocument(config["reactive"]) =
            {"profile", "task", "mode", "job_name", "max_steps", "output_subdirectory"}
      BY DEF ConfigDocument
    <2> QED
      BY <1>6, <2>1 DEF Differences
  <1>8. PolicyRevision(plan["reactive"]) = PolicyRevision(plan["simulative"])
    BY <1>1 DEF PairMatches, PolicyMetadata
  <1> QED
    BY <1>3, <1>4, <1>5, <1>7, <1>8 DEF ConfigDocument

\* A command of no particular mode, with what a pair shares left open.
CommandRecord(task, steps, time, digest, job, mode, out, owned) ==
    [argv |-> [job_name |-> job, task |-> task, mode |-> mode, max_steps |-> steps,
               output_dir |-> out],
     timeout_seconds |-> time, input_tree |-> digest, owned_output_root |-> owned,
     fixed |-> "base"]

LEMMA AcceptedIsMatched == SidesInv => AssertedPairIsMatched
  <1> SUFFICES ASSUME SidesInv, stage = "accepted" PROVE AssertedPairIsMatched
    BY DEF AssertedPairIsMatched, Accepted
  <1>1. ASSUME NEW m \in Modes
        PROVE  /\ command[m].argv.mode = m /\ plan[m].condition = m
               /\ command[m].argv.task = config[m].task
               /\ plan[m].config_sha256 = ConfigDocument(config[m])
               /\ command[m].argv.max_steps = plan[m].max_tool_calls
               /\ command[m].timeout_seconds = plan[m].max_wall_seconds
               /\ command[m].owned_output_root = command[m].argv.output_dir
               /\ command[m].argv.output_dir[1] = root[m]
               /\ command[m].fixed = "base"
               /\ command[m].argv.task \in {QueryTask} \cup FanOutTasks
    <2>1. Compared(m) /\ config[m] \in Configs /\ config[m].mode = m
      BY DEF SidesInv
    <2>2. config[m].task \in {QueryTask} \cup FanOutTasks
      BY <2>1, ConfigsAreNamed DEF Compared, Sound, Buildable, Tasks
    <2> QED
      BY <2>1, <2>2 DEF Compared, Sound, ContractHolds, CommandFor, OutputDirectory
  <1> DEFINE r == command["reactive"]
             s == command["simulative"]
  <1>2. s = [r EXCEPT !.argv.mode = "simulative", !.argv.job_name = s.argv.job_name,
                      !.argv.output_dir = s.argv.output_dir,
                      !.owned_output_root = s.argv.output_dir]
    <2>1. /\ r = CommandFor(config["reactive"], plan["reactive"], root["reactive"],
                            r.input_tree)
          /\ s = CommandFor(config["simulative"], plan["simulative"], root["simulative"],
                            s.input_tree)
          /\ config["simulative"].mode = "simulative" /\ config["reactive"].mode = "reactive"
      BY DEF SidesInv, Compared, Modes
    <2>2. \A t : \A m \in Modes : CommandFor(config[m], plan[m], root[m], t) =
            CommandRecord(config[m].task, MaxSteps(config[m]), plan[m].max_wall_seconds, t,
                          config[m].job, config[m].mode,
                          OutputDirectory(config[m], root[m]),
                          OutputDirectory(config[m], root[m]))
      BY DEF CommandFor, CommandRecord
    <2>3. /\ s.argv.job_name = config["simulative"].job
          /\ s.argv.output_dir = OutputDirectory(config["simulative"], root["simulative"])
      BY <2>1 DEF CommandFor
    <2>4. s.input_tree = r.input_tree
      BY ComparedPairIsMatched
    <2>5. /\ config["reactive"].task = config["simulative"].task
          /\ MaxSteps(config["reactive"]) = MaxSteps(config["simulative"])
          /\ plan["reactive"].max_wall_seconds = plan["simulative"].max_wall_seconds
      BY ComparedPairIsMatched
    <2> HIDE DEF r, s
    <2>6. r = CommandRecord(config["reactive"].task, MaxSteps(config["reactive"]),
                            plan["reactive"].max_wall_seconds, r.input_tree,
                            config["reactive"].job, "reactive",
                            OutputDirectory(config["reactive"], root["reactive"]),
                            OutputDirectory(config["reactive"], root["reactive"]))
      BY <2>1, <2>2 DEF Modes
    <2>7. s = CommandRecord(config["reactive"].task, MaxSteps(config["reactive"]),
                            plan["reactive"].max_wall_seconds, r.input_tree,
                            s.argv.job_name, "simulative",
                            s.argv.output_dir, s.argv.output_dir)
      BY <2>1, <2>2, <2>3, <2>4, <2>5 DEF Modes
    <2> DEFINE C(j, m, o, w) ==
          CommandRecord(config["reactive"].task, MaxSteps(config["reactive"]),
                        plan["reactive"].max_wall_seconds, r.input_tree, j, m, o, w)
               j1 == config["reactive"].job
               o1 == OutputDirectory(config["reactive"], root["reactive"])
               j2 == s.argv.job_name
               o2 == s.argv.output_dir
    <2>8. r = C(j1, "reactive", o1, o1) /\ s = C(j2, "simulative", o2, o2)
      BY <2>6, <2>7
    <2> HIDE DEF j1, j2, o1, o2
    <2>9. [C(j1, "reactive", o1, o1) EXCEPT !.argv.mode = "simulative"]
            = C(j1, "simulative", o1, o1)
      BY DEF CommandRecord
    <2>10. [C(j1, "simulative", o1, o1) EXCEPT !.argv.job_name = j2]
             = C(j2, "simulative", o1, o1)
      BY DEF CommandRecord
    <2>11. [C(j2, "simulative", o1, o1) EXCEPT !.argv.output_dir = o2]
             = C(j2, "simulative", o2, o1)
      BY DEF CommandRecord
    <2>12. [C(j2, "simulative", o2, o1) EXCEPT !.owned_output_root = o2]
             = C(j2, "simulative", o2, o2)
      BY DEF CommandRecord
    <2> HIDE DEF C
    <2>13. s = [r EXCEPT !.argv.mode = "simulative", !.argv.job_name = j2,
                         !.argv.output_dir = o2, !.owned_output_root = o2]
      BY <2>8, <2>9, <2>10, <2>11, <2>12
    <2> QED
      BY <2>13 DEF j2, o2
  <1> QED
    BY <1>1, <1>2, ComparedPairIsMatched DEF AssertedPairIsMatched

\* The assignment decision of a sound plan satisfies the writer's contract.
LEMMA DecisionsAreValid ==
    ASSUME NEW c \in Configs, NEW p \in Plans, SessionOf(c) \notin LoosePaths
    PROVE  /\ ValidDecision(Decision(c, p))
           /\ SessionOf(c) \notin BrokenPaths =>
                  AllReferences(Decision(c, p)) \cap BrokenPaths = {}
           /\ Decision(c, p).field_provenance["policy_revision"] = "unavailable"
                  <=> p.protocol_sha256 = "unknown"
  <1> DEFINE d == Decision(c, p)
             revision == PolicyRevision(p)
             path == SessionOf(c)
  <1>1. /\ p.protocol_sha256 \in Texts /\ p.protocol_sha256 # Null
        /\ c.mode \in Modes /\ Modes \subseteq Texts
        /\ "sira-mode-assignment" \in Texts /\ "sira-policy" \in Texts
        /\ path \in Paths \cup BrokenPaths
        /\ "run-plan.json" \in Paths /\ "command.json" \in Paths
    BY ConfigsAreNamed, SessionsAreNamed, PairAssumption, TextAssumption
    DEF PairAssumption, TextAssumption, Plans
  <1>2. /\ revision = Null <=> p.protocol_sha256 = "unknown"
        /\ OptionalText(revision)
    BY <1>1 DEF PolicyRevision, OptionalText
  <1>3. /\ d.decision_id = "sira-mode-assignment"
        /\ d.source_kind = "experiment_assignment"
        /\ d.policy_id = "sira-policy" /\ d.policy_revision = revision
        /\ d.available_modes = <<"reactive", "simulative">> /\ d.selected_mode = c.mode
        /\ d.confidence = Null
        /\ d.override.applied = Null /\ d.override.source = Null /\ d.override.reason = Null
        /\ d.fallback.triggered = Null /\ d.fallback.target = Null
        /\ d.fallback.reason = Null
        /\ d.input_event_sequences = <<>> /\ d.raw_artifact_refs = <<path>>
        /\ d.resolved_configuration_refs = <<"run-plan.json", "command.json">>
    BY DEF Decision
  <1>4. /\ DOMAIN d.field_provenance = FieldNames
        /\ \A f \in FieldNames : d.field_provenance[f] =
              CASE f \in {"confidence", "override", "fallback", "input_event_sequences"} ->
                       "unavailable"
                [] f = "policy_revision" ->
                       IF revision = Null THEN "unavailable" ELSE "derived"
                [] f = "raw_artifact_refs" -> "observed"
                [] OTHER -> "derived"
    BY DEF Decision
  <1> HIDE DEF d, revision, path
  <1>5. /\ Members(<<"reactive", "simulative">>) = Modes
        /\ NoDuplicates(<<"reactive", "simulative">>)
        /\ Members(<<>>) = {} /\ NoDuplicates(<<>>)
        /\ Members(<<path>>) = {path} /\ NoDuplicates(<<path>>)
        /\ Members(<<"run-plan.json", "command.json">>) = {"run-plan.json", "command.json"}
        /\ NoDuplicates(<<"run-plan.json", "command.json">>)
    BY DEF Members, NoDuplicates, Modes
  <1>6. Missing(d) = {"confidence", "override", "fallback", "input_event_sequences"}
                     \cup IF revision = Null THEN {"policy_revision"} ELSE {}
    <2>1. "sira-policy" # Null /\ Null # <<"reactive", "simulative">>
      BY <1>1, TextAssumption, PairAssumption DEF TextAssumption, PairAssumption
    <2>2. /\ d.policy_id # Null /\ d.available_modes # Null /\ d.confidence = Null
          /\ d.policy_revision = revision
      BY <1>3, <2>1
    <2>3. /\ <<path>> # <<>> /\ <<"run-plan.json", "command.json">> # <<>>
      OBVIOUS
    <2>4. /\ d.input_event_sequences = <<>> /\ d.raw_artifact_refs # <<>>
          /\ d.resolved_configuration_refs # <<>> /\ d.source_kind # "unknown"
          /\ d.override.applied = Null /\ d.fallback.triggered = Null
      BY <1>3, <2>3
    <2> QED
      BY <2>2, <2>4 DEF Missing
  <1>7. ProvenanceFits(d)
    BY <1>4, <1>6 DEF ProvenanceFits, FieldNames, Provenances
  <1>8. ValidDecision(d)
    <2>1. UniqueTexts(d.available_modes) /\ d.selected_mode \in Members(d.available_modes)
      <3>1. <<"reactive", "simulative">> # <<>>
        OBVIOUS
      <3> QED
        BY <1>1, <1>3, <1>5, <3>1 DEF UniqueTexts
    <2>2. /\ References(d.raw_artifact_refs) /\ References(d.resolved_configuration_refs)
          /\ d.raw_artifact_refs # <<>>
      <3>1. <<path>> # <<>>
        OBVIOUS
      <3> QED
        BY <1>1, <1>3, <1>5, <3>1 DEF References
    <2>3. /\ Detail(d.override.applied, d.override.source, d.override.reason)
          /\ Detail(d.fallback.triggered, d.fallback.target, d.fallback.reason)
      <3>1. Detail(Null, Null, Null)
        BY PairAssumption DEF Detail, OptionalText, PairAssumption
      <3> QED
        BY <1>3, <3>1
    <2>4. /\ Members(d.input_event_sequences) \subseteq Nat \ {0}
          /\ NoDuplicates(d.input_event_sequences)
      BY <1>3, <1>5
    <2>5. /\ d.decision_id \in Texts /\ d.selected_mode \in Texts
          /\ d.source_kind \in SourceKinds
          /\ OptionalText(d.policy_id) /\ OptionalText(d.policy_revision)
      BY <1>1, <1>2, <1>3 DEF OptionalText, SourceKinds
    <2> QED
      BY <1>3, <1>7, <2>1, <2>2, <2>3, <2>4, <2>5 DEF ValidDecision
  <1>9. path \notin BrokenPaths => AllReferences(d) \cap BrokenPaths = {}
    BY <1>1, <1>3, <1>5, TextAssumption DEF AllReferences, TextAssumption
  <1>10. d.field_provenance["policy_revision"] = "unavailable"
            <=> p.protocol_sha256 = "unknown"
    BY <1>2, <1>4 DEF FieldNames
  <1> QED
    BY <1>8, <1>9, <1>10 DEF d, path

LEMMA DecisionsAreFaithful == SidesInv /\ DecisionInv => DecisionIsFaithful
  <1> SUFFICES ASSUME SidesInv, DecisionInv PROVE DecisionIsFaithful
    OBVIOUS
  <1>1. ASSUME NEW m \in Modes, decision[m] # Null
        PROVE  /\ ValidDecision(decision[m])
               /\ SchemaAccepts(decision[m]) \/ SessionOf(config[m]) \in BrokenPaths
               /\ decision[m].selected_mode = plan[m].condition
               /\ decision[m].field_provenance["policy_revision"] = "unavailable"
                     <=> plan[m].protocol_sha256 = "unknown"
    <2>1. /\ decision[m] = Decision(config[m], plan[m])
          /\ ContractHolds(config[m], plan[m]) /\ SessionOf(config[m]) \notin LoosePaths
          /\ config[m] \in Configs /\ plan[m] \in Plans
      BY <1>1 DEF DecisionInv
    <2>2. decision[m].selected_mode = plan[m].condition
      BY <2>1 DEF Decision, ContractHolds
    <2> QED
      BY <2>1, <2>2, DecisionsAreValid, WriterIsWithinSchema DEF WriterWithinSchema
  <1>2. ASSUME stage = "accepted", \A m \in Modes : decision[m] # Null
        PROVE  /\ \A m \in Modes : decision[m].selected_mode = command[m].argv.mode
               /\ Differences(decision["reactive"], decision["simulative"])
                     = {"selected_mode", "raw_artifact_refs"}
    <2>1. ASSUME NEW m \in Modes
          PROVE  /\ decision[m] = Decision(config[m], plan[m])
                 /\ command[m].argv.mode = config[m].mode /\ config[m].mode = m
      <3>1. Compared(m) /\ config[m].mode = m
        BY <1>2 DEF SidesInv
      <3> QED
        BY <1>2, <3>1 DEF DecisionInv, Compared, CommandFor
    <2>2. /\ SessionOf(config["reactive"]) # SessionOf(config["simulative"])
          /\ PolicyRevision(plan["reactive"]) = PolicyRevision(plan["simulative"])
      <3>1. config["reactive"] \in Configs /\ config["simulative"] \in Configs
        BY DEF SidesInv, Modes
      <3> QED
        BY <1>2, <3>1, ComparedPairIsMatched, SessionsAreNamed
    <2>3. \A m \in Modes : decision[m].selected_mode = command[m].argv.mode
      <3>1. \A m \in Modes : Decision(config[m], plan[m]).selected_mode = config[m].mode
        BY DEF Decision
      <3> QED
        BY <2>1, <3>1
    <2> DEFINE r == decision["reactive"]
               s == decision["simulative"]
    <2>4. /\ r = Decision(config["reactive"], plan["reactive"])
          /\ s = Decision(config["simulative"], plan["simulative"])
          /\ config["reactive"].mode = "reactive" /\ config["simulative"].mode = "simulative"
      BY <2>1 DEF Modes
    <2>5. /\ DOMAIN r = FieldNames \cup {"field_provenance"}
          /\ r.selected_mode # s.selected_mode
          /\ <<SessionOf(config["reactive"])>> # <<SessionOf(config["simulative"])>>
          /\ r.raw_artifact_refs = <<SessionOf(config["reactive"])>>
          /\ s.raw_artifact_refs = <<SessionOf(config["simulative"])>>
      BY <2>2, <2>4 DEF Decision, FieldNames
    <2>6. /\ r.decision_id = s.decision_id /\ r.source_kind = s.source_kind
          /\ r.policy_id = s.policy_id /\ r.policy_revision = s.policy_revision
          /\ r.available_modes = s.available_modes /\ r.confidence = s.confidence
          /\ r.override = s.override /\ r.fallback = s.fallback
          /\ r.input_event_sequences = s.input_event_sequences
          /\ r.resolved_configuration_refs = s.resolved_configuration_refs
          /\ r.field_provenance = s.field_provenance
      BY <2>2, <2>4 DEF Decision
    <2> HIDE DEF r, s
    <2>7. Differences(r, s) = {"selected_mode", "raw_artifact_refs"}
      BY <2>5, <2>6 DEF Differences, FieldNames
    <2>8. Differences(decision["reactive"], decision["simulative"])
             = {"selected_mode", "raw_artifact_refs"}
      BY <2>7 DEF r, s
    <2> QED
      BY <2>3, <2>8
  <1> QED
    BY <1>1, <1>2 DEF DecisionIsFaithful, Accepted

-----------------------------------------------------------------------------
(* The pair as a part of the whole.                                         *)

LEMMA RestingStays == Resting /\ [Pair]_pairVars => Resting'
  BY DEF Resting, Pair, ChangeTree, Begin, BeginAssertion, LookAtGit, Build, Compare,
         Reconfigure, EditPlan, EditCommand, Normalize, pairVars

LEMMA RestingIsHarmless ==
    Resting => AssertedPairIsMatched /\ BoundTreeIsAudited /\ DecisionIsFaithful
  BY DEF Resting, AssertedPairIsMatched, BoundTreeIsAudited, DecisionIsFaithful, Accepted

PairInv == Resting \/ (SidesInv /\ TreeInv /\ DecisionInv)

LEMMA PairInvHolds == Spec => []PairInv
  <1>1. Init => PairInv
    <2>1. PairUnused => Resting
      BY DEF PairUnused, Resting, Modes
    <2> QED
      BY <2>1, SidesInit, TreeInit, DecisionInit DEF Init, PairInv
  <1>2. PairInv /\ [Next]_vars => PairInv'
    <2>1. [Next]_vars => [Pair]_pairVars
      BY DEF Next, vars
    <2> QED
      BY <2>1, RestingStays, SidesNext, TreeNext, DecisionNext DEF PairInv
  <1> QED
    BY <1>1, <1>2, PTL DEF Spec

\* Whatever the author edited and however the checkout changed, an accepted pair is matched.
THEOREM AcceptedPairsMatch == Spec => []AssertedPairIsMatched
  <1>1. PairInv => AssertedPairIsMatched
    BY RestingIsHarmless, AcceptedIsMatched DEF PairInv
  <1> QED
    BY <1>1, PairInvHolds, PTL

\* Fewer than three changes of the checkout during the assertion leave an accepted pair
\* bound to its audited content.
THEOREM AcceptedPairsAreAudited == Spec => []BoundTreeIsAudited
  <1>1. PairInv => BoundTreeIsAudited
    BY RestingIsHarmless DEF PairInv, TreeInv
  <1> QED
    BY <1>1, PairInvHolds, PTL

\* Every assignment decision is valid for its writer, and offline too unless there is a line
\* break in the session file's path; and it says which mode ran.
THEOREM AssignmentsAreFaithful == Spec => []DecisionIsFaithful
  <1>1. PairInv => DecisionIsFaithful
    BY RestingIsHarmless, DecisionsAreFaithful DEF PairInv
  <1> QED
    BY <1>1, PairInvHolds, PTL
=============================================================================
