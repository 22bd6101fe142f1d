------------------------------ MODULE MatchedPair ------------------------------
(***************************************************************************)
(* The commands of the SiRA adapter and the assertion that two of them form *)
(* a matched pair (src/giclab/harness/adapters/sira.py).  An author has two *)
(* configurations with their plans, builds a command from each, and hands   *)
(* all of it to assert_sira_matched_pair; plans and commands may have been  *)
(* edited on one or on both sides, and the source checkout, which every     *)
(* build looks at twice, may change at any time.                            *)
(*                                                                          *)
(* A digest is the thing it is a digest of.  What the constructor of a      *)
(* configuration pins to one legal value (model, agent, timeouts, retries,  *)
(* the seed, the steps of a profile) is no field of it here.                *)
(***************************************************************************)
EXTENDS Regulation, FiniteSets

CONSTANTS
    QueryTask,    \* the task of the smoke profile
    FanOutTasks,  \* the reviewed rows of the pilot profile
    OtherTasks,   \* typed, but without a reviewed command (FlightQA, WebArena)
    Label,        \* the mode label each job name ends with, by job name
    Directories,  \* output_subdirectory
    SessionPath,  \* the session file's path, by <<output_subdirectory, job name>>
    OutputRoots,  \* attempt output roots a caller may pass
    WallSeconds,  \* max_wall_seconds of a plan
    Protocols,    \* protocol_sha256; may contain "unknown"
    MaxEdits,     \* bound: edits of configurations, plans and commands
    MaxChanges    \* bound: changes of the source checkout

Modes == {"reactive", "simulative"}   \* SiRAMode, and the two sides of the assertion
Other(mode) == CHOOSE m \in Modes : m # mode

\* The fixed texts and paths of the assignment decision are harmless (sira.py:56-57, 70).
\* The session file's path is relative to the attempt and not blank; what
\* output_subdirectory brings into it is not restricted further (sira.py:496-500).  The
\* file is named for the job.
PairAssumption ==
    /\ {"sira-mode-assignment", "sira-policy"} \cup Modes \cup Protocols \subseteq Texts
    /\ {"run-plan.json", "command.json"} \subseteq Paths
    /\ \A at, other \in Directories \X DOMAIN Label :
          /\ SessionPath[at] \in Paths \cup BrokenPaths \cup LoosePaths
          /\ SessionPath[at] = SessionPath[other] => at[2] = other[2]
    /\ Null # TRUE /\ Null # <<"reactive", "simulative">>
ASSUME PairAssumption

Tasks == {QueryTask} \cup FanOutTasks \cup OtherTasks
Profiles == {"smoke", "pilot"}

\* The constructor's rules: the profile decides task and steps, the job name ends with
\* the label of the mode.
ProfileOf(task) == IF task = QueryTask THEN "smoke" ELSE "pilot"
MaxSteps(config) == IF config.profile = "smoke" THEN 1 ELSE 30
Configs ==
    {c \in [profile : Profiles, task : Tasks, mode : Modes,
            job : DOMAIN Label, directory : Directories] :
        c.profile = ProfileOf(c.task) /\ Label[c.job] = c.mode}

\* sira_config_document; its SHA-256 is what a plan and an assertion know of a configuration.
ConfigDocument(config) ==
    [profile |-> config.profile, task |-> config.task, mode |-> config.mode,
     job_name |-> config.job, max_steps |-> MaxSteps(config),
     output_subdirectory |-> config.directory]

\* A plan, as far as the adapter reads it; rest stands for all it does not read (the
\* other limits of the budget, the identity of run and task).
PlanFor(config, wall, protocol) ==
    [config_sha256 |-> ConfigDocument(config), pinned |-> TRUE, dataset_revision |-> config.task,
     condition |-> config.mode, profile |-> config.profile, seed |-> "42",
     max_tool_calls |-> MaxSteps(config), max_wall_seconds |-> wall,
     protocol_sha256 |-> protocol, rest |-> "base"]

\* _assert_plan_contract.  pinned: source, commit and no model revision, as audited.
ContractHolds(config, plan) ==
    /\ plan.pinned
    /\ plan.config_sha256 = ConfigDocument(config)
    /\ plan.dataset_revision = config.task
    /\ plan.condition = config.mode
    /\ plan.profile = config.profile
    /\ plan.seed = "42"
    /\ plan.max_tool_calls = MaxSteps(config)

Buildable(config) == config.task \notin OtherTasks

OutputDirectory(config, root) == <<root, config.directory>>

\* The CommandSpec of build_command.  argv holds the positions that depend on anything;
\* fixed stands for environment, projection, log patterns, executable and directory.
CommandFor(config, plan, root, digest) ==
    [argv |-> [job_name |-> config.job, task |-> config.task, mode |-> config.mode,
               max_steps |-> MaxSteps(config), output_dir |-> OutputDirectory(config, root)],
     timeout_seconds |-> plan.max_wall_seconds,
     input_tree |-> digest,
     owned_output_root |-> OutputDirectory(config, root),
     fixed |-> "base"]

\* Mutant: an unknown protocol is a policy revision like any other.
RevisionAsRecorded(plan) == plan.protocol_sha256

\* sira_regulation_policy_metadata, without its constants.
PolicyRevision(plan) ==
    IF plan.protocol_sha256 = "unknown" THEN Null ELSE plan.protocol_sha256
PolicyMetadata(plan) == <<PolicyRevision(plan), plan.pinned>>

Differences(r, s) == {f \in DOMAIN r : r[f] # s[f]}

\* Mutant: the argument lists of two faithful commands are not compared.
PairMatchesAnyArgv(config, plan, command) ==
    /\ Differences(ConfigDocument(config["reactive"]),
                   ConfigDocument(config["simulative"])) = {"job_name", "mode"}
    /\ PolicyMetadata(plan["reactive"]) = PolicyMetadata(plan["simulative"])
    /\ Differences(command["reactive"], command["simulative"])
          \subseteq {"argv", "owned_output_root"}

\* What assert_sira_matched_pair compares once both commands are what their adapters build.
PairMatches(config, plan, command) ==
    LET r == command["reactive"]
        s == command["simulative"]
    IN  /\ Differences(ConfigDocument(config["reactive"]),
                       ConfigDocument(config["simulative"])) = {"job_name", "mode"}
        /\ PolicyMetadata(plan["reactive"]) = PolicyMetadata(plan["simulative"])
        /\ Differences(r, s) \subseteq {"argv", "owned_output_root"}
        /\ Differences(r.argv, s.argv) = {"job_name", "mode", "output_dir"}

-----------------------------------------------------------------------------
(* The event normalize adds for a run (_regulation_assignment_event).       *)

SessionOf(config) == SessionPath[<<config.directory, config.job>>]

Decision(config, plan) ==
    LET revision == PolicyRevision(plan)
    IN [decision_id |-> "sira-mode-assignment", source_kind |-> "experiment_assignment",
        policy_id |-> "sira-policy", policy_revision |-> revision,
        available_modes |-> <<"reactive", "simulative">>, selected_mode |-> config.mode,
        confidence |-> Null,
        override |-> [applied |-> Null, source |-> Null, reason |-> Null],
        fallback |-> [triggered |-> Null, target |-> Null, reason |-> Null],
        input_event_sequences |-> <<>>,
        raw_artifact_refs |-> <<SessionOf(config)>>,
        resolved_configuration_refs |-> <<"run-plan.json", "command.json">>,
        field_provenance |-> [f \in FieldNames |->
            CASE f \in {"confidence", "override", "fallback", "input_event_sequences"} ->
                     "unavailable"
              [] f = "policy_revision" -> IF revision = Null THEN "unavailable" ELSE "derived"
              [] f = "raw_artifact_refs" -> "observed"
              [] OTHER -> "derived"]]

-----------------------------------------------------------------------------
VARIABLES
    config,   \* adapter.config of each side
    plan,     \* its RunPlan
    root,     \* its upstream_output_root
    command,  \* its CommandSpec, Null before it is built
    decision, \* the regulation decision of a run of it, Null before
    tree,     \* the source checkout: "audited" or something else
    changes,  \* how often the checkout may still change
    since,    \* how often it changed since the assertion began
    edits,    \* how many edits are left
    stage,    \* "draft", "build", "built", "assert", "accepted" or "refused"
    side,     \* the command being built: "reactive", then "simulative"
    looked    \* git has been asked about the checkout, its tree not yet hashed
pairVars == <<config, plan, root, command, decision, tree, changes, since, edits, stage,
              side, looked>>

authored == <<config, plan, root>>
checkout == <<tree, changes, since>>

\* The author starts from a pair that is meant to match.
PairInit ==
    /\ config \in [Modes -> Configs]
    /\ \A m \in Modes : config[m].mode = m
    /\ Differences(config["reactive"], config["simulative"]) = {"job", "mode"}
    /\ \E wall \in WallSeconds, protocol \in Protocols :
          plan = [m \in Modes |-> PlanFor(config[m], wall, protocol)]
    /\ root \in [Modes -> OutputRoots]
    /\ command = [m \in Modes |-> Null] /\ decision = [m \in Modes |-> Null]
    /\ tree = "audited" /\ changes = MaxChanges /\ since = 0 /\ edits = MaxEdits
    /\ stage = "draft" /\ side = "reactive" /\ looked = FALSE

\* Somebody writes to the checkout, or restores it.
ChangeTree ==
    /\ stage \in {"build", "built", "assert"} /\ changes > 0
    /\ tree' = IF tree = "audited" THEN "drifted" ELSE "audited"
    /\ changes' = changes - 1
    /\ since' = IF stage = "assert" THEN since + 1 ELSE since
    /\ UNCHANGED <<authored, command, decision, edits, stage, side, looked>>

\* One side gets another configuration, with a plan of its own.
Reconfigure(m) ==
    /\ stage = "draft" /\ edits > 0
    /\ \E new \in Configs \ {config[m]} :
          /\ config' = [config EXCEPT ![m] = new]
          /\ plan' = [plan EXCEPT ![m] = PlanFor(new, @.max_wall_seconds, @.protocol_sha256)]
    /\ edits' = edits - 1
    /\ UNCHANGED <<root, command, decision, checkout, stage, side, looked>>

\* A plan that is not quite its configuration's.
PlanEdits(p) ==
    {[p EXCEPT !.pinned = FALSE], [p EXCEPT !.dataset_revision = Null],
     [p EXCEPT !.condition = Other(p.condition)], [p EXCEPT !.seed = "43"],
     [p EXCEPT !.max_tool_calls = @ + 1], [p EXCEPT !.rest = "drift"]}
    \cup {[p EXCEPT !.max_wall_seconds = w] : w \in WallSeconds}
    \cup {[p EXCEPT !.protocol_sha256 = h] : h \in Protocols}
    \cup {[p EXCEPT !.config_sha256 = ConfigDocument(config[m])] : m \in Modes}

EditPlan(m) ==
    /\ stage = "draft" /\ edits > 0
    /\ \E new \in PlanEdits(plan[m]) \ {plan[m]} : plan' = [plan EXCEPT ![m] = new]
    /\ edits' = edits - 1
    /\ UNCHANGED <<config, root, command, decision, checkout, stage, side, looked>>

\* dataclasses.replace on a built command.
CommandEdits(c) ==
    {[c EXCEPT !.argv.mode = Other(@)], [c EXCEPT !.argv.max_steps = @ + 1],
     [c EXCEPT !.input_tree = "drifted"], [c EXCEPT !.owned_output_root[2] = Null],
     [c EXCEPT !.fixed = "drift"]}
    \cup {[c EXCEPT !.timeout_seconds = w] : w \in WallSeconds}
    \cup {[c EXCEPT !.argv.task = t] : t \in Tasks}

EditCommand(m) ==
    /\ stage = "built" /\ edits > 0
    /\ \E new \in CommandEdits(command[m]) \ {command[m]} :
          command' = [command EXCEPT ![m] = new]
    /\ edits' = edits - 1
    /\ UNCHANGED <<authored, decision, checkout, stage, side, looked>>

Begin ==
    /\ stage = "draft" /\ stage' = "build"
    /\ UNCHANGED <<authored, command, decision, checkout, edits, side, looked>>

\* assert_sira_matched_pair first checks that the sides are what they claim to be.
BeginAssertion ==
    /\ stage = "built"
    /\ stage' = IF \A m \in Modes : config[m].mode = m THEN "assert" ELSE "refused"
    /\ UNCHANGED <<authored, command, decision, checkout, edits, side, looked>>

\* _verify_pinned_git_checkout: the exact commit, and nothing changed, added or ignored.
CleanCheckout == tree = "audited"

\* input_tree_binding: the digest of the tree as it is by now.
TreeDigest == tree

\* Mutant: the checkout is not looked at.
LookAtNothing ==
    /\ stage \in {"build", "assert"} /\ ~looked
    /\ IF ContractHolds(config[side], plan[side]) /\ Buildable(config[side])
       THEN looked' = TRUE /\ UNCHANGED stage
       ELSE stage' = "refused" /\ UNCHANGED looked
    /\ UNCHANGED <<authored, command, decision, checkout, edits, side>>

\* build_command up to git: plan contract, reviewed task, then the checkout.
LookAtGit ==
    /\ stage \in {"build", "assert"} /\ ~looked
    /\ IF /\ ContractHolds(config[side], plan[side])
          /\ Buildable(config[side])
          /\ CleanCheckout
       THEN looked' = TRUE /\ UNCHANGED stage
       ELSE stage' = "refused" /\ UNCHANGED looked
    /\ UNCHANGED <<authored, command, decision, checkout, edits, side>>

\* The rest of build_command.
Rebuilt == CommandFor(config[side], plan[side], root[side], TreeDigest)

Build ==
    /\ stage = "build" /\ looked
    /\ command' = [command EXCEPT ![side] = Rebuilt]
    /\ looked' = FALSE /\ side' = Other(side)
    /\ stage' = IF side = "simulative" THEN "built" ELSE stage
    /\ UNCHANGED <<authored, decision, checkout, edits>>

\* _assert_command_matches_adapter; after the second side, the comparison of the two.
Compare ==
    /\ stage = "assert" /\ looked
    /\ looked' = FALSE /\ side' = Other(side)
    /\ stage' = IF command[side] # Rebuilt THEN "refused"
                ELSE IF side = "reactive" THEN stage
                ELSE IF PairMatches(config, plan, command) THEN "accepted" ELSE "refused"
    /\ UNCHANGED <<authored, command, decision, checkout, edits>>

\* normalize, for a run of either side; it has the configuration and the plan, and never
\* reads command.json.  The constructor of the decision raises on a tainted path.
Normalize(m) ==
    /\ command[m] # Null /\ decision[m] = Null
    /\ stage \in {"accepted", "refused"}
    /\ ContractHolds(config[m], plan[m])
    /\ SessionOf(config[m]) \notin LoosePaths
    /\ decision' = [decision EXCEPT ![m] = Decision(config[m], plan[m])]
    /\ UNCHANGED <<authored, command, checkout, edits, stage, side, looked>>

Pair ==
    \/ ChangeTree \/ Begin \/ BeginAssertion \/ LookAtGit \/ Build \/ Compare
    \/ \E m \in Modes : Reconfigure(m) \/ EditPlan(m) \/ EditCommand(m) \/ Normalize(m)

PairSpec == PairInit /\ [][Pair]_pairVars

-----------------------------------------------------------------------------
(* Properties.                                                              *)

Accepted == stage = "accepted"

\* What the assertion accepts is a matched pair: each command is the one its own
\* configuration and plan stand for, under the plan's condition; both run the same task for
\* the same steps, time and policy revision from the same tree; they differ in mode, in the
\* job's name and in where they write, and they do not write to the same place.  Edits of
\* one side or equal edits of both sides do not pass.
AssertedPairIsMatched ==
    Accepted =>
      /\ \A m \in Modes :
            /\ command[m].argv.mode = m /\ plan[m].condition = m
            /\ command[m].argv.task = config[m].task
            /\ plan[m].config_sha256 = ConfigDocument(config[m])
            /\ command[m].argv.max_steps = plan[m].max_tool_calls
            /\ command[m].timeout_seconds = plan[m].max_wall_seconds
            /\ command[m].owned_output_root = command[m].argv.output_dir
            /\ command[m].argv.output_dir[1] = root[m]
            /\ command[m].fixed = "base"
            /\ command[m].argv.task \in {QueryTask} \cup FanOutTasks
      /\ LET r == command["reactive"]
             s == command["simulative"]
         IN  /\ s = [r EXCEPT !.argv.mode = "simulative", !.argv.job_name = s.argv.job_name,
                              !.argv.output_dir = s.argv.output_dir,
                              !.owned_output_root = s.argv.output_dir]
             /\ s.argv.output_dir # r.argv.output_dir
             /\ PolicyRevision(plan["reactive"]) = PolicyRevision(plan["simulative"])

\* An accepted pair is bound to the audited content of the checkout.  git's answer and the
\* hash are two looks, so there is one exception: the checkout was changed after git's
\* answer for one command, restored before git's answer for the other, and changed again.
BoundTreeIsAudited ==
    Accepted /\ since < 3 => \A m \in Modes : command[m].input_tree = "audited"

\* The regulation decision of a run is one its writer accepts, and the offline schema too
\* unless output_subdirectory brought a line break into the session file's path; its mode
\* is the condition of the plan, its policy revision is the plan's protocol or said to be
\* unavailable.  For an accepted pair the mode is also the one on the command line,
\* and the two decisions agree on all but the mode and the session file.
DecisionIsFaithful ==
    /\ \A m \in Modes : decision[m] # Null =>
          /\ ValidDecision(decision[m])
          /\ SchemaAccepts(decision[m]) \/ SessionOf(config[m]) \in BrokenPaths
          /\ decision[m].selected_mode = plan[m].condition
          /\ decision[m].field_provenance["policy_revision"] = "unavailable"
                <=> plan[m].protocol_sha256 = "unknown"
    /\ Accepted /\ (\A m \in Modes : decision[m] # Null) =>
          /\ \A m \in Modes : decision[m].selected_mode = command[m].argv.mode
          /\ Differences(decision["reactive"], decision["simulative"])
                = {"selected_mode", "raw_artifact_refs"}
=============================================================================
