------------------------------ MODULE Preflight ------------------------------
(***************************************************************************)
(* From "run this plan" to Popen: the callers of giclab.harness (the       *)
(* run-local command and adapters), which load the project state and call  *)
(* LocalRunExecutor.dry_run or execute for one and the same run attempt.   *)
(*                                                                         *)
(* What the plan was authorized against lives on the host and may change   *)
(* at any moment, so every look at it is a step of its own.  A fact of the *)
(* host is TRUE while it is what the plan and the command bind.            *)
(***************************************************************************)
EXTENDS Sequences, Integers, FiniteSets

CONSTANTS
    Callers,       \* processes and threads that use the executor
    RuntimeOrder,  \* cwd, executable and input trees, in checking order
    HasUsage,      \* the command projects non-wall use
    MaxChanges     \* bound: changes of the host in one behaviour

RuntimeFacts == {RuntimeOrder[i] : i \in DOMAIN RuntimeOrder}

ASSUME PreflightAssumption ==
    /\ RuntimeOrder \in Seq({"cwd", "executable", "tree"}) /\ RuntimeOrder # <<>>
    /\ HasUsage \in BOOLEAN
    /\ MaxChanges \in Nat

(* project: PROJECT_STATE.yaml and the profile it seals permit the plan;   *)
(* outputs: owned output roots resolve inside the attempt; environment:    *)
(* inherited values match their digests; secret: named secrets are set and *)
(* do not occur in what will be retained.                                  *)
Facts == RuntimeFacts \cup {"project", "outputs", "environment", "secret"}

(* The order in which _structural_blockers looks at the host. *)
CheckOrder == RuntimeOrder \o <<"outputs", "environment">>

(* The order of the recheck inside _run_process. *)
RecheckOrder == RuntimeOrder \o <<"outputs">>

Modes == {"dry-run", "cli", "adapter"}

VARIABLES
    host,         \* the facts that hold now
    attempt,      \* who created the attempt directory, {} or {c}
    files,        \* [by, name]: what was written into it, and by whom
    contract,     \* the plan and command agree: digest, budget, backend
    pc,           \* per caller: the step it is about to take
    mode,         \* per caller: what it was asked to do
    grants,       \* per caller: the project state it loaded permits the plan
    blockers,     \* per caller: what its checks found
    checked,      \* per caller: how many facts of the current round it saw
    environment,  \* per caller: the inherited values it will pass on
    secrets,      \* per caller: it has read the named secret values
    (* Recorded for the properties only. *)
    wrong,        \* per caller: facts that never held since it began
    wrongOwned,   \* per caller: facts that never held since it owned the attempt
    (* Bound. *)
    changes

diskVars == <<attempt, files>>
callerVars == <<pc, mode, grants, blockers, checked, environment, secrets>>
historyVars == <<wrong, wrongOwned>>
vars == <<host, diskVars, contract, callerVars, historyVars, changes>>

Init ==
    /\ host \in [Facts -> BOOLEAN]
    /\ attempt = {} /\ files = {}
    /\ contract \in BOOLEAN
    /\ pc = [c \in Callers |-> "start"]
    /\ mode \in [Callers -> Modes]
    /\ grants = [c \in Callers |-> FALSE]
    /\ blockers = [c \in Callers |-> {}]
    /\ checked = [c \in Callers |-> 0]
    /\ environment = [c \in Callers |-> FALSE]
    /\ secrets = [c \in Callers |-> FALSE]
    /\ wrong = [c \in Callers |-> {}] /\ wrongOwned = [c \in Callers |-> {}]
    /\ changes = 0

Wrong == {f \in Facts : ~host[f]}

Goto(c, label) == pc' = [pc EXCEPT ![c] = label]

-----------------------------------------------------------------------------
(* load_project_execution_state: a snapshot that is never loaded again.    *)
(* Contradictory project files do not load at all.  run-local then refuses *)
(* a command with projected use.                                           *)
LoadState(c) ==
    /\ pc[c] = "start"
    /\ grants' = [grants EXCEPT ![c] = host["project"]]
    /\ wrong' = [wrong EXCEPT ![c] = Wrong]
    /\ \/ /\ ~(mode[c] = "cli" /\ HasUsage)
          /\ Goto(c, "gate")
       \/ /\ (mode[c] = "cli" /\ HasUsage) \/ ~host["project"]
          /\ Goto(c, "refused")
    /\ UNCHANGED <<host, diskVars, contract, mode, blockers, checked, environment, secrets,
                   wrongOwned, changes>>

(* Mutant: the snapshot is consulted by dry runs only. *)
GateForDryRuns(c) ==
    /\ pc[c] = "gate"
    /\ blockers' = [blockers EXCEPT ![c] = {}]
    /\ Goto(c, "check")
    /\ UNCHANGED <<host, diskVars, contract, mode, grants, checked, environment, secrets,
                   historyVars, changes>>

(* execute begins with assert_execution_allowed, which raises; dry_run     *)
(* keeps the blockers of the same execution_blockers and goes on.          *)
Gate(c) ==
    /\ pc[c] = "gate"
    /\ blockers' = [blockers EXCEPT ![c] = IF grants[c] THEN {} ELSE {"project"}]
    /\ Goto(c, IF grants[c] \/ mode[c] = "dry-run" THEN "check" ELSE "refused")
    /\ UNCHANGED <<host, diskVars, contract, mode, grants, checked, environment, secrets,
                   historyVars, changes>>

(* One look at the host, in a round of checks over order.                  *)
Look(c, order) ==
    LET fact == order[checked[c] + 1] IN
    /\ checked[c] < Len(order)
    /\ checked' = [checked EXCEPT ![c] = @ + 1]
    /\ blockers' = [blockers EXCEPT ![c] = IF host[fact] THEN @ ELSE @ \cup {fact}]

(* _structural_blockers collects; it does not stop at the first.           *)
Check(c) ==
    /\ pc[c] = "check"
    /\ Look(c, CheckOrder)
    /\ UNCHANGED <<host, diskVars, contract, pc, mode, grants, environment, secrets,
                   historyVars, changes>>

(* What does not depend on the host: the command digest, its timeout and   *)
(* projection against the budget, unbounded units, unowned outputs.        *)
ContractBlockers == IF contract THEN {} ELSE {"contract"}

(* Mutants: dry_run asks for the attempt directory with create=True;       *)
(* execute does not act on the structural blockers.                        *)
DecideCreating(c) ==
    /\ pc[c] = "check" /\ checked[c] = Len(CheckOrder)
    /\ attempt' = IF mode[c] = "dry-run" /\ attempt = {} THEN {c} ELSE attempt
    /\ Goto(c, IF mode[c] = "dry-run" THEN "reported"
               ELSE IF blockers[c] = {} /\ contract THEN "environment" ELSE "refused")
    /\ checked' = [checked EXCEPT ![c] = 0]
    /\ UNCHANGED <<host, files, contract, mode, grants, blockers, environment, secrets,
                   historyVars, changes>>

DecideAnyway(c) ==
    /\ pc[c] = "check" /\ checked[c] = Len(CheckOrder)
    /\ Goto(c, IF mode[c] = "dry-run" THEN "reported" ELSE "environment")
    /\ checked' = [checked EXCEPT ![c] = 0]
    /\ UNCHANGED <<host, diskVars, contract, mode, grants, blockers, environment, secrets,
                   historyVars, changes>>

(* dry_run reports; execute refuses when there is anything to report.      *)
Decide(c) ==
    /\ pc[c] = "check" /\ checked[c] = Len(CheckOrder)
    /\ blockers' = [blockers EXCEPT ![c] = @ \cup ContractBlockers]
    /\ Goto(c, IF mode[c] = "dry-run" THEN "reported"
               ELSE IF blockers'[c] = {} THEN "environment" ELSE "refused")
    /\ checked' = [checked EXCEPT ![c] = 0]
    /\ UNCHANGED <<host, diskVars, contract, mode, grants, environment, secrets, historyVars,
                   changes>>

(* _build_environment reads the inherited values once more, compares what  *)
(* it read, and passes on what it compared.                                *)
Inherit(c) ==
    /\ pc[c] = "environment"
    /\ environment' = [environment EXCEPT ![c] = host["environment"]]
    /\ Goto(c, IF host["environment"] THEN "secrets" ELSE "refused")
    /\ UNCHANGED <<host, diskVars, contract, mode, grants, blockers, checked, secrets,
                   historyVars, changes>>

(* It then reads the named secrets; the scrubber built from them refuses a *)
(* plan, command or attempt path that spells one of them.                  *)
ReadSecrets(c) ==
    /\ pc[c] = "secrets"
    /\ secrets' = [secrets EXCEPT ![c] = TRUE]
    /\ Goto(c, IF host["secret"] THEN "create" ELSE "refused")
    /\ UNCHANGED <<host, diskVars, contract, mode, grants, blockers, checked, environment,
                   historyVars, changes>>

-----------------------------------------------------------------------------
(* Mutant: mkdir(exist_ok=True). *)
AnyDirectory == TRUE

(* mkdir(mode=0o700, exist_ok=False) succeeds for one caller only. *)
NoDirectory == attempt = {}

CreateAttempt(c) ==
    /\ pc[c] = "create" /\ NoDirectory
    /\ attempt' = attempt \cup {c}
    /\ wrongOwned' = [wrongOwned EXCEPT ![c] = Wrong]
    /\ Goto(c, "write")
    /\ UNCHANGED <<host, files, contract, mode, grants, blockers, checked, environment,
                   secrets, wrong, changes>>

AttemptExists(c) ==
    /\ pc[c] = "create" /\ ~NoDirectory
    /\ Goto(c, "refused")
    /\ UNCHANGED <<host, diskVars, contract, mode, grants, blockers, checked, environment,
                   secrets, historyVars, changes>>

(* What is written before the launch, in this order: the two contracts,    *)
(* each opened exclusively; run_started and preflight_completed; the logs. *)
WriteOrder == <<"run-plan.json", "command.json", "events.jsonl", "stdout.log", "stderr.log">>

Evidence(c) == {f \in files : f.by = c}

Write(c) ==
    LET name == WriteOrder[Cardinality(Evidence(c)) + 1] IN
    /\ pc[c] = "write" /\ Cardinality(Evidence(c)) < Len(WriteOrder)
    /\ files' = files \cup {[by |-> c, name |-> name]}
    /\ UNCHANGED <<host, attempt, contract, callerVars, historyVars, changes>>

(* Every file is there; the identities are looked at once more.            *)
BeginRecheck(c) ==
    /\ pc[c] = "write" /\ Cardinality(Evidence(c)) = Len(WriteOrder)
    /\ Goto(c, "recheck")
    /\ blockers' = [blockers EXCEPT ![c] = {}]
    /\ UNCHANGED <<host, diskVars, contract, mode, grants, checked, environment, secrets,
                   historyVars, changes>>

Recheck(c) ==
    /\ pc[c] = "recheck"
    /\ Look(c, RecheckOrder)
    /\ UNCHANGED <<host, diskVars, contract, pc, mode, grants, environment, secrets,
                   historyVars, changes>>

(* Mutant: the first round of checks is trusted. *)
TrustPreflight(c) ==
    /\ pc[c] = "recheck"
    /\ Goto(c, "launched")
    /\ UNCHANGED <<host, diskVars, contract, mode, grants, blockers, checked, environment,
                   secrets, historyVars, changes>>

(* Popen, which may fail; a changed identity becomes the same launch error *)
(* in the evidence.                                                        *)
Launch(c) ==
    /\ pc[c] = "recheck" /\ checked[c] = Len(RecheckOrder)
    /\ \/ blockers[c] = {} /\ Goto(c, "launched")
       \/ Goto(c, "launch-error")
    /\ UNCHANGED <<host, diskVars, contract, mode, grants, blockers, checked, environment,
                   secrets, historyVars, changes>>

(* A write fails, a document or an event that was safe by its parts spells *)
(* a secret in the bytes about to be written, or the host process ends:    *)
(* the attempt stays as it is, and nobody can run it again.                *)
Abandon(c) ==
    /\ pc[c] \in {"write", "recheck"}
    /\ Goto(c, "abandoned")
    /\ UNCHANGED <<host, diskVars, contract, mode, grants, blockers, checked, environment,
                   secrets, historyVars, changes>>

-----------------------------------------------------------------------------
(* Somebody edits, rebuilds, re-exports or revokes.                        *)
Change(f) ==
    /\ changes < MaxChanges
    /\ changes' = changes + 1
    /\ host' = [host EXCEPT ![f] = ~@]
    /\ wrong' = [c \in Callers |-> IF host[f] THEN wrong[c] ELSE wrong[c] \ {f}]
    /\ wrongOwned' = [c \in Callers |-> IF host[f] THEN wrongOwned[c] ELSE wrongOwned[c] \ {f}]
    /\ UNCHANGED <<diskVars, contract, callerVars>>

Over(c) == pc[c] \in {"refused", "reported", "launched", "launch-error", "abandoned"}

Ended == (\A c \in Callers : Over(c)) /\ UNCHANGED vars

Execute(c) ==
    \/ LoadState(c) \/ Gate(c) \/ Check(c) \/ Decide(c) \/ Inherit(c) \/ ReadSecrets(c)
    \/ CreateAttempt(c) \/ AttemptExists(c) \/ Write(c) \/ BeginRecheck(c)
    \/ Recheck(c) \/ Launch(c) \/ Abandon(c)

Next ==
    \/ \E c \in Callers : Execute(c)
    \/ \E f \in Facts : Change(f)
    \/ Ended

Spec == Init /\ [][Next]_vars

-----------------------------------------------------------------------------
(* Properties.                                                             *)

Labels == {"start", "gate", "check", "environment", "secrets", "create", "write", "recheck",
           "refused", "reported", "launched", "launch-error", "abandoned"}

TypeOK ==
    /\ host \in [Facts -> BOOLEAN]
    /\ attempt \subseteq Callers
    /\ files \subseteq [by : Callers, name : {WriteOrder[i] : i \in DOMAIN WriteOrder}]
    /\ contract \in BOOLEAN
    /\ pc \in [Callers -> Labels] /\ mode \in [Callers -> Modes]
    /\ grants \in [Callers -> BOOLEAN]
    /\ blockers \in [Callers -> SUBSET (Facts \cup {"contract"})]
    /\ checked \in [Callers -> 0 .. Len(CheckOrder)]
    /\ environment \in [Callers -> BOOLEAN] /\ secrets \in [Callers -> BOOLEAN]
    /\ wrong \in [Callers -> SUBSET Facts] /\ wrongOwned \in [Callers -> SUBSET Facts]
    /\ changes \in 0 .. MaxChanges

(* Callers racing for one attempt never mix their evidence: whatever is in *)
(* the attempt directory was written by one of them, also when it was      *)
(* abandoned half way, and at most one of them starts a process.           *)
OneOwner ==
    /\ \A f, g \in files : f.by = g.by
    /\ \A c, d \in Callers : pc[c] = "launched" /\ pc[d] = "launched" => c = d

(* A caller that was refused before the attempt was its own, or only asked *)
(* for a dry run, has created neither evidence nor the attempt directory   *)
(* another one would need.  (Whoever fails later abandons the attempt.)    *)
RefusedLeavesNothing ==
    \A c \in Callers :
        pc[c] = "refused" \/ mode[c] = "dry-run" => Evidence(c) = {} /\ c \notin attempt

(* A fact that was wrong from the loading of the project state to the end  *)
(* of the checks is refused before there is any evidence, whatever else    *)
(* changes meanwhile.                                                      *)
StaleLeavesNoEvidence == \A c \in Callers : Evidence(c) # {} => wrong[c] = {} /\ contract

(* A process is started only if each identity held at some moment after    *)
(* the attempt was created, and with inherited values that matched their   *)
(* digests when they were read.                                            *)
LaunchedAsBound ==
    \A c \in Callers :
        pc[c] = "launched" =>
            /\ wrongOwned[c] \cap (RuntimeFacts \cup {"outputs"}) = {}
            /\ environment[c]

(* Secret values are read for a permitted live run only: a dry run and an  *)
(* unauthorized run never look at them.                                    *)
SecretsReadForLiveRuns ==
    \A c \in Callers :
        secrets[c] => mode[c] # "dry-run" /\ grants[c] /\ contract

=============================================================================
