# GIC Lab harness: specifications, model checking and proofs

GIC Lab (`src/`) is a research repository whose program is the *experiment harness*
in `src/src/giclab/harness`: it decides whether a run plan may be executed, executes
one bounded local command, keeps an append-only record of what happened, and checks
such records offline. This directory models that harness in TLA+, checks the models
with TLC and proves the safety properties they are checked for with TLAPS.
Paths below are relative to the repository unless they name a module.

1. [The system](#1-the-system) · 2. [Modules and code](#2-modules-and-code) ·
3. [Plan](#3-plan) · 4. [Runs](#4-runs) · 5. [Fairness](#5-fairness) ·
6. [Proofs](#6-proofs) · 7. [Abstractions and what is not modelled](#7-abstractions-and-what-is-not-modelled) ·
8. [Findings](#8-findings)

## 1. The system

```
 author / lab checks              validation.py  (repository's own checks)
        |  profiles, plans, PROJECT_STATE.yaml
        v
 policy.load_project_execution_state --> execution_blockers      (policy.py)
        |  permitted or not
        v
 LocalRunExecutor.dry_run / execute                              (executor.py)
        |  structural checks -> attempt directory -> recheck -> Popen
        v
 _run_process: owner thread + 2 capture threads <-> process group, 2 pipes
        |  _ProcessResult or an exception
        v
 RunSession  <--- NormalizationResult --- SiRAAdapter.normalize  (adapters/sira.py)
        |  apply_normalization, seal
        v
 events.jsonl + artifact-records.jsonl --> validate_artifact_directory (artifacts.py)
```

| Component | State it keeps | Operations | What makes it correct |
|---|---|---|---|
| Authorization (`policy.py`, `plan.py`) | profile, condition plans and `PROJECT_STATE.yaml` on disk; what one load has read of them | load state, hash and parse the profile, load children, check coherence, admit a plan | what is granted is what was recorded; an admitted plan belongs to a matched, counterbalanced pair; the repository's checks and the gate differ in named ways only |
| Preflight and launch (`executor.py`, `artifacts.py`, `cli.py`) | the attempt directory, its contract files; what a caller saw so far | load policy, structural checks, create the attempt, environment, secrets, recheck, `Popen` | an attempt has one owner; a refusal leaves nothing behind; nothing stale is launched |
| Output capture (`executor.py:202-326, 1054-1178`) | quota counter, per-thread redactor buffer, two logs, process group | read, redact, take quota, write, terminate, wait, join | quota and logs agree; nothing disappears unexplained; no process of the group survives; the call ends |
| Run session (`executor.py:370-1050`) | sequence, status, usage, retained files, two flags, the two logs on disk | execute's records, `apply_normalization`, accounting, `seal` | sealed evidence is accepted offline and says what the session knew; failures stick; both logs only grow |
| Evidence rules (`events.py`, `artifacts.py`) | none beyond the files | append with checks; validate a sealed directory | one validator's verdict on lifecycle, ownership, accounting, completeness |
| SiRA traces (`adapters/sira.py`) | what one `normalize` read: listing, session, row | list, select, load, reconcile, normalize | what is normalized follows the run and accounts for every field |
| SiRA commands (`adapters/sira.py:80-1033`) | the checkout on disk; the two plans and commands an author holds | build a command (ask git, hash the tree, render), assert a pair, emit the assignment decision | an accepted pair differs in mode and output only and runs the audited tree; the recorded mode is the one that ran |
| Regulation decisions (`regulation.py`, `harness-event.schema.json`) | none | construct, validate | writer and offline schema differ in named ways only |
| Plans (`models.py`, `plan.py`, `run-plan.schema.json`) | none | construct, write, parse, authorize | the plan read back offline is the one that was executed |
| Redaction (`executor.py:219-261`) | the bytes kept back | feed a chunk, finish | the pipe's chunks do not show in what is logged |
| Budget, safety | none of their own | pure functions used by the above | see section 7 |
| Registries, site generation, repository validation | repository files | pure checks and page output | outside the harness; not modelled |

**Interactions.** Calls, except for four places where actors really interleave: the
owner and the two capture threads of one command (shared quota, shared terminator,
shared log handles); the harness and the processes it launched (pipes, signals, files
in the attempt); several executors on one attempt directory (`mkdir` is the only lock);
and the harness against an author or operator who changes files it reads one after the
other.

**Hard behaviours.** Threads that outlive the call that started them; timeouts racing
exits; a byte quota enforced by two threads; disk errors and short writes of unbuffered
files; a host that dies between two appends; callers that retry a call that raised half
way; files that appear, change or vanish between two looks; a contract stated twice in
different words. `PROJECT.json` lists each of them under `hazards` with its line.

## 2. Modules and code

| Module | Models | Its variables and actions in the code |
|---|---|---|
| `OutputCapture` | `_run_process`, `_capture_pipe`, `_OutputQuota`, `_StreamingRedactor` (lengths), `_ProcessGroupTerminator` | `owner` and `reader[p]` are program counters of the three threads; `held`, `chunk`, `accepted`, `used`, `exceeded`, `terminated` are the locals and fields of these names; a write is begun (`BeginWrite`) and lands (`Land`) in two steps, so that it may be in flight while the owner closes the log; the command's writes, forks, exits, deaths and closed pipes (`HungUp`) are environment actions |
| `OutputCaptureProofs` | eight theorems about `OutputCapture`, and the inductive invariant | |
| `EvidenceRules` | the validators of `events.jsonl` and of a whole attempt (`validate_event_stream`, `validate_artifact_directory`) | pure operators: `WellFormedStream`, `ValidDirectory`, `TerminalStatus` |
| `RunSession` | `execute` after the attempt exists, and `RunSession` | one action per append (`Emit`, `RecordArtifact`) with its failure modes; `todo`/`pending` hold what the call under way still has to append; calls are `ApplyNormalization`, `ClaimRefused`, `RequestSeal`; between two calls files are left, replaced or removed (`LeaveFile`, `RemoveFile`) |
| `EvidenceLedger` | abstract specification: events first, then one record per file, the stream last, then the seal | `RunSession` implements it (`ImplementsLedger`, a refinement mapping with `INSTANCE ... WITH`) |
| `Preflight` | callers from policy load to `Popen` | `host` is the set of facts a plan binds, each look at one is a step; `attempt` and `files` are the directory |
| `PreflightProofs` | six theorems about `Preflight` | |
| `ProfileAuthorization` | author's edits and authorization, `load_project_execution_state`, `_assert_profile_children_coherent`, `execution_blockers`, `validate_experiment_run_profiles` | each file read is a step; an edit may fall between any two; a profile is eligible or blocked, and written plainly or in one of the `Forms` the two gates read differently |
| `ProfileProofs` | four theorems about `ProfileAuthorization` | |
| `SessionProofs`, `LedgerProofs` | eleven theorems about `RunSession`, and its refinement of `EvidenceLedger` | |
| `Redaction` | `_StreamingRedactor` by content | `buffer`, `redactions`, `finished` are its fields; `Feed` is one `feed` of any length, `Finish` one `finish` |
| `MatchedPair` | SiRA configurations, `_assert_plan_contract`, `build_command`, `assert_matched_pair_commands`, the assignment decision | the assertion rebuilds both commands and so looks at the checkout four times (twice git in `LookAtGit`, twice the tree in `Build`), then compares (`Compare`); `ChangeTree`, `Reconfigure`, `EditPlan`, `EditCommand` are the authors |
| `TextClasses`, `Regulation` | the two statements of the contract of a regulation decision | pure operators: `ValidDecision` (constructors), `SchemaAccepts` (offline schema) |
| `PlanContract` | the constructors of a run plan, its document, the parser and the schema | pure operators: `ValidPlan`, `PlanDocument`, `PlanFromDocument`, `PlanSchemaAccepts`, `AuthorizedPart` |
| `Contracts` | an adapter that fills in a decision and a program that fills in a plan, field by field; composes `Redaction`, `MatchedPair` and `PlanContract` | `payload`, `executed` |
| `ContractProofs` | eight theorems about the two contracts and about `MatchedPair` | |
| `RedactionProofs` | one theorem about `Redaction`, and what a redaction makes of a text | |
| `SessionTrace` | `SiRAAdapter.normalize` and all it calls | `ListFiles`, `LoadSession`, `Normalize` are its three looks at the disk; `Act`, `Finish` are the upstream agent, `Damage` anything that happens to the files |
| `TraceProofs` | four theorems about `SessionTrace` | |
| `MC*` | the constants of small instances | |

How they compose: the fact `"project"` of `Preflight` is what `ProfileAuthorization`'s
loader decides; `RunSession.Launch` takes the end of a command that `OutputCapture`
computes (`zero`, `nonzero`, `timeout`, `output`, or an exception, `CaptureFails`), and
`RunSession`'s attempt begins where `Preflight`'s launched caller stands; the
`AdapterResults` of `RunSession` stand for what `SessionTrace` produces; `RunSession`
builds on `EvidenceRules` and implements `EvidenceLedger`; the decision that
`MatchedPair` emits must satisfy both contracts of `Regulation`; `Redaction` refines by
content what `OutputCapture` does by length. `Contracts` runs three parts in one
specification that share no variable, so only one of them moves in a behaviour.
`PROJECT.json` ("map") gives
the lines of every definition.

## 3. Plan

Done, in this order: output capture (the most concurrent part), run session with its
evidence rules and ledger, preflight, authorization, SiRA traces; then redaction, SiRA
commands and matched pairs, regulation decisions and plans; proofs about output capture,
preflight, authorization, the contracts, matched pairs and the session, the session's
refinement of the ledger; then proofs about traces, about what both authorization gates
accept, about what a sealed attempt says and what the validator says of it, and about
redaction.

Left, in order of importance:

1. *Compositions*: `Preflight` with `RunSession` (a refused launch must never leave an
   attempt that looks complete), `SessionTrace` with `RunSession` (a session file that
   changes between `normalize` and the seal is retained beside events it does not
   contain), `ProfileAuthorization` with `Preflight`.
2. *Pure rules*: the episode and phase-transition order of `validation.py:916-963`.

## 4. Runs

Violations are runs of one property that a document, comment, message or test of the
repository states and the code does not keep (section 8).

| Run | Distinct states | What it shows | Bounds, and why they are enough |
|---|---|---|---|
| `output_capture` | 2.1 M | the seven invariants and the action property of capture in every interleaving of owner, two readers, leader, member and an escaped descendant, with threads that do not start, pipes closed early, disk errors, short writes, and writes in flight | 3 bytes of quota, 4 bytes written to the two pipes, 2-byte reads and pipes, a 2-byte credential with a 3-byte marker: both pipes together can exceed the quota, one read can straddle it, a credential can be split between reads, a redaction can lengthen the log beyond it |
| `output_capture_live` | 0.28 M | the call always ends; the readers end unless an escaped process holds a pipe | single bytes, three of them, with a quota of one: what can block is a thread, not an amount |
| `session` | 0.55 M | evidence against session state on a healthy disk; refinement of the ledger | two units, one of them with a projection; attestations unavailable, zero, at the bound, and beyond projection and budget (every combination that leads to another branch); two files, one of them an `events.jsonl` in a subdirectory, safe or not; results with an error notice or a leak; four calls, so that a refused result, another one, a refused seal and a seal fit in |
| `session_faults` | 1.3 M | both logs under two disk faults and host death, with retries | one file with two contents that may be retained and one that may not, so that it can be replaced unnoticed; nothing projected, as accounting adds one event only; two faults: the second may hit the retry of what the first broke |
| `preflight` | 1.0 M | two callers race while the host changes twice | two callers are all that can contend for one directory pairwise; two changes make a fact wrong and right again between two looks; one runtime identity, as they are checked alike (the proofs are for any number) |
| `profile_authorization` | 0.2 M | what is granted, admitted and refused, by both gates | the repository's own pilot (two tasks, both conditions, counterbalanced), once it is eligible, and two edits: the smallest mismatch that two comparisons can cancel out needs two |
| `session_trace` | 5.7 M | what is normalized against what the agent did | three steps (a first, a middle, a last), two non-terminal actions so that a dropped step is visible or not, two damages: any two of the three copies of an outcome |
| `contracts` | 1.1 M | three parts that share no variable: redaction against a one-shot reference; a pair of SiRA commands against its authors and a changing checkout; decisions and plans against their schemas | two letters, credentials of up to three of them, two at most, and six letters of input in chunks of any size: overlaps, prefixes and repeats all occur; two edits, so that both sides can be changed alike, and three changes of the checkout, the fewest that deceive two looks; two departures from a valid decision or plan, so that one can hide another |
| `unpaired_profile` | violation | finding 4 | one edit |
| `seal_after_refusal` | violation | finding 1 | no faults; three calls |
| `stuck_failure_session` | violation | finding 2 | no faults; three calls |
| `seal_retried` | violation | finding 3 | one refused append; three calls |

What the properties say is written above each of them. The ones a reader should know:

* **Capture.** `WithinQuota` (both logs together never exceed `max_output_bytes`, and the
  counter is what was logged), `NothingElseLost` (bytes are conserved: a returned result
  lacks only what the quota refused, a short write lost, or redaction replaced),
  `RefusalStopsGroup`, `NoSurvivors`, `OwnExitReported`, `ResultMatchesLogs`,
  `GrantsArePrefix` (what a stream is granted is a prefix of its redacted output; the
  *log* holds that prefix but for the holes that short writes leave, which nobody
  notices). Nothing says that a log is final when the call ends: when the owner gives a
  thread up, a write of that thread that has begun may land after the log was closed. In
  that case the call raises and there is no session that could hash the log.
* **Session.** `SealedAcceptedButTwo` (sealed evidence passes the offline validator, with
  two exceptions: finding 1, and a retained raw file named `events.jsonl` in a directory of
  its own, which the seal takes and `artifacts.py:410` refuses), `EvidenceMatchesSession`,
  `OverspendingStopped`, `CompletedIsClean` (a completed attempt has no error event but
  notices of its adapter, which `executor.py:452` appends without touching the status),
  `RecordedIsSafe` (also when a file is replaced after its claim was checked),
  `FailureSticks`, `ImplementsLedger`; under faults `StreamHasNoGaps`, `SealedIsRecorded`
  (the records are those of exactly the files on disk and what they hold),
  `EvidenceOnlyGrows`, `SealedImmutable`.
* **Preflight.** `OneOwner`, `RefusedLeavesNothing` (a refusal before the directory is
  created; one after it, such as a credential found in a contract file or in a late
  environment, abandons the attempt with what was written by then),
  `StaleLeavesNoEvidence`, `LaunchedAsBound`, `SecretsReadForLiveRuns`.
* **Authorization.** `GrantedAsRecorded`: also when files change while they are read, the
  children granted are the recorded ones, coherent with the recorded profile. The one
  exception is stated: the profile is hashed from one read (`policy.py:286`) and parsed
  from another (290), so one that changes in between is authorized by the old digest.
  `AdmittedIsMatched`, `LabValidIsPaired`. `RefusalExplained` names where the gate refuses
  what the repository's checks accept: a profile that is not eligible or is blocked
  (`policy.py:312`; those checks even want the pilot so, `validation.py:787`), one that is
  written otherwise than the gate reads it (a `pair_count` of `2.0`, a plan's path spelled
  differently, a line break at the end of its `plan_id`), a plan that passes the schema and
  not the constructors, and a dataset the profile does not list.
* **Traces.** `FollowsTheRun` (steps may have been dropped, repeated or exchanged, but
  what is accepted moves along pairs of steps the agent took), `OutcomeSurvives`,
  `UndisturbedIsKept` (every action once and in order, and each of the three kinds of
  notice exactly when its text is there), `AllAccounted` (each optional field is carried or
  listed as unavailable; `memory_update` is the one the code drops in silence).
* **Redaction.** `RedactionExact`: however the input is chunked, no run of released bytes
  between two replacements contains a credential and no more is held back than a credential
  needs; the whole output is the one-shot redaction if no credential is a part of another.
  A credential spelled with bytes of a replacement is *not* excluded: with the credentials
  `hunter2` and `]abc`, `hunter2abc` becomes `[REDACTED]abc`. The constructor refuses only
  a credential inside the replacement; the scan of the logs at the seal has to find it.
* **Pairs.** `AssertedPairIsMatched` (whatever the two authors edited, also both sides
  alike), `BoundTreeIsAudited` (git is asked and the tree hashed in two looks; the one
  exception, three changes of the checkout in the right places, is part of the
  property), `DecisionIsFaithful` (the decision a run emits keeps both contracts, unless the
  configured output subdirectory has a line break in it: then only the writer's).
* **Contracts.** `ContractsAgree`: a decision or plan that its constructor accepts is
  accepted offline, the plan is read back unchanged, and what authorizes a plan authorizes
  no other. Each exception is named in the property: the writer alone accepts line breaks
  in references and roots and pair ids of any form; the schema alone accepts unlisted modes,
  texts that are blank or tainted, references that are blank or without any component, and
  an integral number such as `1.0` as the sequence of an event.

Deadlock is checked in every passing run but `contracts`: the modules have an action for
"this is over" that stutters only in the states in which the program has nothing left to
do. The parts of `contracts` are functions that return, so that every behaviour of that
run ends.

Each property has a mutant in `PROJECT.json`: a plausible slip in one mapped definition
(kept in the module, marked "Mutant") that TLC finds to violate it.

## 5. Fairness

Only `OutputCapture` states fairness: weak fairness of the owner's next step, of each
reader's next step, and of `Die`. The code justifies it: threads are scheduled by the
operating system; `process.wait` and `Thread.join` carry timeouts that pass; a SIGKILL
sent is delivered. Nothing obliges the command to write, fork or exit, so a command that
sleeps for ever is covered: `OwnerLeaves` rests on the timeout alone. `ReadersEnd` has
an explicit exception, a process outside the session that keeps the pipe open: the
owner then gives the thread up after a bounded join. The other modules are checked for
safety only; whether a caller ever seals is up to the caller.

## 6. Proofs

All theorems hold for every value of the constants that satisfies the modules' named
assumptions (`CaptureAssumption`, `PreflightAssumption`, `ProfileAssumption`,
`SessionAssumption`, `RulesAssumption`, `TextAssumption`, `PairAssumption`,
`RedactionAssumption`: types, that budget, read size and pipe capacity are positive, that
the names of raw files are distinct and none of the harness's own, that the texts of the
SiRA configuration contain no credential, that credentials are finitely many and none is
empty, and that the symbol for a replacement can be told from a byte), in particular
without the bounds the runs need. tlapm checks every leaf.

* **`OutputCaptureProofs`**: `TypeCorrect`, then `Invariance` (the inductive invariant),
  from which `QuotaKept`, `ResultsMatch`, `NothingMissing`, `RefusalStops`,
  `GroupIsGone`, `ExitIsTheLeaders`, `PrefixGranted` follow.
  None of these properties is inductive: that the logs equal the counter needs to know
  what each thread holds between `take` and `write`; that no member survives needs to
  know at which owner steps the terminator has run; conservation needs, per pipe, an
  equation over every place a byte can be. The invariant is the conjunction of these
  named parts (owner phases, group doomed, reader phases, refusals, accounts, results,
  conservation), each with a step lemma of its own.
* **`PreflightProofs`**: `TypeCorrect` and `Invariance`; the invariant says that at most
  one caller owns the attempt and, per caller, what it must own, may have read and has
  seen at each step. Key lemmas: a complete round of looks has seen every fact
  (`RoundIsComplete`), and a caller's step leaves the others' parts alone
  (`OtherCaller`). Consequences: `AttemptHasOneOwner`, `RefusedLeaveNothing`,
  `StaleIsRefused`, `LaunchIsBound`, `SecretsStayUnread`, for any number of callers and
  of changes.
* **`ProfileProofs`**: `GrantIsRecorded` from an invariant about what was hashed, parsed
  and decided; `AdmittedAreMatched` adds that every plan's body stays well formed
  through edits. `ValidatedIsPaired` and `GatesAgree` relate the two gates, for any
  profile that satisfies the schema and any edits. `FilesInv` says that edits keep a
  profile within the schema (`EditedProfile`; this is where the schema's "two plans per
  pair" matters), `JudgedInv` that what the checks accepted is what was recorded, and
  what is still on disk until somebody edits it, `LoaderInv` which of the children the
  loader has read, and that it refuses none of those that both gates take alike
  (`TakenAlike`). The heart is about pure rules: what `LabValid` accepts is `Coherent`
  if the profile is written plainly and every dataset listed (`LabValidIsCoherent`: by
  counting, as many bindings as plans and every plan bound, no plan is bound twice), and has
  a partner for each plan (`LabValidHasPartners`).
* **`SessionProofs`**: `TypeCorrect`, then layer upon layer: `LogsInv` (what is in both
  logs and what is still to be appended), from which `LogsOnlyGrow`; `GapInv` (the stream's
  numbers count its events, and `_sequence` is ahead of them only behind a broken line),
  from which `StreamIsOrdered`; `ControlInv` and `SealInv` (where a call may be when it
  fails, and what a seal closes), from which `OverspendingIsStopped`, `SealIsFinal` and
  `FailuresStick`; `RetainedInv` (a seal past its checks finds the files settled: all that
  are retained are there and safe, nothing else is; what was recorded of a kept file is a
  content that may be retained), from which `RecordsAreSafe`, although files are replaced
  and removed between calls. All for any number of disk faults and calls. What a seal lists
  is a recursive function over the sorted paths; facts about it rest on induction, stated
  about sets (`SetInduction`, from the least element of a set of naturals).
* **`LedgerProofs`**: `AttemptIsALedger`, the refinement, for a disk without faults
  (`Faults = {}`; a fault really breaks it: an append that raised after it was written
  is not counted). Its invariant: the stream counts its events, and while a seal records,
  manifest and remaining records together are one listing that names each file once and
  the stream last (`IsListing`). `LedgerSteps` says which steps concern the ledger.

  `SealsAreComplete` holds for any faults and retries. `ReadyInv` says that a seal past
  its checks has closed what was projected, `BegunInv` that it has an event stream and
  that records begin with a seal, `CreatedInv` that the records file exists once a record
  was begun. The file is owned by nobody (`UnownedEntries`), so that a seal that is tried
  again is refused at its first check and only one that writes all records itself gets
  through: `RecordInv` says that what is recorded and what this seal still has to record
  are the contents of exactly the files on disk, with the stream last and as long as it is,
  `DistinctInv` that no path is recorded twice.

  `CompletedMeansClean`, `AcceptedMatches` and `SealsPassTheValidator` assume
  `Faults = {}` again; they allow the host to die. They are about everything an attempt
  tells: `Lane` is the sequence of the events on disk and those a call has still to append,
  with sequence numbers left aside. An append leaves it as it is, so that of all steps only
  `Launch`, `Construct`, `Normalized`, `ApplyNormalization` and `SealAnnounce` lengthen
  it, and only a leak or the host's end cuts it (`LaneSteps`). The invariant has four
  parts: `PhaseInv` (what the control state says of the flags and of what is still to be
  appended), `LifeInv` (each event of the lifecycle stands at its place, and `run_stopped`
  comes last with the session's status), `BudgetInv` (what an update states is what was
  charged, and one update attests all of it), `CleanInv` (while the status is
  "completed", there is no error but notices of the adapter, and all its events and notices
  are of one call). From these, `SealedLifecycle` and `SealedBudget` give the validator's
  rules for the stream. `SealsPassTheValidator` carries both exceptions of
  `SealedAcceptedButTwo`.

  The assumption is needed. TLC violates `EvidenceMatchesSession` and
  `SealedAcceptedButTwo` under the constants of `session_faults` (finding 3 is the shortest
  case of the latter), and `CompletedIsClean` under those of `session` once one append may
  be refused: a call whose second event is refused leaves its first one behind, another
  call is normalized, and the attempt is sealed as completed with observations of both.
* **`TraceProofs`**: for runs of any length and damages anywhere. `RunInv` says what the
  agent's steps look like and that nothing is written before its end; `FilesInv` that
  every step of every session file stems from one of the run, whatever damage dropped,
  repeated or exchanged (`DamagedHistoryKept`); `AdapterInv` that what was read is
  reconciled. `WalksAlongTheRun` follows: two reconciled neighbours stem from two steps of
  the run whose observations chain. `OutcomeInv` counts: each wrong copy of the outcome is a
  damage of its own, so two cannot change all three (`OutcomeIsKept`). `NothingIsSilent`
  needs to know what is in a concatenation of any number of lists: that the community
  modules' `FlattenSeq` is the function its recursion describes is proved by set
  induction (`FlatteningExists`), and that it merges its parts in order by another
  (`FlattenMerges`). The events and the list of unavailable fields are built by branches of
  their own, as in the code, and compared field by field. `UndisturbedIsNormalized` adds
  `CleanInv`, that undamaged files are as written and accepted at each look, and shows that
  notices of each severity come from their texts and from nothing else.
* **`ContractProofs`**: the two contracts of a decision compared field by field
  (`WriterIsWithinSchema`, `SchemaIsBeyondWriter`), `PlansAreRetained`,
  `AuthorizationIsExact`, and `ContractsDoAgree`, which puts them together.

  About pairs the invariant is split by what each step of the assertion has
  established: `SidesInv` (what each side's command was rendered from), `TreeInv` (how
  many changes the looks so far must have missed), `DecisionInv`. `AcceptedPairsMatch`,
  `AcceptedPairsAreAudited` and `AssignmentsAreFaithful` follow for any number of edits
  and changes.
* **`RedactionProofs`**: `RedactionIsExact`, about the bytes between replacements (section
  4), for any letters, any finite sets of credentials, and any amount of input in chunks of
  any size. The loop of `_drain` is a recursive function of the text; that the recursion
  has a solution (`ReplacedSteps`) and what it makes of every text is proved by induction
  on the text's length, stated about sets (`ByLength`). The invariant has three parts.
  `Guarded`: released and held text *together* spell no credential; `Holding`: as much is
  held as the longest credential needs, or the last thing released is a replacement, so
  that nothing can be completed across the border (`NothingAcross`), and what a drain makes
  of such a text is clear again (`ReleaseIsClear`). `ExactSoFar`: what was released is what
  the whole input makes, up to a piece `r` of what that would still hold. It is kept
  because a text can be redacted in two goes (`Composed`) when no credential is a part of
  another: the first match then stays the first whatever is read next (`FirstStays`); and
  because `r`, in which nothing starts, can be left out (`DropPrefix`). Without that
  condition `ExactSoFar` is false. `Guarded` also shows that `finish` never replaces
  anything: what is held is clear.

Only model-checked: liveness under fairness (`OwnerLeaves`, `ReadersEnd`), which is out of
the prover's reach, and the violations.

## 7. Abstractions and what is not modelled

*Common.* A file is its content, so equal digests are equal contents and SHA-256 has no
collisions. JSON Schema validation, formatting and wording are left out. Numbers are
integers; NaN, infinities and float rounding (which `models.py` refuses or `budget.py`
compares) are not represented.

*OutputCapture.* Bytes are counted. SIGKILL is asynchronous: `killpg` marks the group
doomed and `Die` follows some time later. `PermissionError` from `killpg`, reuse of
process ids, and a leader that changes its group are outside the model. The logs are
opened unbuffered, so `write` may be short and its result is ignored (`lost`); a write
whose thread was given up before it began fails on the closed file, one that had begun
lands. That all processes closed a pipe early is one
step (`HungUp`). One credential length stands
for the maximum over all of them.

*RunSession.* Starts once the attempt directory and its contract files exist (the faults
before that are `Preflight.Abandon`). The caller makes one call after another (`Idle`): the
session has no lock and the code never shares it between threads. The output-bytes budget,
budgets that are `None`, symlinks and non-regular entries, and a command whose digest
disagrees are left out. Raw files appear, change and disappear while the command runs and
between two calls, claimed or not, but not during a call, whose several reads of one file
are therefore one. A record keeps what the file holds and, for `events.jsonl`, the stream's
length; the harness's own contract files never change. An events file in a subdirectory is
a name in `NestedStreams`. The records file exists (`created`) from the moment it is
opened. An adapter's notices are told apart by severity only. Every short write is a broken
last line; a write that loses exactly the newline would leave a line that still parses and
the next append would join it.

*Preflight.* A fact is true or false; the project's flags (phase, paid compute, cloud)
and the profile's authorization are one fact, `"project"`. Whether plan and command agree
(`contract`) is fixed at the start, as both are values in memory.

*ProfileAuthorization.* `fixed` stands for the fields a matched pair must share, `fits` for
those that must equal the profile's, `listed` for the declared datasets, `cap` for the
summed hard caps, `typed` for what the constructors of a plan check beyond its schema,
`form` for how the profile is written. The repository's checks want every plan
unauthorized, so they are compared with the authorization fields left aside: references to
an authorization are well formed, and the readiness
`blocked-pending-later-phase-integration`, which those checks alone refuse, is left out.

*SessionTrace.* The upstream agent is external; only what the adapter relies on is
modelled, with one observation that may name its last action, and optional fields as
`Details`. Damage is of one place at a time: two copies of one fact are never forged
consistently. A malformed file is one flag. `memory_update` is not modelled: the code
checks that it is a text and then drops it (section 8). The list of fields no trace ever has
(`_BASE_UNAVAILABLE_FIELDS`), symlinks, and the content of the assignment event are left
out.

*Redaction.* The output keeps the place of each replacement as one symbol, so that it can
be told from what was read. What a replacement's own bytes and its neighbours spell
together is not looked at, by neither the runs nor the proofs (section 4).

*MatchedPair.* `_verify_pinned_git_checkout` runs three git commands in a row; they are
one look. Arguments that depend on nothing are one field of a command. A tree is its
content (`audited` or not). A session path is the output subdirectory and the job, with or
without a line break in the former.

*Regulation and PlanContract.* A text belongs to a class (harmless, blank, tainted by a
credential or a NUL character), a path to one of the classes on which constructor and
schema differ (one line, with a line break, blank, without any component). A blank path that
also holds a line break is in none of them. Integral floats are modelled where they matter,
in `input_event_sequences`. Other values of a wrong JSON type, identifiers, digests and
limits, which both statements constrain alike, are left out, and so are the kinds of white
space.

*Not modelled.* Registries, experiment documents, phase plans, task sources and site
generation (pure functions of repository files), `CommandSpec`'s own checks, credential
patterns (which strings count as a credential), argument parsing and printing.

## 8. Findings

1. **A refused file hides an exceeded projection** (`executor.py:712`; run
   `seal_after_refusal`). `seal` overwrites `resource-projection-exceeded` with
   `credential-artifact-refused`; sealing again succeeds, and the repository's own
   validator rejects the result (`artifacts.py:351`).
2. **A failure session that cannot be sealed** (`executor.py:435`; run
   `stuck_failure_session`). After a wall overrun a refused claim replaces the status
   that allows sealing over budget, although the message at 1048 asks the caller to
   normalize and seal.
3. **Accounting attested before it is durable** (`executor.py:498`; run `seal_retried`).
   One failed append, and a retried seal succeeds without the accounting record that the
   validator requires (`artifacts.py:347`).
4. **Two plans of one condition pass as a pair** (`policy.py:185`; run
   `unpaired_profile`). The gate never compares the two bindings of a pair with each
   other; `validation.py:614` does, and EXP-0001's README promises it.

Observed, without a run: `apply_normalization` says it commits exactly one adapter result
(`executor.py:396`), yet events of a result that was refused half way stay in the stream
when another one is applied (`CompletedIsClean` shows that no *completed* attempt mixes
them as long as no append fails; after one refused append within a result it may, section
6); `JsonlEventWriter.append` says it appends atomically (`events.py:246`) but ignores
short writes; a seal retried after `run_stopped` was written emits a second one, which the
validator rejects; one retried after its first record was begun is refused for good,
because nobody owns `artifact-records.jsonl` (`executor.py:690`, 709); a raw file named
`events.jsonl` in a subdirectory can be claimed and sealed and is refused offline
(`artifacts.py:410`); a credential found after the attempt exists abandons it half written
(`executor.py:153`, 915); `step_info.memory_update` is dropped without a notice
(`sira.py:1198`), although `TRACE_FIELD_MAP.yaml:163` lists it; the gate refuses profiles
that the repository's checks accept or even want ineligible (`RefusalExplained`);
`_StreamingRedactor` says that redaction does not depend on chunks (`executor.py:220`),
which holds unless one credential contains another: then a chunk that ends after the
shorter one decides which is replaced; the SiRA notes say that any limit drift between the
sides fails (`docs/harness/sira/README.md:25`), while budgets other than wall time and tool
calls, and the plans' task texts, are not compared; they also derive the recorded mode from
the rendered command (line 67), while `normalize` takes it from the configuration;
`plan.py:197` calls the document schema-valid, while the constructors accept pair ids the
schema does not; a line break inside a reference or artifact root passes the constructors
and not the schema, and a configuration may put one into its output subdirectory
(`sira.py:496`) and so into the reference of its decision; and only the constructors
require the selected mode to be among the available ones, refuse blank references, and
refuse `1.0` as a sequence.
