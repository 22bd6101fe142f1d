----------------------------- MODULE RunSession -----------------------------
(***************************************************************************)
(* One run attempt of giclab.harness.executor: LocalRunExecutor.execute    *)
(* once the attempt directory exists, and the RunSession it leaves to its  *)
(* caller, who applies one adapter result and seals the evidence.          *)
(*                                                                         *)
(* Every append to events.jsonl and artifact-records.jsonl is a step of    *)
(* its own, so the host may die, or the disk may fail, between any two.    *)
(* What a call still has to append waits in todo (events) and pending      *)
(* (manifest records); an exception forgets both and leaves the session as *)
(* it is, and the caller may call again.                                   *)
(***************************************************************************)
EXTENDS EvidenceRules

CONSTANTS
    RawPaths,        \* files a command or adapter may leave, in sorted order
    WallSeconds,     \* wall times a command may take
    AdapterResults,  \* NormalizationResults an adapter may return
    Retainable,      \* contents of a raw file the scrubber accepts
    Faults,          \* subset of {"refused", "unsynced", "short"}
    MaxFaults,       \* bound: disk faults in one behaviour
    MaxCalls         \* bound: calls the caller makes on the session

(* The value None of an attestation. *)
Unavailable == -1

RawFiles == {RawPaths[i] : i \in DOMAIN RawPaths}

(* The files the harness itself leaves, in sorted order. *)
CoreOrder == <<"command.json", "run-plan.json", "stderr.log", "stdout.log">>
CoreFiles == {CoreOrder[i] : i \in DOMAIN CoreOrder}

ASSUME SessionAssumption ==
    /\ RawPaths \in Seq(STRING)
    /\ \A i, j \in DOMAIN RawPaths : RawPaths[i] = RawPaths[j] => i = j
    /\ RawFiles \cap ({EventStream, ArtifactRecords} \cup CoreFiles) = {}
    /\ NestedStreams \cap CoreFiles = {}
    /\ Retainable \subseteq STRING /\ Retainable \cap {"absent", "unsafe"} = {}
    /\ WallSeconds \subseteq Nat /\ WallSeconds # {}
    /\ AdapterResults \subseteq
         [claims : Seq(RawFiles), events : Seq({"observation", "warning", "error", "leak"}),
          accounting : [Units -> Nat \cup {Unavailable}]]
    /\ Faults \subseteq {"refused", "unsynced", "short"}
    /\ MaxFaults \in Nat /\ MaxCalls \in Nat

PathOrder == CoreOrder \o RawPaths

(* What a raw file may hold; "unsafe" holds a credential. *)
Contents == Retainable \cup {"unsafe"}

VARIABLES
    (* On disk, in the attempt directory. *)
    stream,      \* events.jsonl
    manifest,    \* the records in artifact-records.jsonl
    created,     \* that file exists
    torn,        \* which of the two logs ends in a line cut short
    entries,     \* per raw file: "absent", or what it holds
    (* In the executor and the session. *)
    pc,          \* the call under way, "idle" between calls
    accounting,  \* what the adapter result under way attests
    todo,        \* events the call still has to append
    pending,     \* manifest records the call still has to append
    process,     \* how the command ended, and its wall time
    sequence,    \* _sequence
    status,      \* _status
    usage,       \* _usage
    attested,    \* _accounting_attested
    normalized,  \* _normalization_applied
    retained,    \* _retained
    attached,    \* the caller holds the session
    sealed,      \* _sealed
    outcome,     \* _outcome: its status and usage
    (* Bounds. *)
    calls, faults

diskVars == <<stream, manifest, created, torn, entries>>
sessionVars == <<process, sequence, status, usage, attested, normalized, retained, attached>>
sealVars == <<sealed, outcome>>
boundVars == <<calls, faults>>
vars == <<diskVars, pc, accounting, todo, pending, sessionVars, sealVars, boundVars>>

NoUsage == [r \in Resources |-> 0]

Init ==
    /\ stream = <<>> /\ manifest = <<>> /\ created = FALSE /\ torn = {}
    /\ entries = [f \in RawFiles |-> "absent"]
    /\ pc = "open" /\ todo = <<Event("run_started"), Event("preflight_completed")>>
    /\ accounting = [u \in Units |-> 0]
    /\ pending = <<>>
    /\ process = [end |-> "none", wall |-> 0]
    /\ sequence = 0 /\ status = "" /\ usage = NoUsage
    /\ attested = FALSE /\ normalized = FALSE
    /\ retained = CoreFiles
    /\ attached = FALSE /\ sealed = FALSE
    /\ outcome = [status |-> "", usage |-> NoUsage]
    /\ calls = 0 /\ faults = 0

(* The call under way raises.  Before execute hands out the session nobody *)
(* can go on with the attempt.                                             *)
Raise ==
    /\ pc' = IF attached THEN "idle" ELSE "lost"
    /\ todo' = <<>> /\ pending' = <<>>

Fault(kind) ==
    /\ kind \in Faults /\ faults < MaxFaults
    /\ faults' = faults + 1

-----------------------------------------------------------------------------
(* _emit and JsonlEventWriter.append.                                      *)

Stamped(e) == [e EXCEPT !.seq = sequence + 1]

(* Mutants: the sequence, or the broken line, is not looked at. *)
AppendableAnySequence == EventStream \notin torn
AppendableAfterTorn == stream # <<>> => stream[Len(stream)].seq < sequence + 1

(* The writer re-reads the stream: it refuses a broken line and a sequence *)
(* that does not increase.                                                 *)
Appendable ==
    /\ EventStream \notin torn
    /\ stream # <<>> => stream[Len(stream)].seq < sequence + 1

Emit ==
    /\ todo # <<>> /\ ~Head(todo).leaks /\ Appendable
    /\ stream' = Append(stream, Stamped(Head(todo)))
    /\ sequence' = sequence + 1
    /\ todo' = Tail(todo)
    /\ UNCHANGED <<accounting, manifest, created, torn, entries, pc, pending, process, status,
                   usage, attested, normalized, retained, attached, sealVars, boundVars>>

(* The scrubber finds a credential in an adapter's event. *)
EmitLeak ==
    /\ todo # <<>> /\ Head(todo).leaks
    /\ status' = "credential-evidence-refused"
    /\ Raise
    /\ UNCHANGED <<accounting, diskVars, process, sequence, usage, attested, normalized,
                   retained, attached, sealVars, boundVars>>

(* The append raises before a byte is written... *)
EmitRefused ==
    /\ todo # <<>> /\ ~Head(todo).leaks
    /\ \/ ~Appendable /\ UNCHANGED faults
       \/ Appendable /\ Fault("refused")
    /\ Raise
    /\ UNCHANGED <<accounting, diskVars, sessionVars, sealVars, calls>>

(* ... or in fsync, when the line is already in the file: _sequence stays. *)
EmitUnsynced ==
    /\ todo # <<>> /\ ~Head(todo).leaks /\ Appendable
    /\ Fault("unsynced")
    /\ stream' = Append(stream, Stamped(Head(todo)))
    /\ Raise
    /\ UNCHANGED <<accounting, manifest, created, torn, entries, sessionVars, sealVars, calls>>

(* The unbuffered write stops early and its return value is ignored. *)
EmitShort ==
    /\ todo # <<>> /\ ~Head(todo).leaks /\ Appendable
    /\ Fault("short")
    /\ torn' = torn \cup {EventStream}
    /\ sequence' = sequence + 1
    /\ todo' = Tail(todo)
    /\ UNCHANGED <<accounting, stream, manifest, created, entries, pc, pending, process,
                   status, usage, attested, normalized, retained, attached, sealVars, calls>>

-----------------------------------------------------------------------------
(* execute: the command runs and its end is recorded.                      *)

BudgetUpdate(spent, states) ==
    [Event("budget_update") EXCEPT !.usage = spent, !.accounting = states]

EndStatus(end) ==
    CASE end = "launch-error"  -> "launch-error"
      [] end = "output"        -> "output-budget-exceeded"
      [] end = "timeout"       -> "timed-out"
      [] end = "zero"          -> "completed"
      [] end = "nonzero"       -> "command-failed"

Ends == {"launch-error", "output", "timeout", "zero", "nonzero"}

(* _run_process returns; guard.record may find the wall budget overrun.    *)
Launch ==
    /\ pc = "open" /\ todo = <<>>
    /\ \E end \in Ends, wall \in WallSeconds :
         LET over == wall > Budget["wall"] IN
         /\ process' = [end |-> end, wall |-> wall]
         /\ status' = IF over THEN "budget-exceeded" ELSE EndStatus(end)
         /\ usage' = [NoUsage EXCEPT !["wall"] = wall]
         /\ todo' = (IF end = "launch-error" THEN <<Event("error")>>
                     ELSE <<Event("command_started"), Event("command_completed")>>)
                    \o (IF over THEN <<Event("error")>> ELSE <<>>)
                    \o <<BudgetUpdate([wall |-> wall], <<>>)>>
    /\ pc' = "construct"
    /\ UNCHANGED <<accounting, diskVars, pending, sequence, attested, normalized, retained,
                   attached, sealVars, boundVars>>

(* Output capture raises instead: the attempt ends without a session.      *)
CaptureFails ==
    /\ pc = "construct" /\ todo # <<>> /\ Head(todo).type = "command_completed"
    /\ Raise
    /\ UNCHANGED <<accounting, diskVars, sessionVars, sealVars, boundVars>>

AccountingState(acc) ==
    [u \in Units |-> CASE acc[u] # Unavailable -> "observed"
                       [] acc[u] = Unavailable /\ Projection[u] > 0
                            -> "unavailable-reserved"
                       [] OTHER -> "not-applicable"]

(* Mutant: a unit the adapter could not observe costs nothing. *)
ChargedAsZero(acc) ==
    [u \in Units |-> IF acc[u] = Unavailable THEN 0 ELSE acc[u]]

(* A unit the adapter could not observe is charged at its projection. *)
Charged(acc) ==
    [u \in Units |-> IF acc[u] = Unavailable THEN Projection[u] ELSE acc[u]]

(* Mutant: accounting within its limits restores the ordinary status. *)
StatusAfterReset(beyond, over) ==
    CASE beyond -> "resource-projection-exceeded"
      [] ~beyond /\ over -> "budget-exceeded"
      [] OTHER -> EndStatus(process.end)

StatusAfter(beyond, over) ==
    CASE beyond -> "resource-projection-exceeded"
      [] ~beyond /\ over -> "budget-exceeded"
      [] OTHER -> status

(* _attest_accounting, which goes on with call when nothing is exceeded    *)
(* and seals the attempt itself when something is.                         *)
Attest(acc, call) ==
    LET spent == [r \in Resources |->
                    IF r = "wall" THEN usage[r] ELSE usage[r] + Charged(acc)[r]]
        beyond == \E u \in Units : acc[u] > Projection[u]
        over   == \E r \in Resources : spent[r] > Budget[r]
        update == BudgetUpdate(spent, AccountingState(acc))
        reserved == \E u \in Units : AccountingState(acc)[u] = "unavailable-reserved"
    IN  /\ attested' = TRUE
        /\ usage' = spent
        /\ status' = StatusAfter(beyond, over)
        /\ todo' = IF beyond \/ over THEN <<update, Event("error")>>
                   ELSE IF reserved THEN <<Event("warning"), update>>
                   ELSE <<update>>
        /\ pc' = IF beyond \/ over THEN "seal" ELSE call

(* The session exists.  A command that never started is attested as free   *)
(* and sealed at once; any other end hands the session to the caller.      *)
Construct ==
    /\ pc = "construct" /\ todo = <<>>
    /\ \/ /\ process.end = "launch-error" /\ HasUsage
          /\ Attest([u \in Units |-> 0], "seal")
          /\ UNCHANGED attached
       \/ /\ process.end = "launch-error" /\ ~HasUsage
          /\ pc' = "seal"
          /\ UNCHANGED <<attested, usage, status, todo, attached>>
       \/ /\ process.end # "launch-error"
          /\ pc' = "idle" /\ attached' = TRUE
          /\ UNCHANGED <<attested, usage, status, todo>>
    /\ UNCHANGED <<accounting, diskVars, pending, process, sequence, normalized, retained,
                   sealVars, boundVars>>

-----------------------------------------------------------------------------
(* apply_normalization.                                                    *)

WithinBudget == \A r \in Resources : usage[r] <= Budget[r]

(* Mutant: the guard is not asked again. *)
AuthorityUnchecked == TRUE

(* _assert_authority_owned: a session over its budget may only go on to    *)
(* record that it stopped.                                                 *)
AuthorityOwned == WithinBudget \/ status \in Stopped

(* Mutant: a sealed session is still open. *)
OpenForever == TRUE

(* _assert_open, and seal's return of the outcome it already has. *)
Open == ~sealed

(* Mutant: nothing is scanned. *)
NothingUnsafe == {}

(* The files whose path or content the scrubber refuses. *)
UnsafeEntries == {f \in RawFiles : entries[f] = "unsafe"}

(* The first claim that cannot be retained decides. *)
Claimable(claims, i) ==
    /\ entries[claims[i]] # "absent" /\ claims[i] \notin UnsafeEntries
    /\ claims[i] \notin retained
    /\ \A j \in 1 .. (i - 1) : claims[j] # claims[i]

ClaimsAccepted(claims) == \A i \in DOMAIN claims : Claimable(claims, i)

(* No call is under way. *)
Idle == pc = "idle" /\ todo = <<>>

Applying(r) ==
    /\ Idle /\ Open /\ AuthorityOwned /\ ~normalized
    /\ calls < MaxCalls
    /\ calls' = calls + 1

(* A claimed file holds a credential and is removed; or its path spells    *)
(* one, and it stays until a seal finds it.  (A claim that is missing or   *)
(* already owned raises and changes nothing.)                              *)
ClaimRefused(r) ==
    /\ Applying(r)
    /\ \E i \in DOMAIN r.claims :
         /\ \A j \in 1 .. (i - 1) : Claimable(r.claims, j)
         /\ r.claims[i] \notin retained
         /\ r.claims[i] \in UnsafeEntries
         /\ entries' \in {entries, [entries EXCEPT ![r.claims[i]] = "absent"]}
    /\ status' = "credential-artifact-refused"
    /\ UNCHANGED <<accounting, stream, manifest, created, torn, pc, todo, pending, process,
                   sequence, usage, attested, normalized, retained, attached, sealVars,
                   faults>>

(* Adapter events keep their source; unavailable fields and notices become *)
(* the harness's own warnings and errors, and an error notice leaves the   *)
(* status alone.  A "leak" is an event that spells a credential.           *)
AdapterEvents(r) ==
    [i \in DOMAIN r.events |->
        IF r.events[i] \in {"warning", "error"}
        THEN [Event(r.events[i]) EXCEPT !.call = calls + 1]
        ELSE [Event("observation") EXCEPT !.source = "adapter", !.call = calls + 1,
                                          !.leaks = (r.events[i] = "leak")]]

ApplyNormalization(r) ==
    /\ Applying(r)
    /\ ClaimsAccepted(r.claims)
    /\ retained' = retained \cup {r.claims[i] : i \in DOMAIN r.claims}
    /\ todo' = AdapterEvents(r)
    /\ pc' = "attest" /\ accounting' = r.accounting
    /\ UNCHANGED <<diskVars, pending, process, sequence, status, usage, attested, normalized,
                   attached, sealVars, faults>>

(* Every event of the result was appended: its accounting is attested. *)
Normalized ==
    /\ pc = "attest" /\ todo = <<>>
    /\ normalized' = TRUE
    /\ Attest(accounting, "idle")
    /\ UNCHANGED <<accounting, diskVars, pending, process, sequence, retained, attached,
                   sealVars, boundVars>>

-----------------------------------------------------------------------------
(* seal.                                                                   *)

RequestSeal ==
    /\ Idle /\ Open
    /\ calls < MaxCalls
    /\ calls' = calls + 1
    /\ pc' = "seal"
    /\ UNCHANGED <<accounting, diskVars, todo, pending, sessionVars, sealVars, faults>>

(* The session owns what it retained and its event stream, but not the     *)
(* artifact records an earlier seal began.                                 *)
UnownedEntries ==
    {f \in RawFiles : entries[f] # "absent" /\ f \notin retained}
    \cup (IF created THEN {ArtifactRecords} ELSE {})

(* Mutant: projected use need not be attested. *)
SealReadyUnattested ==
    /\ AuthorityOwned
    /\ UnownedEntries = {}
    /\ \A f \in retained \cap RawFiles : entries[f] # "absent"

(* What seal requires once no entry is unsafe: every entry on disk has an  *)
(* owner, every retained file is still there, and projected use is closed. *)
SealReady ==
    /\ AuthorityOwned
    /\ UnownedEntries = {}
    /\ \A f \in retained \cap RawFiles : entries[f] # "absent"
    /\ HasUsage => attested

(* A file, claimed or not, holds a credential by now: it is removed, and   *)
(* the caller has to seal again.                                           *)
SealRefused ==
    /\ pc = "seal" /\ todo = <<>>
    /\ AuthorityOwned /\ UnsafeEntries # {}
    /\ entries' = [f \in RawFiles |-> IF f \in UnsafeEntries THEN "absent" ELSE entries[f]]
    /\ status' = "credential-artifact-refused"
    /\ Raise
    /\ UNCHANGED <<accounting, stream, manifest, created, torn, process, sequence, usage,
                   attested, normalized, retained, attached, sealVars, boundVars>>

SealRejected ==
    /\ pc = "seal" /\ todo = <<>>
    /\ ~AuthorityOwned \/ (UnsafeEntries = {} /\ ~SealReady)
    /\ Raise
    /\ UNCHANGED <<accounting, diskVars, sessionVars, sealVars, boundVars>>

(* The retained files among the first n, and all of them, in sorted order. *)
RetainedUpTo[n \in 0 .. Len(PathOrder)] ==
    IF n = 0 THEN <<>>
    ELSE IF PathOrder[n] \in retained THEN Append(RetainedUpTo[n - 1], PathOrder[n])
    ELSE RetainedUpTo[n - 1]

RetainedInOrder == RetainedUpTo[Len(PathOrder)]

(* Mutant: run_stopped repeats how the process ended. *)
StopOfProcess == [Event("run_stopped") EXCEPT !.status = EndStatus(process.end)]

Stop == [Event("run_stopped") EXCEPT !.status = status]

(* artifact_recorded for every retained file, then run_stopped. *)
SealAnnounce ==
    /\ pc = "seal" /\ todo = <<>>
    /\ UnsafeEntries = {} /\ SealReady
    /\ todo' = [i \in 1 .. Len(RetainedInOrder) |-> Event("artifact_recorded")]
               \o <<Stop>>
    /\ pc' = "hash"
    /\ UNCHANGED <<accounting, diskVars, pending, sessionVars, sealVars, boundVars>>

Record(path, size, content) == [path |-> path, size |-> size, content |-> content]

(* Mutant: the stream is hashed before run_stopped is appended. *)
StreamRecordBeforeStop == Record(EventStream, Len(stream) - 1, "events")

StreamRecord == Record(EventStream, Len(stream), "events")

(* What a retained file or the stream holds; the harness writes the former *)
(* once, and the stream is told by its length.                             *)
ContentOf(f) == IF f \in RawFiles THEN entries[f]
                ELSE IF f = EventStream THEN "events" ELSE "written"

(* The records of the retained files, taken when the seal begins (nothing  *)
(* changes a file during the call), and the stream's, once it is complete. *)
HashStream ==
    /\ pc = "hash" /\ todo = <<>>
    /\ pending' = [i \in 1 .. Len(RetainedInOrder) |->
                     Record(RetainedInOrder[i], 0, ContentOf(RetainedInOrder[i]))]
                  \o <<StreamRecord>>
    /\ pc' = "record"
    /\ UNCHANGED <<accounting, diskVars, todo, sessionVars, sealVars, boundVars>>

(* ArtifactRecordWriter.append creates the file when it is not there, and  *)
(* refuses a broken line and a path it has.                                *)
Recordable(r) ==
    /\ "manifest" \notin torn
    /\ \A i \in DOMAIN manifest : manifest[i].path # r.path

RecordArtifact ==
    /\ pending # <<>> /\ Recordable(Head(pending))
    /\ manifest' = Append(manifest, Head(pending)) /\ created' = TRUE
    /\ pending' = Tail(pending)
    /\ UNCHANGED <<accounting, stream, torn, entries, pc, todo, sessionVars, sealVars,
                   boundVars>>

(* The append fails before a byte is written, when the file could not be   *)
(* opened or after it was.                                                 *)
RecordRefused ==
    /\ pending # <<>>
    /\ \/ ~Recordable(Head(pending)) /\ created' = TRUE /\ UNCHANGED faults
       \/ Recordable(Head(pending)) /\ Fault("refused") /\ created' \in {created, TRUE}
    /\ Raise
    /\ UNCHANGED <<accounting, stream, manifest, torn, entries, sessionVars, sealVars, calls>>

RecordUnsynced ==
    /\ pending # <<>> /\ Recordable(Head(pending))
    /\ Fault("unsynced")
    /\ manifest' = Append(manifest, Head(pending)) /\ created' = TRUE
    /\ Raise
    /\ UNCHANGED <<accounting, stream, torn, entries, sessionVars, sealVars, calls>>

RecordShort ==
    /\ pending # <<>> /\ Recordable(Head(pending))
    /\ Fault("short")
    /\ torn' = torn \cup {"manifest"} /\ created' = TRUE
    /\ pending' = Tail(pending)
    /\ UNCHANGED <<accounting, stream, manifest, entries, pc, todo, sessionVars, sealVars,
                   calls>>

Sealed ==
    /\ pc = "record" /\ pending = <<>>
    /\ sealed' = TRUE
    /\ outcome' = [status |-> status, usage |-> usage]
    /\ pc' = IF attached THEN "idle" ELSE "lost"
    /\ UNCHANGED <<accounting, diskVars, todo, pending, sessionVars, boundVars>>

-----------------------------------------------------------------------------
(* The command, the adapter and the operator, outside the session.         *)

(* The command writes a file in the attempt while it runs, or somebody     *)
(* writes or replaces one, claimed or not, between two calls.              *)
LeaveFile(f) ==
    /\ \/ pc = "construct" /\ todo # <<>> /\ Head(todo).type = "command_completed"
       \/ Idle /\ ~sealed
    /\ \E content \in Contents \ {entries[f]} : entries' = [entries EXCEPT ![f] = content]
    /\ UNCHANGED <<accounting, stream, manifest, created, torn, pc, todo, pending, sessionVars,
                   sealVars, boundVars>>

(* A file, claimed or not, disappears between two calls. *)
RemoveFile(f) ==
    /\ Idle /\ ~sealed
    /\ entries[f] # "absent"
    /\ entries' = [entries EXCEPT ![f] = "absent"]
    /\ UNCHANGED <<accounting, stream, manifest, created, torn, pc, todo, pending, sessionVars,
                   sealVars, boundVars>>

(* The host process ends between two steps, or its caller has finished. *)
HostEnds ==
    /\ pc # "ended"
    /\ pc' = "ended" /\ todo' = <<>> /\ pending' = <<>>
    /\ UNCHANGED <<accounting, diskVars, sessionVars, sealVars, boundVars>>

Ended == pc = "ended" /\ UNCHANGED vars

-----------------------------------------------------------------------------
Next ==
    \/ Emit \/ EmitLeak \/ EmitRefused \/ EmitUnsynced \/ EmitShort
    \/ Launch \/ CaptureFails \/ Construct
    \/ \E r \in AdapterResults : ClaimRefused(r) \/ ApplyNormalization(r)
    \/ Normalized
    \/ RequestSeal \/ SealRefused \/ SealRejected \/ SealAnnounce \/ HashStream
    \/ RecordArtifact \/ RecordRefused \/ RecordUnsynced \/ RecordShort \/ Sealed
    \/ \E f \in RawFiles : LeaveFile(f) \/ RemoveFile(f)
    \/ HostEnds \/ Ended

Spec == Init /\ [][Next]_vars

-----------------------------------------------------------------------------
(* Properties.                                                             *)

FilesOnDisk ==
    CoreFiles \cup {f \in RawFiles : entries[f] # "absent"}
              \cup (IF stream # <<>> \/ EventStream \in torn THEN {EventStream} ELSE {})

Accepted ==
    ValidDirectory([f \in FilesOnDisk |-> ContentOf(f)], stream, manifest, torn)

Statuses == {"", "credential-evidence-refused", "credential-artifact-refused"}
            \cup Stopped \cup {EndStatus(end) : end \in Ends}

TypeOK ==
    /\ pc \in {"open", "construct", "idle", "attest", "seal", "hash", "record", "lost", "ended"}
    /\ torn \subseteq {EventStream, "manifest"}
    /\ created \in BOOLEAN
    /\ entries \in [RawFiles -> {"absent"} \cup Contents]
    /\ accounting \in [Units -> Nat \cup {Unavailable}]
    /\ process \in [end : Ends \cup {"none"}, wall : Nat]
    /\ sequence \in Nat /\ status \in Statuses /\ usage \in [Resources -> Nat]
    /\ attested \in BOOLEAN /\ normalized \in BOOLEAN /\ attached \in BOOLEAN
    /\ retained \subseteq CoreFiles \cup RawFiles
    /\ sealed \in BOOLEAN
    /\ outcome \in [status : Statuses, usage : [Resources -> Nat]]
    /\ calls \in Nat /\ faults \in Nat

(* The evidence of a sealed attempt passes the offline validator. *)
SealedIsAccepted == sealed => Accepted

(* It does on a healthy disk, with two exceptions: an attempt whose        *)
(* attested use is beyond its projection and whose status a refused file   *)
(* then overwrote (executor.py:712), and one that retains a raw file named *)
(* events.jsonl in a directory of its own (artifacts.py:410).              *)
SealedAcceptedButTwo ==
    sealed /\ ~Accepted =>
        \/ /\ outcome.status = "credential-artifact-refused"
           /\ \E u \in Units : usage[u] > Projection[u]
        \/ retained \cap NestedStreams # {}

(* Evidence the validator accepts says what the session knows: the status  *)
(* it stopped with and the use it charged, also when the host died before  *)
(* the seal was complete (as long as no append failed).                    *)
EvidenceMatchesSession ==
    Accepted =>
        /\ TerminalStatus(stream) = status
        /\ \A i \in DOMAIN stream :
             stream[i].accounting # <<>> => stream[i].usage = usage

(* No attempt that spent more than its budget is sealed as anything but a  *)
(* stopped run, whatever was refused, retried or attested in between.      *)
OverspendingStopped == sealed /\ ~WithinBudget => outcome.status \in Stopped

(* A "completed" attempt is the evidence of one undisturbed run: exit code *)
(* zero, projected use attested, no error event but the notices of the     *)
(* adapter, and of its events and notices those of one result.  (On a disk *)
(* that does not fail: an append that is refused within a result leaves    *)
(* the events before it behind.)                                           *)
CompletedIsClean ==
    sealed /\ outcome.status = "completed" =>
        LET told == {i \in DOMAIN stream : stream[i].call # 0} IN
        /\ process.end = "zero" /\ process.wall <= Budget["wall"]
        /\ HasUsage => attested
        /\ Positions(stream, "error") \subseteq told
        /\ \A i, j \in told : stream[i].call = stream[j].call

(* A file that holds a credential is never recorded as evidence, also when *)
(* it was written or replaced after its claim was checked.                 *)
RecordedIsSafe ==
    \A i \in DOMAIN manifest :
        manifest[i].path \in RawFiles => manifest[i].content \in Retainable

Failing == Stopped \cup {"credential-artifact-refused", "credential-evidence-refused"}

(* Once something was refused or exceeded, no later call makes the attempt *)
(* look like an ordinary end again.                                        *)
FailureSticks == [][(status \in Failing) => (status' \in Failing)]_vars

(* An open session its caller holds can still go on: the failure session   *)
(* of a command over its budget can be normalized and sealed.              *)
FailureSessionSealable == pc = "idle" /\ ~sealed => AuthorityOwned

(* Whatever the disk does and whoever retries, no event on disk is missing *)
(* or there twice: an append that failed before or after its bytes were    *)
(* written, or wrote some of them, lets none follow that would skip or     *)
(* repeat a number.                                                        *)
StreamHasNoGaps == \A i \in DOMAIN stream : stream[i].seq = i

Extends(log, longer) == Len(log) <= Len(longer) /\ SubSeq(longer, 1, Len(log)) = log

(* An attempt sealed without a broken line has records of exactly the      *)
(* files on disk and of what they hold by then, and its stream has not     *)
(* grown since it was hashed: whatever was replaced or removed after a     *)
(* claim, retries after a fault may say too much or too little in the      *)
(* stream, but never something else in the records.                        *)
SealedIsRecorded ==
    sealed /\ torn = {} =>
        /\ {<<manifest[i].path, manifest[i].content>> : i \in DOMAIN manifest}
             = {<<f, ContentOf(f)>> : f \in FilesOnDisk}
        /\ manifest[Len(manifest)] = Record(EventStream, Len(stream), "events")

(* Neither log is rewritten, and a log that ends in a broken line is over. *)
EvidenceOnlyGrows ==
    [][/\ Extends(stream, stream') /\ Extends(manifest, manifest')
       /\ torn \subseteq torn'
       /\ (EventStream \in torn) => (stream' = stream)
       /\ ("manifest" \in torn) => (manifest' = manifest)]_vars

(* A sealed attempt never changes again. *)
SealedImmutable == [][sealed => UNCHANGED <<diskVars, status, usage, retained, sealVars>>]_vars

(* The attempt as a ledger of events and records. *)
Ledger == INSTANCE EvidenceLedger WITH
    Paths <- CoreFiles \cup RawFiles \cup {EventStream},
    Contents <- Retainable \cup {"written", "events"},
    StreamPath <- EventStream,
    events <- [i \in DOMAIN stream |-> stream[i].seq],
    records <- manifest,
    phase <- IF sealed THEN "sealed" ELSE IF manifest = <<>> THEN "events" ELSE "records"

ImplementsLedger == Ledger!LedgerSpec

=============================================================================
