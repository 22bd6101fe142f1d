---------------------------- MODULE SessionProofs ----------------------------
(***************************************************************************)
(* What holds of every run attempt: for any adapter results, raw files and *)
(* budgets, however often the caller calls and the disk fails.             *)
(***************************************************************************)
EXTENDS RunSession, SequenceTheorems, WellFoundedInduction, TLAPS

-----------------------------------------------------------------------------
(* Induction over the natural numbers, as a fact about sets.               *)

LEMMA LeastNatural ==
    ASSUME NEW S, S \subseteq Nat, S # {}
    PROVE  \E m \in S : \A k \in S : m <= k
  <1>1. \A x, y \in Nat : x < y => <<x, y>> \in OpToRel(<, Nat)
    BY DEF OpToRel
  <1>2. ASSUME NEW R, IsWellFoundedOn(R, Nat), \A x, y \in Nat : x < y => <<x, y>> \in R
        PROVE  \E m \in S : \A k \in S : m <= k
    <2>1. IsWellFoundedOn(R, Nat)
      BY <1>2
    <2>2. PICK m \in S : \A k \in S : ~ (<<k, m>> \in R)
      BY <2>1, WFMin, Zenon
    <2>3. ASSUME NEW k \in S PROVE m <= k
      <3>1. k \in Nat /\ m \in Nat /\ ~ (k < m)
        BY <1>2, <2>2
      <3> QED
        BY <3>1
    <2> QED
      BY <2>3
  <1> QED
    BY <1>1, <1>2, NatLessThanWellFounded

LEMMA SetInduction ==
    ASSUME NEW S, 0 \in S, \A n \in Nat : n \in S => n + 1 \in S
    PROVE  Nat \subseteq S
  <1> SUFFICES ASSUME Nat \ S # {} PROVE FALSE
    OBVIOUS
  <1>1. PICK m \in Nat \ S : \A k \in Nat \ S : m <= k
    BY LeastNatural
  <1>2. m - 1 \in Nat /\ m - 1 \notin Nat \ S
    BY <1>1
  <1> QED
    BY <1>1, <1>2

-----------------------------------------------------------------------------
(* The retained files, in sorted order.                                    *)

\* One more retained file after those that f lists.
Listed(f, n) ==
    IF n = 0 THEN <<>>
    ELSE IF PathOrder[n] \in retained THEN Append(f[n - 1], PathOrder[n])
    ELSE f[n - 1]

ListsUpTo(f, k) == f = [n \in 0 .. k |-> Listed(f, n)]

LEMMA ListingExists == \A k \in Nat : \E f : ListsUpTo(f, k)
  <1> DEFINE S == {k \in Nat : \E f : ListsUpTo(f, k)}
  <1>1. 0 \in S
    <2> DEFINE f == [n \in 0 .. 0 |-> <<>>]
    <2>1. \A n \in 0 .. 0 : Listed(f, n) = <<>>
      BY DEF Listed
    <2>2. ListsUpTo(f, 0)
      BY <2>1 DEF ListsUpTo
    <2> QED
      BY <2>2
  <1>2. ASSUME NEW k \in Nat, k \in S PROVE k + 1 \in S
    <2>1. PICK f : ListsUpTo(f, k)
      BY <1>2
    <2> DEFINE g == [n \in 0 .. (k + 1) |-> IF n <= k THEN f[n] ELSE Listed(f, n)]
    <2>2. ASSUME NEW n \in 0 .. (k + 1) PROVE Listed(g, n) = g[n]
      <3>1. n # 0 => n - 1 \in 0 .. k /\ g[n - 1] = f[n - 1]
        OBVIOUS
      <3>2. Listed(g, n) = Listed(f, n)
        BY <3>1 DEF Listed
      <3>3. n <= k => f[n] = Listed(f, n)
        BY <2>1 DEF ListsUpTo
      <3> QED
        BY <3>2, <3>3
    <2>3. ListsUpTo(g, k + 1)
      BY <2>2 DEF ListsUpTo
    <2> QED
      BY <2>3
  <1> HIDE DEF S
  <1>3. Nat \subseteq S
    BY <1>1, <1>2, SetInduction
  <1> QED
    BY <1>3 DEF S

Files == CoreFiles \cup RawFiles

LEMMA CoreFilesAre ==
    /\ CoreFiles = {"command.json", "run-plan.json", "stderr.log", "stdout.log"}
    /\ CoreOrder \in Seq(CoreFiles)
    /\ CoreFiles \cap RawFiles = {}
    /\ EventStream \notin Files
  <1>1. /\ DOMAIN CoreOrder = 1 .. 4
        /\ CoreOrder[1] = "command.json" /\ CoreOrder[2] = "run-plan.json"
        /\ CoreOrder[3] = "stderr.log" /\ CoreOrder[4] = "stdout.log"
    BY DEF CoreOrder
  <1>2. CoreFiles = {"command.json", "run-plan.json", "stderr.log", "stdout.log"}
    BY <1>1 DEF CoreFiles
  <1>3. CoreOrder \in Seq(CoreFiles)
    BY <1>2 DEF CoreOrder
  <1> QED
    BY <1>2, <1>3, SessionAssumption DEF Files, EventStream

LEMMA PathsAreSequences == PathOrder \in Seq(Files) /\ Len(PathOrder) \in Nat
  <1>1. RawPaths \in Seq(RawFiles)
    BY SessionAssumption, LenProperties, SeqDef DEF RawFiles
  <1>2. CoreOrder \in Seq(Files) /\ RawPaths \in Seq(Files)
    BY <1>1, CoreFilesAre, SeqMonotonic DEF Files
  <1> QED
    BY <1>2, ConcatProperties, LenProperties DEF PathOrder

LEMMA RetainedUpToLists ==
    \A n \in 0 .. Len(PathOrder) : RetainedUpTo[n] = Listed(RetainedUpTo, n)
  <1> DEFINE N == Len(PathOrder)
  <1>1. \E f : ListsUpTo(f, N)
    BY ListingExists, PathsAreSequences
  <1>2. RetainedUpTo = CHOOSE f : ListsUpTo(f, N)
    BY DEF RetainedUpTo, ListsUpTo, Listed
  <1>3. ListsUpTo(RetainedUpTo, N)
    BY <1>1, <1>2
  <1> QED
    BY <1>3 DEF ListsUpTo

\* The listing is a sequence of retained files.
LEMMA ListingIsRetained == RetainedInOrder \in Seq(retained)
  <1> DEFINE S == {n \in Nat : n <= Len(PathOrder) => RetainedUpTo[n] \in Seq(retained)}
  <1>1. 0 \in S
    <2>1. RetainedUpTo[0] = <<>>
      BY RetainedUpToLists, PathsAreSequences DEF Listed
    <2> QED
      BY <2>1, EmptySeq
  <1>2. ASSUME NEW n \in Nat, n \in S PROVE n + 1 \in S
    <2> SUFFICES ASSUME n + 1 <= Len(PathOrder)
                 PROVE  RetainedUpTo[n + 1] \in Seq(retained)
      OBVIOUS
    <2>1. RetainedUpTo[n] \in Seq(retained)
      BY <1>2, PathsAreSequences
    <2>2. RetainedUpTo[n + 1] = Listed(RetainedUpTo, n + 1) /\ n + 1 # 0 /\ (n + 1) - 1 = n
      BY RetainedUpToLists, PathsAreSequences
    <2> QED
      BY <2>1, <2>2 DEF Listed
  <1> HIDE DEF S
  <1>3. Nat \subseteq S
    BY <1>1, <1>2, SetInduction
  <1> QED
    BY <1>3, PathsAreSequences DEF S, RetainedInOrder

-----------------------------------------------------------------------------
(* Events and records, as they are written.                                *)

States == {"observed", "unavailable-reserved", "not-applicable"}
EventTypes == {"run_started", "preflight_completed", "command_started", "command_completed",
               "error", "warning", "observation", "budget_update", "artifact_recorded",
               "run_stopped"}
Events ==
    {e \in [seq : Nat, type : EventTypes, source : {Harness, "adapter"}, call : Nat,
            leaks : BOOLEAN, status : Statuses,
            usage : {<<>>} \cup [{"wall"} -> Nat] \cup [Resources -> Nat],
            accounting : {<<>>} \cup [Units -> States]] :
        (e.type \in AdapterTypes) <=> (e.source # Harness)}
Quiet == {e \in Events : e.leaks = FALSE}
Held == {"absent", "written", "events"} \cup Contents
Records == [path : Files \cup {EventStream}, size : Nat, content : Held]

LEMMA ControlEvents ==
    /\ \A type \in EventTypes \ AdapterTypes : Event(type) \in Quiet
    /\ "budget_update" \in EventTypes \ AdapterTypes
    /\ "run_stopped" \in EventTypes \ AdapterTypes
  BY DEF Event, Quiet, Events, EventTypes, AdapterTypes, Statuses, Harness

LEMMA StopIsQuiet == ASSUME status \in Statuses PROVE Stop \in Quiet
  BY ControlEvents DEF Stop, Quiet, Events, Event, AdapterTypes

LEMMA UpdatesAreQuiet ==
    ASSUME NEW spent \in [{"wall"} -> Nat] \cup [Resources -> Nat],
           NEW states \in {<<>>} \cup [Units -> States]
    PROVE  BudgetUpdate(spent, states) \in Quiet
  BY ControlEvents DEF BudgetUpdate, Quiet, Events, Event, AdapterTypes

LEMMA StampedIsAnEvent ==
    ASSUME NEW e \in Events, sequence \in Nat
    PROVE  /\ Stamped(e) \in Events /\ Stamped(e).seq = sequence + 1
  BY DEF Stamped, Events

\* What an adapter tells, spelling a credential or not, and what it notes.
Told(l, n) == [Event("observation") EXCEPT !.source = "adapter", !.call = n, !.leaks = l]
Noted(type, n) == [Event(type) EXCEPT !.call = n]

LEMMA ToldIsAnEvent ==
    ASSUME NEW l \in BOOLEAN, NEW n \in Nat
    PROVE  Told(l, n) \in Events
  <1> DEFINE Shape == [seq : Nat, type : EventTypes, source : {Harness, "adapter"},
                       call : Nat, leaks : BOOLEAN, status : Statuses,
                       usage : {<<>>} \cup [{"wall"} -> Nat] \cup [Resources -> Nat],
                       accounting : {<<>>} \cup [Units -> States]]
             e == Event("observation")
  <1>1. e \in Shape /\ e.type = "observation"
    BY DEF Event, EventTypes, Statuses
  <1> HIDE DEF e
  <1>2. /\ [e EXCEPT !.source = "adapter", !.call = n, !.leaks = l] \in Shape
        /\ [e EXCEPT !.source = "adapter", !.call = n, !.leaks = l].type = "observation"
        /\ [e EXCEPT !.source = "adapter", !.call = n, !.leaks = l].source = "adapter"
    BY <1>1
  <1> QED
    BY <1>2 DEF e, Told, Events, AdapterTypes, Harness

LEMMA NotedIsAnEvent ==
    ASSUME NEW e \in Events, NEW n \in Nat
    PROVE  [e EXCEPT !.call = n] \in Events
  BY DEF Events

LEMMA AdapterEventsAreEvents ==
    ASSUME NEW r \in AdapterResults, calls \in Nat
    PROVE  AdapterEvents(r) \in Seq(Events)
  <1>1. r.events \in Seq({"observation", "warning", "error", "leak"})
    BY SessionAssumption
  <1>2. Event("warning") \in Events /\ Event("error") \in Events
    BY ControlEvents DEF Quiet, EventTypes, AdapterTypes
  <1>3. calls + 1 \in Nat
    OBVIOUS
  <1>4. ASSUME NEW i \in DOMAIN r.events PROVE AdapterEvents(r)[i] \in Events
    <2>1. CASE r.events[i] \in {"warning", "error"}
      <3>1. AdapterEvents(r)[i] = [Event(r.events[i]) EXCEPT !.call = calls + 1]
        BY <2>1 DEF AdapterEvents
      <3>2. Event(r.events[i]) \in Events
        BY <1>2, <2>1
      <3> QED
        BY <1>3, <3>1, <3>2, NotedIsAnEvent
    <2>2. CASE r.events[i] \notin {"warning", "error"}
      <3>1. AdapterEvents(r)[i] = Told(r.events[i] = "leak", calls + 1)
        BY <2>2 DEF AdapterEvents, Told
      <3>2. (r.events[i] = "leak") \in BOOLEAN
        OBVIOUS
      <3> QED
        BY <1>3, <3>1, <3>2, ToldIsAnEvent, Zenon
    <2> QED
      BY <2>1, <2>2
  <1>5. /\ DOMAIN r.events = 1 .. Len(r.events) /\ Len(r.events) \in Nat
        /\ AdapterEvents(r) = [i \in DOMAIN r.events |-> AdapterEvents(r)[i]]
    BY <1>1, LenProperties DEF AdapterEvents
  <1> QED
    BY <1>4, <1>5, SeqDef

\* Sequences of few events.
LEMMA ShortSequences ==
    ASSUME NEW S, NEW a \in S, NEW b \in S, NEW c \in S
    PROVE  <<a>> \in Seq(S) /\ <<a, b>> \in Seq(S) /\ <<a, b, c>> \in Seq(S)
  OBVIOUS

-----------------------------------------------------------------------------
(* What an attestation does to the session.                                *)

LEMMA AttestationEffect ==
    ASSUME TypeOK, NEW acc \in [Units -> Nat \cup {Unavailable}], NEW call, Attest(acc, call)
    PROVE  /\ attested' = TRUE /\ usage' \in [Resources -> Nat]
           /\ status' \in {status} \cup Stopped
           /\ todo' \in Seq(Events)
           /\ pc' \in {"seal", call}
  <1> DEFINE spent == [r \in Resources |->
                         IF r = "wall" THEN usage[r] ELSE usage[r] + Charged(acc)[r]]
             states == AccountingState(acc)
             update == BudgetUpdate(spent, states)
  <1>1. Charged(acc) \in [Units -> Nat]
    <2>1. \A u \in Units : Projection[u] \in Nat /\ acc[u] \in Nat \cup {Unavailable}
      BY RulesAssumption
    <2> QED
      BY <2>1 DEF Charged
  <1>2. spent \in [Resources -> Nat]
    BY <1>1 DEF TypeOK, Resources
  <1>3. states \in [Units -> States]
    BY DEF AccountingState, States
  <1> HIDE DEF spent, states
  <1>4. update \in Events /\ Event("error") \in Events /\ Event("warning") \in Events
    BY <1>2, <1>3, UpdatesAreQuiet, ControlEvents DEF Quiet, EventTypes, AdapterTypes
  <1> HIDE DEF update
  <1>5. /\ <<update>> \in Seq(Events) /\ <<update, Event("error")>> \in Seq(Events)
        /\ <<Event("warning"), update>> \in Seq(Events)
    BY <1>4, ShortSequences
  <1>6. /\ attested' = TRUE /\ usage' = spent /\ pc' \in {"seal", call}
        /\ \E beyond, over \in BOOLEAN : status' = StatusAfter(beyond, over)
        /\ todo' \in {<<update>>, <<update, Event("error")>>, <<Event("warning"), update>>}
    BY DEF Attest, spent, states, update
  <1>7. status' \in {status} \cup Stopped
    BY <1>6 DEF StatusAfter, Stopped
  <1> QED
    BY <1>2, <1>5, <1>6, <1>7

-----------------------------------------------------------------------------
(* Types.                                                                  *)

LEMMA StatusesAre ==
    /\ Stopped \subseteq Statuses
    /\ {"credential-evidence-refused", "credential-artifact-refused", ""} \subseteq Statuses
    /\ \A end \in Ends : EndStatus(end) \in Statuses
  BY DEF Statuses, Stopped

LEMMA TypesHold == TypeOK /\ [Next]_vars => TypeOK'
  <1> SUFFICES ASSUME TypeOK, [Next]_vars PROVE TypeOK'
    OBVIOUS
  <1> USE DEF TypeOK
  <1>1. CASE Emit
    BY <1>1 DEF Emit, sealVars, boundVars
  <1>2. CASE EmitLeak
    BY <1>2, StatusesAre DEF EmitLeak, Raise, diskVars, sealVars, boundVars
  <1>3. CASE EmitRefused \/ EmitUnsynced \/ EmitShort
    BY <1>3 DEF EmitRefused, EmitUnsynced, EmitShort, Raise, Fault, diskVars, sessionVars,
       sealVars, boundVars
  <1>4. CASE Launch
    <2>1. PICK end \in Ends, wall \in WallSeconds :
            /\ process' = [end |-> end, wall |-> wall]
            /\ status' = IF wall > Budget["wall"] THEN "budget-exceeded" ELSE EndStatus(end)
            /\ usage' = [NoUsage EXCEPT !["wall"] = wall]
      BY <1>4 DEF Launch
    <2>2. wall \in Nat
      BY SessionAssumption
    <2>3. usage' \in [Resources -> Nat]
      BY <2>1, <2>2 DEF NoUsage, Resources
    <2>4. status' \in Statuses
      BY <2>1, StatusesAre DEF Stopped
    <2> QED
      BY <1>4, <2>1, <2>2, <2>3, <2>4 DEF Launch, diskVars, sealVars, boundVars
  <1>5. CASE CaptureFails
    BY <1>5 DEF CaptureFails, Raise, diskVars, sessionVars, sealVars, boundVars
  <1>6. CASE Construct
    <2>1. CASE process.end = "launch-error" /\ HasUsage
      <3>1. Attest([u \in Units |-> 0], "seal") /\ UNCHANGED attached
        BY <1>6, <2>1 DEF Construct
      <3>2. [u \in Units |-> 0] \in [Units -> Nat \cup {Unavailable}]
        OBVIOUS
      <3>3. /\ attested' = TRUE /\ usage' \in [Resources -> Nat]
            /\ status' \in Statuses /\ pc' = "seal"
        BY <3>1, <3>2, AttestationEffect, StatusesAre
      <3> QED
        BY <1>6, <3>1, <3>3 DEF Construct, diskVars, sealVars, boundVars
    <2>2. CASE ~ (process.end = "launch-error" /\ HasUsage)
      BY <1>6, <2>2 DEF Construct, diskVars, sealVars, boundVars
    <2> QED
      BY <2>1, <2>2
  <1>7. ASSUME NEW r \in AdapterResults, ClaimRefused(r) PROVE TypeOK'
    <2>1. entries' \in [RawFiles -> {"absent"} \cup Contents]
      BY <1>7 DEF ClaimRefused
    <2>2. status' = "credential-artifact-refused" /\ calls' = calls + 1
      BY <1>7 DEF ClaimRefused, Applying
    <2>3. status' \in Statuses
      BY <2>2, StatusesAre
    <2>4. calls' \in Nat
      BY <2>2
    <2>5. UNCHANGED <<accounting, torn, created, pc, process, sequence, usage, attested, normalized,
                      retained, attached, sealed, outcome, faults>>
      BY <1>7 DEF ClaimRefused, sealVars
    <2> QED
      BY <2>1, <2>3, <2>4, <2>5
  <1>8. ASSUME NEW r \in AdapterResults, ApplyNormalization(r) PROVE TypeOK'
    <2>1. /\ r.claims \in Seq(RawFiles)
          /\ r.accounting \in [Units -> Nat \cup {Unavailable}]
      BY SessionAssumption
    <2>2. {r.claims[i] : i \in DOMAIN r.claims} \subseteq RawFiles
      BY <2>1
    <2> QED
      BY <1>8, <2>1, <2>2 DEF ApplyNormalization, Applying, Idle, diskVars, sealVars
  <1>9. CASE Normalized
    <2>1. Attest(accounting, "idle")
      BY <1>9 DEF Normalized
    <2>2. /\ attested' = TRUE /\ usage' \in [Resources -> Nat]
          /\ status' \in Statuses /\ pc' \in {"seal", "idle"}
      BY <2>1, AttestationEffect, StatusesAre
    <2> QED
      BY <1>9, <2>2 DEF Normalized, diskVars, sealVars, boundVars
  <1>10. CASE RequestSeal \/ SealRejected \/ SealAnnounce \/ HashStream
    BY <1>10 DEF RequestSeal, SealRejected, SealAnnounce, HashStream, Raise, diskVars,
       sessionVars, sealVars, boundVars
  <1>11. CASE SealRefused
    BY <1>11, StatusesAre DEF SealRefused, Raise, sealVars, boundVars
  <1>12. CASE RecordArtifact \/ RecordRefused \/ RecordUnsynced \/ RecordShort
    <2>1. torn' \subseteq {EventStream, "manifest"} /\ faults' \in Nat
      <3>1. torn' \in {torn, torn \cup {"manifest"}}
        BY <1>12 DEF RecordArtifact, RecordRefused, RecordUnsynced, RecordShort
      <3>2. faults' \in {faults, faults + 1}
        BY <1>12 DEF RecordArtifact, RecordRefused, RecordUnsynced, RecordShort, Fault,
           boundVars
      <3> QED
        BY <3>1, <3>2
    <2>2. created' = created \/ created' = TRUE
      BY <1>12, Zenon DEF RecordArtifact, RecordRefused, RecordUnsynced, RecordShort
    <2>3. created' \in BOOLEAN
      BY <2>2, Zenon
    <2>4. /\ UNCHANGED <<accounting, entries, sessionVars, sealVars, calls>>
          /\ pc' \in {pc, "idle", "lost"}
      BY <1>12 DEF RecordArtifact, RecordRefused, RecordUnsynced, RecordShort, Raise, boundVars
    <2> QED
      BY <2>1, <2>3, <2>4 DEF sessionVars, sealVars
  <1>13. CASE Sealed
    BY <1>13 DEF Sealed, diskVars, sessionVars, boundVars
  <1>14. ASSUME NEW f \in RawFiles, LeaveFile(f) \/ RemoveFile(f) PROVE TypeOK'
    <2>1. entries' \in [RawFiles -> {"absent"} \cup Contents]
      BY <1>14 DEF LeaveFile, RemoveFile
    <2> QED
      BY <1>14, <2>1 DEF LeaveFile, RemoveFile, sessionVars, sealVars, boundVars
  <1>15. CASE HostEnds
    BY <1>15 DEF HostEnds, diskVars, sessionVars, sealVars, boundVars
  <1>16. CASE Ended \/ UNCHANGED vars
    BY <1>16 DEF Ended, vars, diskVars, sessionVars, sealVars, boundVars
  <1> QED
    BY <1>1, <1>2, <1>3, <1>4, <1>5, <1>6, <1>7, <1>8, <1>9, <1>10, <1>11, <1>12, <1>13,
       <1>14, <1>15, <1>16 DEF Next

\* Every variable keeps its type.
THEOREM TypeCorrect == Spec => []TypeOK
  <1>1. ASSUME Init PROVE TypeOK
    <2>1. /\ entries \in [RawFiles -> {"absent"} \cup Contents]
          /\ accounting \in [Units -> Nat \cup {Unavailable}]
          /\ usage \in [Resources -> Nat]
      BY <1>1 DEF Init, NoUsage
    <2>2. attested \in BOOLEAN /\ normalized \in BOOLEAN /\ attached \in BOOLEAN
          /\ sealed \in BOOLEAN /\ created \in BOOLEAN
      BY <1>1, Zenon DEF Init
    <2>3. /\ process \in [end : Ends \cup {"none"}, wall : Nat]
          /\ outcome \in [status : Statuses, usage : [Resources -> Nat]]
      BY <1>1, StatusesAre DEF Init, NoUsage
    <2>4. retained \subseteq CoreFiles \cup RawFiles /\ torn \subseteq {EventStream, "manifest"}
      BY <1>1 DEF Init
    <2> QED
      BY <1>1, <2>1, <2>2, <2>3, <2>4, StatusesAre DEF Init, TypeOK
  <1> QED
    BY <1>1, TypesHold, PTL DEF Spec

-----------------------------------------------------------------------------
(* What is in the two logs and in what a call still has to append to them. *)

LogsInv ==
    /\ stream \in Seq(Events) /\ todo \in Seq(Events)
    /\ manifest \in Seq(Records) /\ pending \in Seq(Records)

LEMMA LaunchEvents ==
    ASSUME NEW end, NEW wall \in Nat, NEW over \in BOOLEAN
    PROVE  (IF end = "launch-error" THEN <<Event("error")>>
            ELSE <<Event("command_started"), Event("command_completed")>>)
           \o (IF over THEN <<Event("error")>> ELSE <<>>)
           \o <<BudgetUpdate([wall |-> wall], <<>>)>> \in Seq(Events)
  <1>1. /\ Event("error") \in Events /\ Event("command_started") \in Events
        /\ Event("command_completed") \in Events
    BY ControlEvents DEF Quiet, EventTypes, AdapterTypes
  <1>2. [wall |-> wall] \in [{"wall"} -> Nat]
    OBVIOUS
  <1>3. BudgetUpdate([wall |-> wall], <<>>) \in Events
    BY <1>2, UpdatesAreQuiet DEF Quiet
  <1> DEFINE A == IF end = "launch-error" THEN <<Event("error")>>
                  ELSE <<Event("command_started"), Event("command_completed")>>
             B == IF over THEN <<Event("error")>> ELSE <<>>
             C == <<BudgetUpdate([wall |-> wall], <<>>)>>
  <1>4. A \in Seq(Events)
    BY <1>1, ShortSequences
  <1>5. B \in Seq(Events)
    BY <1>1, ShortSequences, EmptySeq
  <1>6. C \in Seq(Events)
    BY <1>3, ShortSequences
  <1> HIDE DEF A, B, C
  <1>7. A \o B \o C \in Seq(Events)
    BY <1>4, <1>5, <1>6, ConcatProperties
  <1> QED
    BY <1>7 DEF A, B, C

\* The records of the retained files as they are now.
Listing == [i \in 1 .. Len(RetainedInOrder) |->
               Record(RetainedInOrder[i], 0, ContentOf(RetainedInOrder[i]))]

LEMMA RecordIsTyped ==
    ASSUME TypeOK, NEW f \in Files, NEW n \in Nat
    PROVE  Record(f, n, ContentOf(f)) \in Records
  <1>1. ContentOf(f) \in Held
    BY DEF ContentOf, Held, TypeOK
  <1> QED
    BY <1>1 DEF Record, Records

LEMMA StreamRecordIsTyped == ASSUME LogsInv PROVE StreamRecord \in Records
  BY LenProperties DEF StreamRecord, Record, Records, Held, LogsInv

\* What seal announces and what it then records.
LEMMA SealingLogs ==
    ASSUME TypeOK, LogsInv
    PROVE  /\ [i \in 1 .. Len(RetainedInOrder) |-> Event("artifact_recorded")] \o <<Stop>>
                \in Seq(Events)
           /\ Listing \o <<StreamRecord>> \in Seq(Records)
  <1> DEFINE n == Len(RetainedInOrder)
             A == [i \in 1 .. n |-> Event("artifact_recorded")]
  <1>1. n \in Nat /\ \A i \in 1 .. n : RetainedInOrder[i] \in Files
    <2>1. RetainedInOrder \in Seq(retained) /\ retained \subseteq Files
      BY ListingIsRetained DEF TypeOK, Files
    <2> QED
      BY <2>1, LenProperties, ElementOfSeq
  <1>2. Event("artifact_recorded") \in Events /\ Stop \in Events
    BY ControlEvents, StopIsQuiet DEF Quiet, EventTypes, AdapterTypes, TypeOK
  <1>3. A \in Seq(Events)
    BY <1>1, <1>2, SeqDef
  <1>4. \A i \in 1 .. n : Record(RetainedInOrder[i], 0, ContentOf(RetainedInOrder[i])) \in Records
    BY <1>1, RecordIsTyped
  <1>5. Listing \in Seq(Records)
    BY <1>1, <1>4, SeqDef DEF Listing
  <1>6. StreamRecord \in Records
    BY StreamRecordIsTyped
  <1>7. <<Stop>> \in Seq(Events) /\ <<StreamRecord>> \in Seq(Records)
    BY <1>2, <1>6, ShortSequences
  <1> HIDE DEF A
  <1>8. A \o <<Stop>> \in Seq(Events) /\ Listing \o <<StreamRecord>> \in Seq(Records)
    BY <1>3, <1>5, <1>7, ConcatProperties
  <1> QED
    BY <1>8 DEF A

LEMMA LogsHold == TypeOK /\ LogsInv /\ [Next]_vars => LogsInv'
  <1> SUFFICES ASSUME TypeOK, LogsInv, [Next]_vars PROVE LogsInv'
    OBVIOUS
  <1>1. <<>> \in Seq(Events) /\ <<>> \in Seq(Records)
    BY EmptySeq
  <1>2. CASE Emit \/ EmitLeak \/ EmitRefused \/ EmitUnsynced \/ EmitShort
    <2>1. todo # <<>> /\ Head(todo) \in Events /\ Tail(todo) \in Seq(Events)
      <3>1. todo # <<>>
        BY <1>2 DEF Emit, EmitLeak, EmitRefused, EmitUnsynced, EmitShort
      <3> QED
        BY <3>1, HeadTailProperties DEF LogsInv
    <2>2. Append(stream, Stamped(Head(todo))) \in Seq(Events)
      <3>1. Stamped(Head(todo)) \in Events
        BY <2>1, StampedIsAnEvent DEF TypeOK
      <3> QED
        BY <3>1, AppendProperties DEF LogsInv
    <2>3. /\ stream' \in {stream, Append(stream, Stamped(Head(todo)))}
          /\ todo' \in {<<>>, Tail(todo)}
          /\ UNCHANGED manifest /\ pending' \in {<<>>, pending}
      BY <1>2 DEF Emit, EmitLeak, EmitRefused, EmitUnsynced, EmitShort, Raise, diskVars
    <2> QED
      BY <1>1, <2>1, <2>2, <2>3 DEF LogsInv
  <1>3. CASE Launch
    <2>1. PICK end \in Ends, wall \in WallSeconds :
            todo' = (IF end = "launch-error" THEN <<Event("error")>>
                     ELSE <<Event("command_started"), Event("command_completed")>>)
                    \o (IF wall > Budget["wall"] THEN <<Event("error")>> ELSE <<>>)
                    \o <<BudgetUpdate([wall |-> wall], <<>>)>>
      BY <1>3 DEF Launch
    <2>2. wall \in Nat /\ (wall > Budget["wall"]) \in BOOLEAN
      BY SessionAssumption
    <2>3. todo' \in Seq(Events)
      BY <2>1, <2>2, LaunchEvents, Zenon
    <2> QED
      BY <1>3, <2>3 DEF Launch, LogsInv, diskVars
  <1>4. CASE Construct
    <2>1. todo' \in Seq(Events)
      <3>1. CASE process.end = "launch-error" /\ HasUsage
        <4>1. Attest([u \in Units |-> 0], "seal")
          BY <1>4, <3>1 DEF Construct
        <4> QED
          BY <4>1, AttestationEffect
      <3>2. CASE ~ (process.end = "launch-error" /\ HasUsage)
        BY <1>4, <3>2 DEF Construct, LogsInv
      <3> QED
        BY <3>1, <3>2
    <2> QED
      BY <1>4, <2>1 DEF Construct, LogsInv, diskVars
  <1>5. CASE Normalized
    <2>1. todo' \in Seq(Events)
      BY <1>5, AttestationEffect DEF Normalized, TypeOK
    <2> QED
      BY <1>5, <2>1 DEF Normalized, LogsInv, diskVars
  <1>6. ASSUME NEW r \in AdapterResults, ApplyNormalization(r) PROVE LogsInv'
    <2>1. AdapterEvents(r) \in Seq(Events)
      BY AdapterEventsAreEvents DEF TypeOK
    <2> QED
      BY <1>6, <2>1 DEF ApplyNormalization, LogsInv, diskVars
  <1>7. CASE SealAnnounce \/ HashStream
    BY <1>7, SealingLogs DEF SealAnnounce, HashStream, Listing, LogsInv, diskVars
  <1>8. CASE RecordArtifact \/ RecordRefused \/ RecordUnsynced \/ RecordShort
    <2>1. /\ Head(pending) \in Records /\ Tail(pending) \in Seq(Records)
          /\ Append(manifest, Head(pending)) \in Seq(Records)
      <3>1. pending # <<>>
        BY <1>8 DEF RecordArtifact, RecordRefused, RecordUnsynced, RecordShort
      <3> QED
        BY <3>1, HeadTailProperties, AppendProperties DEF LogsInv
    <2>2. /\ manifest' \in {manifest, Append(manifest, Head(pending))}
          /\ pending' \in {<<>>, Tail(pending)}
          /\ UNCHANGED stream /\ todo' \in {<<>>, todo}
      BY <1>8 DEF RecordArtifact, RecordRefused, RecordUnsynced, RecordShort, Raise, diskVars
    <2> QED
      BY <1>1, <2>1, <2>2 DEF LogsInv
  <1>9. CASE CaptureFails \/ SealRefused \/ SealRejected \/ HostEnds
    BY <1>1, <1>9 DEF CaptureFails, SealRefused, SealRejected, HostEnds, Raise, LogsInv, diskVars
  <1>10. CASE \/ RequestSeal \/ Sealed \/ Ended \/ UNCHANGED vars
              \/ \E r \in AdapterResults : ClaimRefused(r)
              \/ \E f \in RawFiles : LeaveFile(f) \/ RemoveFile(f)
    BY <1>10 DEF RequestSeal, Sealed, Ended, vars, ClaimRefused, LeaveFile, RemoveFile, LogsInv,
       diskVars
  <1> QED
    BY <1>2, <1>3, <1>4, <1>5, <1>6, <1>7, <1>8, <1>9, <1>10 DEF Next

LEMMA LogsAreTyped == Spec => [](TypeOK /\ LogsInv)
  <1>1. Init => LogsInv
    <2>1. Event("run_started") \in Events /\ Event("preflight_completed") \in Events
      BY ControlEvents DEF Quiet, EventTypes, AdapterTypes
    <2> QED
      BY <2>1, ShortSequences, EmptySeq DEF Init, LogsInv
  <1>2. TypeOK /\ LogsInv /\ [Next]_vars => (TypeOK /\ LogsInv)'
    BY TypesHold, LogsHold
  <1> QED
    BY <1>1, <1>2, TypeCorrect, PTL DEF Spec

-----------------------------------------------------------------------------
(* The logs only grow.                                                     *)

LEMMA AppendExtends ==
    ASSUME NEW S, NEW log \in Seq(S), NEW e \in S
    PROVE  Extends(log, log) /\ Extends(log, Append(log, e))
  <1>1. Len(log) \in Nat /\ \A i \in 1 .. Len(log) : log[i] \in S
    BY LenProperties, ElementOfSeq
  <1>2. /\ Append(log, e) \in Seq(S) /\ Len(Append(log, e)) = Len(log) + 1
        /\ \A i \in 1 .. Len(log) : Append(log, e)[i] = log[i]
    BY <1>1, AppendProperties
  <1>3. ASSUME NEW longer, \A i \in 1 .. Len(log) : longer[i] = log[i]
        PROVE  SubSeq(longer, 1, Len(log)) = log
    <2>1. \A i \in 1 .. Len(log) : longer[i] \in S
      BY <1>1, <1>3
    <2>2. /\ SubSeq(longer, 1, Len(log)) \in Seq(S)
          /\ Len(SubSeq(longer, 1, Len(log))) = IF 1 <= Len(log) THEN Len(log) - 1 + 1 ELSE 0
          /\ \A i \in 1 .. (Len(log) - 1 + 1) :
               SubSeq(longer, 1, Len(log))[i] = longer[1 + i - 1]
      BY <1>1, <2>1, SubSeqProperties
    <2>3. Len(SubSeq(longer, 1, Len(log))) = Len(log)
      BY <1>1, <2>2
    <2>4. \A i \in 1 .. Len(log) : SubSeq(longer, 1, Len(log))[i] = log[i]
      BY <1>1, <1>3, <2>2
    <2> QED
      BY <2>2, <2>3, <2>4, SeqEqual
  <1>4. SubSeq(log, 1, Len(log)) = log
    BY <1>3
  <1>5. SubSeq(Append(log, e), 1, Len(log)) = log
    BY <1>2, <1>3
  <1> QED
    BY <1>1, <1>2, <1>4, <1>5 DEF Extends

\* What a step may append.
LEMMA StepAppends ==
    ASSUME [Next]_vars
    PROVE  /\ \/ UNCHANGED stream
              \/ /\ todo # <<>> /\ Appendable
                 /\ stream' = Append(stream, Stamped(Head(todo)))
           /\ \/ UNCHANGED manifest
              \/ /\ pending # <<>> /\ Recordable(Head(pending))
                 /\ manifest' = Append(manifest, Head(pending))
           /\ torn \subseteq torn'
  <1>1. CASE Emit \/ EmitLeak \/ EmitRefused \/ EmitUnsynced \/ EmitShort
    BY <1>1 DEF Emit, EmitLeak, EmitRefused, EmitUnsynced, EmitShort, diskVars
  <1>2. CASE RecordArtifact \/ RecordRefused \/ RecordUnsynced \/ RecordShort
    BY <1>2 DEF RecordArtifact, RecordRefused, RecordUnsynced, RecordShort, diskVars
  <1>3. CASE Launch \/ CaptureFails \/ Construct \/ Normalized \/ RequestSeal
    BY <1>3 DEF Launch, CaptureFails, Construct, Normalized, RequestSeal, diskVars
  <1>4. CASE \/ SealRefused \/ SealRejected \/ SealAnnounce \/ HashStream
             \/ Sealed \/ HostEnds \/ Ended \/ UNCHANGED vars
    BY <1>4 DEF SealRefused, SealRejected, SealAnnounce, HashStream, Sealed, HostEnds, Ended,
       vars, diskVars
  <1>5. CASE \/ \E r \in AdapterResults : ClaimRefused(r) \/ ApplyNormalization(r)
             \/ \E f \in RawFiles : LeaveFile(f) \/ RemoveFile(f)
    BY <1>5 DEF ClaimRefused, ApplyNormalization, LeaveFile, RemoveFile, diskVars
  <1> QED
    BY <1>1, <1>2, <1>3, <1>4, <1>5 DEF Next

\* Neither log of an attempt is ever rewritten, whatever fails and whoever
\* calls again.
THEOREM LogsOnlyGrow == Spec => EvidenceOnlyGrows
  <1>1. ASSUME TypeOK, LogsInv, [Next]_vars
        PROVE  /\ Extends(stream, stream') /\ Extends(manifest, manifest')
               /\ torn \subseteq torn'
               /\ (EventStream \in torn) => (stream' = stream)
               /\ ("manifest" \in torn) => (manifest' = manifest)
    <2>1. todo # <<>> => Stamped(Head(todo)) \in Events
      BY <1>1, HeadTailProperties, StampedIsAnEvent DEF LogsInv, TypeOK
    <2>2. pending # <<>> => Head(pending) \in Records
      BY <1>1, HeadTailProperties DEF LogsInv
    <2>3. Extends(stream, stream)
      <3>1. Event("run_stopped") \in Events
        BY ControlEvents DEF Quiet
      <3> QED
        BY <1>1, <3>1, AppendExtends DEF LogsInv
    <2>4. Extends(manifest, manifest)
      <3>1. Record(EventStream, 0, "events") \in Records
        BY DEF Record, Records, Held
      <3> QED
        BY <1>1, <3>1, AppendExtends DEF LogsInv
    <2>5. Extends(stream, stream')
      BY <1>1, <2>1, <2>3, StepAppends, AppendExtends DEF LogsInv
    <2>6. Extends(manifest, manifest')
      BY <1>1, <2>2, <2>4, StepAppends, AppendExtends DEF LogsInv
    <2>7. /\ torn \subseteq torn'
          /\ (EventStream \in torn) => (stream' = stream)
          /\ ("manifest" \in torn) => (manifest' = manifest)
      BY <1>1, StepAppends DEF Appendable, Recordable
    <2> QED
      BY <2>5, <2>6, <2>7
  <1> QED
    BY <1>1, LogsAreTyped, PTL DEF Spec, EvidenceOnlyGrows

-----------------------------------------------------------------------------
(* Nothing is missing from the stream, or in it twice.                     *)

(* The numbers of the stream count its events, and _sequence is ahead of   *)
(* them only behind a broken line; an append that failed in fsync leaves   *)
(* it behind them, and the next one is refused.                            *)
GapInv ==
    /\ \A i \in DOMAIN stream : stream[i].seq = i
    /\ EventStream \notin torn => sequence <= Len(stream)

\* The sequence counts an event that was appended, and one that was cut short.
LEMMA SequenceSteps ==
    ASSUME [Next]_vars
    PROVE  \/ sequence' = sequence
           \/ sequence' = sequence + 1 /\ stream' = Append(stream, Stamped(Head(todo)))
                /\ todo # <<>>
           \/ EventStream \in torn'
  <1> USE DEF sessionVars
  <1>1. CASE Emit \/ EmitLeak \/ EmitRefused \/ EmitUnsynced \/ EmitShort
    BY <1>1 DEF Emit, EmitLeak, EmitRefused, EmitUnsynced, EmitShort
  <1>2. CASE RecordArtifact \/ RecordRefused \/ RecordUnsynced \/ RecordShort
    BY <1>2 DEF RecordArtifact, RecordRefused, RecordUnsynced, RecordShort
  <1>3. CASE Launch \/ CaptureFails \/ Construct \/ Normalized \/ RequestSeal
    BY <1>3 DEF Launch, CaptureFails, Construct, Normalized, RequestSeal
  <1>4. CASE \/ SealRefused \/ SealRejected \/ SealAnnounce \/ HashStream
             \/ Sealed \/ HostEnds \/ Ended \/ UNCHANGED vars
    BY <1>4 DEF SealRefused, SealRejected, SealAnnounce, HashStream, Sealed, HostEnds, Ended,
       vars
  <1>5. CASE \/ \E r \in AdapterResults : ClaimRefused(r) \/ ApplyNormalization(r)
             \/ \E f \in RawFiles : LeaveFile(f) \/ RemoveFile(f)
    BY <1>5 DEF ClaimRefused, ApplyNormalization, LeaveFile, RemoveFile
  <1> QED
    BY <1>1, <1>2, <1>3, <1>4, <1>5 DEF Next

LEMMA GapHolds == TypeOK /\ LogsInv /\ GapInv /\ [Next]_vars => GapInv'
  <1> SUFFICES ASSUME TypeOK, LogsInv, GapInv, [Next]_vars PROVE GapInv'
    OBVIOUS
  <1> DEFINE n == Len(stream)
             e == Stamped(Head(todo))
  <1>1. n \in Nat /\ DOMAIN stream = 1 .. n /\ sequence \in Nat
    BY LenProperties DEF LogsInv, TypeOK
  <1>2. CASE todo # <<>> /\ Appendable /\ stream' = Append(stream, e)
    <2>1. e \in Events /\ e.seq = sequence + 1
      BY <1>2, HeadTailProperties, StampedIsAnEvent DEF LogsInv, TypeOK
    <2> HIDE DEF e
    <2>2. /\ Len(stream') = n + 1 /\ DOMAIN stream' = 1 .. (n + 1) /\ stream'[n + 1] = e
          /\ \A i \in 1 .. n : stream'[i] = stream[i]
      <3>1. /\ Append(stream, e) \in Seq(Events) /\ Len(Append(stream, e)) = n + 1
            /\ \A i \in 1 .. n : Append(stream, e)[i] = stream[i]
            /\ Append(stream, e)[n + 1] = e
        BY <1>1, <2>1, AppendProperties DEF LogsInv
      <3> QED
        BY <1>2, <3>1, LenProperties
    <2>3. sequence = n
      <3>1. sequence <= n
        BY <1>2 DEF GapInv, Appendable
      <3>2. CASE n = 0
        BY <1>1, <3>1, <3>2
      <3>3. CASE n # 0
        <4>1. stream # <<>> /\ n \in DOMAIN stream
          BY <1>1, <3>3
        <4>2. stream[n].seq = n /\ stream[n].seq < sequence + 1
          BY <1>2, <4>1 DEF GapInv, Appendable
        <4>3. n < sequence + 1
          BY <4>2, Zenon
        <4> HIDE DEF n
        <4> QED
          BY <1>1, <3>1, <4>3
      <3> QED
        BY <3>2, <3>3
    <2> HIDE DEF n
    <2>4. ASSUME NEW i \in DOMAIN stream' PROVE stream'[i].seq = i
      <3>1. i \in 1 .. n \/ i = n + 1
        BY <1>1, <2>2
      <3> QED
        BY <1>1, <2>1, <2>2, <2>3, <3>1 DEF GapInv
    <2>5. sequence' \in {sequence, sequence + 1} \/ EventStream \in torn'
      BY SequenceSteps
    <2>6. EventStream \notin torn' => sequence' <= Len(stream')
      BY <1>1, <2>2, <2>3, <2>5
    <2> QED
      BY <2>4, <2>6 DEF GapInv
  <1>3. CASE UNCHANGED stream
    <2>1. stream' # Append(stream, e) \/ todo = <<>>
      <3> SUFFICES ASSUME todo # <<>>, stream' = Append(stream, e) PROVE FALSE
        OBVIOUS
      <3>1. e \in Events
        BY HeadTailProperties, StampedIsAnEvent DEF LogsInv, TypeOK
      <3> HIDE DEF e
      <3>2. Len(stream') = n + 1
        BY <3>1, AppendProperties DEF LogsInv
      <3> QED
        BY <1>1, <1>3, <3>2
    <2>2. sequence' = sequence \/ EventStream \in torn'
      BY <2>1, SequenceSteps
    <2>3. EventStream \notin torn' => EventStream \notin torn
      BY StepAppends
    <2> QED
      BY <1>3, <2>2, <2>3 DEF GapInv
  <1> QED
    BY <1>2, <1>3, StepAppends

\* Whatever the disk does and whoever retries, no event on disk is missing or
\* there twice.
THEOREM StreamIsOrdered == Spec => []StreamHasNoGaps
  <1>1. ASSUME Init PROVE GapInv
    <2>1. stream = <<>> /\ sequence = 0
      BY <1>1 DEF Init
    <2>2. DOMAIN stream = 1 .. 0 /\ Len(stream) = 0
      BY <2>1, EmptySeq, LenProperties
    <2> QED
      BY <2>1, <2>2 DEF GapInv
  <1>2. GapInv => StreamHasNoGaps
    BY DEF GapInv, StreamHasNoGaps
  <1> QED
    BY <1>1, <1>2, GapHolds, LogsAreTyped, PTL DEF Spec

-----------------------------------------------------------------------------
(* Where a call may be when it fails, and what a seal closes.              *)

ControlInv ==
    /\ pc = "open" => status = ""
    /\ pc \in {"hash", "record"} => AuthorityOwned
    /\ pc = "record" => todo = <<>>
    /\ pending # <<>> => pc = "record"

SealInv ==
    sealed => /\ pc \in {"idle", "lost", "ended"} /\ todo = <<>> /\ pending = <<>>
              /\ outcome = [status |-> status, usage |-> usage]
              /\ AuthorityOwned

\* A step leaves what a seal closed as it is.
LEMMA SealedSteps ==
    ASSUME SealInv, [Next]_vars, sealed
    PROVE  /\ UNCHANGED <<diskVars, status, usage, retained, sealVars, todo, pending>>
           /\ pc' \in {pc, "ended"}
  <1> USE DEF diskVars, sealVars, sessionVars
  <1>1. CASE Emit \/ EmitLeak \/ EmitRefused \/ EmitUnsynced \/ EmitShort
    BY <1>1 DEF SealInv, Emit, EmitLeak, EmitRefused, EmitUnsynced, EmitShort
  <1>2. CASE Launch \/ CaptureFails \/ Construct \/ Normalized
    BY <1>2 DEF SealInv, Launch, CaptureFails, Construct, Normalized
  <1>3. CASE \E r \in AdapterResults : ClaimRefused(r) \/ ApplyNormalization(r)
    BY <1>3 DEF ClaimRefused, ApplyNormalization, Applying, Open
  <1>4. CASE RequestSeal \/ SealRefused \/ SealRejected \/ SealAnnounce \/ HashStream
    BY <1>4 DEF SealInv, RequestSeal, SealRefused, SealRejected, SealAnnounce, HashStream, Open
  <1>5. CASE RecordArtifact \/ RecordRefused \/ RecordUnsynced \/ RecordShort \/ Sealed
    BY <1>5 DEF SealInv, RecordArtifact, RecordRefused, RecordUnsynced, RecordShort, Sealed
  <1>6. CASE \E f \in RawFiles : LeaveFile(f) \/ RemoveFile(f)
    BY <1>6 DEF SealInv, LeaveFile, RemoveFile
  <1>7. CASE HostEnds \/ Ended \/ UNCHANGED vars
    BY <1>7 DEF SealInv, HostEnds, Ended, vars
  <1> QED
    BY <1>1, <1>2, <1>3, <1>4, <1>5, <1>6, <1>7 DEF Next

\* Only the last step of a seal closes the session.
LEMMA OnlySealedSeals ==
    ASSUME [Next]_vars, sealed'
    PROVE  sealed \/ Sealed
  <1> USE DEF sealVars
  <1>1. CASE Emit \/ EmitLeak \/ EmitRefused \/ EmitUnsynced \/ EmitShort
    BY <1>1 DEF Emit, EmitLeak, EmitRefused, EmitUnsynced, EmitShort
  <1>2. CASE Launch \/ CaptureFails \/ Construct \/ Normalized
    BY <1>2 DEF Launch, CaptureFails, Construct, Normalized
  <1>3. CASE \E r \in AdapterResults : ClaimRefused(r) \/ ApplyNormalization(r)
    BY <1>3 DEF ClaimRefused, ApplyNormalization
  <1>4. CASE RequestSeal \/ SealRefused \/ SealRejected \/ SealAnnounce \/ HashStream
    BY <1>4 DEF RequestSeal, SealRefused, SealRejected, SealAnnounce, HashStream
  <1>5. CASE RecordArtifact \/ RecordRefused \/ RecordUnsynced \/ RecordShort
    BY <1>5 DEF RecordArtifact, RecordRefused, RecordUnsynced, RecordShort
  <1>6. CASE \E f \in RawFiles : LeaveFile(f) \/ RemoveFile(f)
    BY <1>6 DEF LeaveFile, RemoveFile
  <1>7. CASE HostEnds \/ Ended \/ UNCHANGED vars
    BY <1>7 DEF HostEnds, Ended, vars
  <1> QED
    BY <1>1, <1>2, <1>3, <1>4, <1>5, <1>6, <1>7 DEF Next

LEMMA AuthorityKept ==
    UNCHANGED <<status, usage>> /\ AuthorityOwned => AuthorityOwned'
  BY DEF AuthorityOwned, WithinBudget

LEMMA SealHolds == ControlInv /\ SealInv /\ [Next]_vars => SealInv'
  <1> SUFFICES ASSUME ControlInv, SealInv, [Next]_vars, sealed'
               PROVE  /\ pc' \in {"idle", "lost", "ended"} /\ todo' = <<>> /\ pending' = <<>>
                      /\ outcome' = [status |-> status', usage |-> usage']
                      /\ AuthorityOwned'
    BY DEF SealInv
  <1>1. CASE sealed
    <2>1. /\ UNCHANGED <<status, usage, outcome, todo, pending>>
          /\ pc' \in {pc, "ended"}
      BY <1>1, SealedSteps DEF sealVars
    <2>2. AuthorityOwned'
      BY <1>1, <2>1, AuthorityKept DEF SealInv
    <2> QED
      BY <1>1, <2>1, <2>2 DEF SealInv
  <1>2. CASE Sealed
    <2>1. AuthorityOwned'
      BY <1>2, AuthorityKept DEF Sealed, ControlInv, sessionVars
    <2> QED
      BY <1>2, <2>1 DEF Sealed, ControlInv, sessionVars
  <1> QED
    BY <1>1, <1>2, OnlySealedSeals

LEMMA ControlHolds == ControlInv /\ [Next]_vars => ControlInv'
  <1> SUFFICES ASSUME ControlInv, [Next]_vars PROVE ControlInv'
    OBVIOUS
  <1> USE AuthorityKept DEF ControlInv, sessionVars
  <1>1. CASE Emit \/ EmitShort
    BY <1>1 DEF Emit, EmitShort
  <1>2. CASE EmitLeak \/ EmitRefused \/ EmitUnsynced
    BY <1>2 DEF EmitLeak, EmitRefused, EmitUnsynced, Raise
  <1>3. CASE Launch \/ CaptureFails
    BY <1>3 DEF Launch, CaptureFails, Raise
  <1>4. CASE Construct \/ Normalized
    <2>1. pc' \in {"seal", "idle"} /\ UNCHANGED pending /\ pc \in {"construct", "attest"}
      BY <1>4 DEF Construct, Normalized, Attest
    <2> QED
      BY <2>1
  <1>5. ASSUME NEW r \in AdapterResults, ClaimRefused(r) PROVE ControlInv'
    BY <1>5 DEF ClaimRefused, Applying, Idle
  <1>6. ASSUME NEW r \in AdapterResults, ApplyNormalization(r) PROVE ControlInv'
    BY <1>6 DEF ApplyNormalization, Applying, Idle
  <1>7. CASE RequestSeal \/ SealRefused \/ SealRejected
    BY <1>7 DEF RequestSeal, SealRefused, SealRejected, Raise, Idle
  <1>8. CASE SealAnnounce \/ HashStream
    BY <1>8 DEF SealAnnounce, HashStream, SealReady
  <1>9. CASE RecordArtifact \/ RecordRefused \/ RecordUnsynced \/ RecordShort
    BY <1>9 DEF RecordArtifact, RecordRefused, RecordUnsynced, RecordShort, Raise
  <1>10. CASE Sealed
    BY <1>10 DEF Sealed
  <1>11. CASE \E f \in RawFiles : LeaveFile(f) \/ RemoveFile(f)
    BY <1>11 DEF LeaveFile, RemoveFile
  <1>12. CASE HostEnds \/ Ended \/ UNCHANGED vars
    BY <1>12 DEF HostEnds, Ended, vars
  <1> QED
    BY <1>1, <1>2, <1>3, <1>4, <1>5, <1>6, <1>7, <1>8, <1>9, <1>10, <1>11, <1>12 DEF Next

LEMMA ControlIsKept == Spec => [](TypeOK /\ ControlInv /\ SealInv)
  <1>1. Init => ControlInv /\ SealInv
    BY DEF Init, ControlInv, SealInv
  <1> QED
    BY <1>1, ControlHolds, SealHolds, TypeCorrect, PTL DEF Spec

\* No attempt that spent more than its budget is sealed as anything but a
\* stopped run, for every budget, projection and attested use.
THEOREM OverspendingIsStopped == Spec => []OverspendingStopped
  <1>1. SealInv => OverspendingStopped
    <2> SUFFICES ASSUME SealInv, sealed, ~WithinBudget PROVE outcome.status \in Stopped
      BY DEF OverspendingStopped
    <2> QED
      BY DEF SealInv, AuthorityOwned
  <1> QED
    BY <1>1, ControlIsKept, PTL

\* A sealed attempt never changes again, whoever keeps the session and calls.
THEOREM SealIsFinal == Spec => SealedImmutable
  <1>1. ASSUME SealInv, [Next]_vars, sealed
        PROVE  UNCHANGED <<diskVars, status, usage, retained, sealVars>>
    BY <1>1, SealedSteps
  <1> QED
    BY <1>1, ControlIsKept, PTL DEF Spec, SealedImmutable

\* Once something was refused or exceeded, no later call makes the attempt
\* look like an ordinary end again.
THEOREM FailuresStick == Spec => FailureSticks
  <1>1. ASSUME TypeOK, ControlInv, [Next]_vars, status \in Failing
        PROVE  status' \in Failing
    <2> USE DEF sessionVars
    <2>1. "credential-evidence-refused" \in Failing /\ "credential-artifact-refused" \in Failing
      BY DEF Failing
    <2>2. CASE Emit \/ EmitLeak \/ EmitRefused \/ EmitUnsynced \/ EmitShort
      BY <1>1, <2>1, <2>2 DEF Emit, EmitLeak, EmitRefused, EmitUnsynced, EmitShort
    <2>3. CASE Launch
      BY <1>1, <2>3 DEF Launch, ControlInv, Failing, Stopped
    <2>4. CASE Construct \/ Normalized
      <3>1. \/ UNCHANGED status
            \/ \E acc \in [Units -> Nat \cup {Unavailable}], call \in {"seal", "idle"} :
                 Attest(acc, call)
        <4>1. [u \in Units |-> 0] \in [Units -> Nat \cup {Unavailable}]
          OBVIOUS
        <4> QED
          BY <1>1, <2>4, <4>1 DEF Construct, Normalized, TypeOK
      <3>2. status' \in {status} \cup Stopped
        BY <1>1, <3>1, AttestationEffect
      <3> QED
        BY <1>1, <3>2 DEF Failing
    <2>5. CASE \E r \in AdapterResults : ClaimRefused(r) \/ ApplyNormalization(r)
      BY <1>1, <2>1, <2>5 DEF ClaimRefused, ApplyNormalization
    <2>6. CASE \/ CaptureFails \/ RequestSeal \/ SealRefused \/ SealRejected \/ SealAnnounce
               \/ HashStream
      BY <1>1, <2>1, <2>6 DEF CaptureFails, RequestSeal, SealRefused, SealRejected, SealAnnounce,
         HashStream
    <2>7. CASE RecordArtifact \/ RecordRefused \/ RecordUnsynced \/ RecordShort \/ Sealed
      BY <1>1, <2>7 DEF RecordArtifact, RecordRefused, RecordUnsynced, RecordShort, Sealed
    <2>8. CASE \/ HostEnds \/ Ended \/ UNCHANGED vars
               \/ \E f \in RawFiles : LeaveFile(f) \/ RemoveFile(f)
      BY <1>1, <2>8 DEF HostEnds, Ended, vars, LeaveFile, RemoveFile
    <2> QED
      BY <1>1, <2>2, <2>3, <2>4, <2>5, <2>6, <2>7, <2>8 DEF Next
  <1> QED
    BY <1>1, ControlIsKept, PTL DEF Spec, FailureSticks

-----------------------------------------------------------------------------
(* What is retained and what is recorded.                                  *)

(* From the moment a seal announces its records until the session is       *)
(* closed or the call fails, and for ever once it is sealed.               *)
Closing == pc \in {"hash", "record"} \/ sealed

\* Nothing that a seal looked at changes while it closes the session.
LEMMA ClosingSteps ==
    ASSUME SealInv, [Next]_vars, Closing'
    PROVE  \/ Closing /\ UNCHANGED <<entries, retained, attested, status, usage>>
           \/ SealAnnounce
  <1>0. sealed => UNCHANGED <<diskVars, status, usage, retained, sealVars>>
    BY SealedSteps
  <1> USE DEF diskVars, sealVars, sessionVars, Closing
  <1>1. CASE sealed
    <2>1. CASE Construct \/ Normalized
      BY <1>1, <2>1 DEF SealInv, Construct, Normalized
    <2>2. CASE UNCHANGED attested
      BY <1>0, <1>1, <2>2
    <2>3. CASE Emit \/ EmitLeak \/ EmitRefused \/ EmitUnsynced \/ EmitShort
      BY <2>2, <2>3 DEF Emit, EmitLeak, EmitRefused, EmitUnsynced, EmitShort
    <2>4. CASE \/ Launch \/ CaptureFails
               \/ \E r \in AdapterResults : ClaimRefused(r) \/ ApplyNormalization(r)
      BY <2>2, <2>4 DEF Launch, CaptureFails, ClaimRefused, ApplyNormalization
    <2>5. CASE RequestSeal \/ SealRefused \/ SealRejected \/ SealAnnounce \/ HashStream
      BY <2>2, <2>5 DEF RequestSeal, SealRefused, SealRejected, SealAnnounce, HashStream
    <2>6. CASE RecordArtifact \/ RecordRefused \/ RecordUnsynced \/ RecordShort \/ Sealed
      BY <2>2, <2>6 DEF RecordArtifact, RecordRefused, RecordUnsynced, RecordShort, Sealed
    <2>7. CASE \/ \E f \in RawFiles : LeaveFile(f) \/ RemoveFile(f)
               \/ HostEnds \/ Ended \/ UNCHANGED vars
      BY <2>2, <2>7 DEF LeaveFile, RemoveFile, HostEnds, Ended, vars
    <2> QED
      BY <2>1, <2>3, <2>4, <2>5, <2>6, <2>7 DEF Next
  <1>2. CASE ~sealed
    <2>1. CASE Emit \/ EmitLeak \/ EmitRefused \/ EmitUnsynced \/ EmitShort
      BY <1>2, <2>1 DEF Emit, EmitLeak, EmitRefused, EmitUnsynced, EmitShort, Raise
    <2>2. CASE Launch \/ CaptureFails
      BY <1>2, <2>2 DEF Launch, CaptureFails, Raise
    <2>3. CASE Construct \/ Normalized
      BY <1>2, <2>3 DEF Construct, Normalized, Attest
    <2>4. CASE \E r \in AdapterResults : ClaimRefused(r) \/ ApplyNormalization(r)
      BY <1>2, <2>4 DEF ClaimRefused, ApplyNormalization, Applying, Idle
    <2>5. CASE RequestSeal \/ SealRefused \/ SealRejected \/ SealAnnounce \/ HashStream
      BY <1>2, <2>5 DEF RequestSeal, SealRefused, SealRejected, HashStream, Raise, Idle
    <2>6. CASE RecordArtifact \/ RecordRefused \/ RecordUnsynced \/ RecordShort \/ Sealed
      BY <1>2, <2>6 DEF RecordArtifact, RecordRefused, RecordUnsynced, RecordShort, Raise, Sealed
    <2>7. CASE \E f \in RawFiles : LeaveFile(f) \/ RemoveFile(f)
      <3>1. \/ pc = "construct" /\ todo # <<>> /\ UNCHANGED <<pc, sealed>>
            \/ Idle /\ UNCHANGED <<pc, sealed>>
        BY <2>7 DEF LeaveFile, RemoveFile
      <3> QED
        BY <1>2, <3>1 DEF Idle
    <2>8. CASE HostEnds \/ Ended \/ UNCHANGED vars
      BY <1>2, <2>8 DEF HostEnds, Ended, vars
    <2> QED
      BY <2>1, <2>2, <2>3, <2>4, <2>5, <2>6, <2>7, <2>8 DEF Next
  <1> QED
    BY <1>1, <1>2

Owned == retained \cup {EventStream}

(* Every raw file on disk is retained and none of them holds a credential. *)
Settled ==
    \A f \in RawFiles :
        IF f \in retained THEN entries[f] \in Retainable ELSE entries[f] = "absent"

(* What a record may say when these files are kept.                        *)
Recorded(r, kept) ==
    /\ r.path \in kept \cup {EventStream}
    /\ r.content \in IF r.path \in RawFiles THEN Retainable ELSE {"written", "events"}

(* Files change between two calls, claimed or not: a seal finds them       *)
(* settled, and what it records of them stays true until it has ended.     *)
RetainedInv ==
    /\ Closing => Settled
    /\ \A i \in DOMAIN manifest : Recorded(manifest[i], retained)
    /\ \A i \in DOMAIN pending : Recorded(pending[i], retained)

LEMMA RetainedGrows == ASSUME [Next]_vars PROVE retained \subseteq retained'
  <1> USE DEF sessionVars
  <1>1. CASE Emit \/ EmitLeak \/ EmitRefused \/ EmitUnsynced \/ EmitShort
    BY <1>1 DEF Emit, EmitLeak, EmitRefused, EmitUnsynced, EmitShort
  <1>2. CASE Launch \/ CaptureFails \/ Construct \/ Normalized \/ RequestSeal
    BY <1>2 DEF Launch, CaptureFails, Construct, Normalized, RequestSeal
  <1>3. CASE \E r \in AdapterResults : ClaimRefused(r) \/ ApplyNormalization(r)
    BY <1>3 DEF ClaimRefused, ApplyNormalization
  <1>4. CASE SealRefused \/ SealRejected \/ SealAnnounce \/ HashStream \/ Sealed
    BY <1>4 DEF SealRefused, SealRejected, SealAnnounce, HashStream, Sealed
  <1>5. CASE RecordArtifact \/ RecordRefused \/ RecordUnsynced \/ RecordShort
    BY <1>5 DEF RecordArtifact, RecordRefused, RecordUnsynced, RecordShort
  <1>6. CASE \/ HostEnds \/ Ended \/ UNCHANGED vars
             \/ \E f \in RawFiles : LeaveFile(f) \/ RemoveFile(f)
    BY <1>6 DEF HostEnds, Ended, vars, LeaveFile, RemoveFile
  <1> QED
    BY <1>1, <1>2, <1>3, <1>4, <1>5, <1>6 DEF Next

\* A seal announces its records only of files that are settled.
LEMMA SettledSteps ==
    ASSUME TypeOK, SealInv, RetainedInv, [Next]_vars, Closing'
    PROVE  Settled'
  <1>1. CASE Closing /\ UNCHANGED <<entries, retained>>
    BY <1>1 DEF RetainedInv, Settled
  <1>2. CASE SealAnnounce
    <2>1. /\ UNCHANGED <<entries, retained>> /\ UnsafeEntries = {} /\ UnownedEntries = {}
          /\ \A f \in retained \cap RawFiles : entries[f] # "absent"
      BY <1>2 DEF SealAnnounce, SealReady, diskVars, sessionVars
    <2>2. ASSUME NEW f \in RawFiles
          PROVE  IF f \in retained THEN entries[f] \in Retainable ELSE entries[f] = "absent"
      <3>1. entries[f] # "unsafe" /\ entries[f] \in {"absent", "unsafe"} \cup Retainable
        BY <2>1 DEF UnsafeEntries, TypeOK, Contents
      <3> QED
        BY <2>1, <3>1 DEF UnownedEntries
    <2> QED
      BY <2>1, <2>2 DEF Settled
  <1> QED
    BY <1>1, <1>2, ClosingSteps

\* A step adds to what is to be recorded only what a seal lists.
LEMMA PendingSteps ==
    ASSUME [Next]_vars
    PROVE  \/ pending' \in {<<>>, pending}
           \/ pending # <<>> /\ pending' = Tail(pending)
           \/ HashStream
  <1>1. CASE Emit \/ EmitLeak \/ EmitRefused \/ EmitUnsynced \/ EmitShort
    BY <1>1 DEF Emit, EmitLeak, EmitRefused, EmitUnsynced, EmitShort, Raise
  <1>2. CASE Launch \/ CaptureFails \/ Construct \/ Normalized \/ RequestSeal
    BY <1>2 DEF Launch, CaptureFails, Construct, Normalized, RequestSeal, Raise
  <1>3. CASE \E r \in AdapterResults : ClaimRefused(r) \/ ApplyNormalization(r)
    BY <1>3 DEF ClaimRefused, ApplyNormalization
  <1>4. CASE SealRefused \/ SealRejected \/ SealAnnounce
    BY <1>4 DEF SealRefused, SealRejected, SealAnnounce, Raise
  <1>5. CASE RecordArtifact \/ RecordRefused \/ RecordUnsynced \/ RecordShort \/ Sealed
    BY <1>5 DEF RecordArtifact, RecordRefused, RecordUnsynced, RecordShort, Raise, Sealed
  <1>6. CASE \/ HostEnds \/ Ended \/ UNCHANGED vars
             \/ \E f \in RawFiles : LeaveFile(f) \/ RemoveFile(f)
    BY <1>6 DEF HostEnds, Ended, vars, LeaveFile, RemoveFile
  <1> QED
    BY <1>1, <1>2, <1>3, <1>4, <1>5, <1>6 DEF Next

LEMMA RetainedHolds ==
    TypeOK /\ LogsInv /\ SealInv /\ RetainedInv /\ [Next]_vars => RetainedInv'
  <1> SUFFICES ASSUME TypeOK, LogsInv, SealInv, RetainedInv, [Next]_vars PROVE RetainedInv'
    OBVIOUS
  <1>1. \A r : Recorded(r, retained) => Recorded(r, retained')
    BY RetainedGrows DEF Recorded
  <1>2. \A i \in DOMAIN manifest' : Recorded(manifest'[i], retained')
    <2>1. CASE UNCHANGED manifest
      BY <1>1, <2>1 DEF RetainedInv
    <2>2. CASE pending # <<>> /\ manifest' = Append(manifest, Head(pending))
      <3>1. Head(pending) \in Records /\ Head(pending) = pending[1] /\ 1 \in DOMAIN pending
        BY <2>2, HeadTailProperties, LenProperties, EmptySeq DEF LogsInv
      <3>2. /\ Len(manifest) \in Nat /\ DOMAIN manifest = 1 .. Len(manifest)
            /\ manifest' \in Seq(Records) /\ Len(manifest') = Len(manifest) + 1
            /\ \A i \in 1 .. Len(manifest) : manifest'[i] = manifest[i]
            /\ manifest'[Len(manifest) + 1] = Head(pending)
        BY <2>2, <3>1, AppendProperties, LenProperties DEF LogsInv
      <3>3. DOMAIN manifest' = 1 .. (Len(manifest) + 1)
        BY <3>2, LenProperties
      <3>4. ASSUME NEW i \in DOMAIN manifest' PROVE Recorded(manifest'[i], retained')
        <4>1. i \in DOMAIN manifest \/ i = Len(manifest) + 1
          BY <3>2, <3>3
        <4> QED
          BY <1>1, <3>1, <3>2, <4>1 DEF RetainedInv
      <3> QED
        BY <3>4
    <2> QED
      BY <2>1, <2>2, StepAppends
  <1>3. \A i \in DOMAIN pending' : Recorded(pending'[i], retained')
    <2>1. CASE pending' = pending
      BY <1>1, <2>1 DEF RetainedInv
    <2>2. CASE pending' = <<>>
      <3>1. DOMAIN pending' = 1 .. 0
        BY <2>2, EmptySeq, LenProperties
      <3> QED
        BY <3>1
    <2>3. CASE pending # <<>> /\ pending' = Tail(pending)
      <3>1. /\ DOMAIN pending' = 1 .. Len(pending') /\ Len(pending') = Len(pending) - 1
            /\ \A i \in 1 .. Len(pending') : pending'[i] = pending[i + 1]
            /\ Len(pending) \in Nat /\ DOMAIN pending = 1 .. Len(pending)
        BY <2>3, HeadTailProperties, LenProperties DEF LogsInv
      <3>2. ASSUME NEW i \in DOMAIN pending' PROVE Recorded(pending'[i], retained')
        <4>1. i + 1 \in DOMAIN pending /\ pending'[i] = pending[i + 1]
          BY <3>1
        <4> QED
          BY <1>1, <4>1 DEF RetainedInv
      <3> QED
        BY <3>2
    <2>4. CASE HashStream
      <3> DEFINE n == Len(RetainedInOrder)
                 Safe == {r \in Records : Recorded(r, retained)}
      <3>1. pending' = Listing \o <<StreamRecord>> /\ Closing
        BY <2>4 DEF HashStream, Closing, Listing
      <3>2. n \in Nat /\ \A i \in 1 .. n : RetainedInOrder[i] \in retained
        BY ListingIsRetained, LenProperties, ElementOfSeq
      <3>3. Listing \in Seq(Safe)
        <4>1. ASSUME NEW f \in retained PROVE Record(f, 0, ContentOf(f)) \in Safe
          <5>1. f \in Files
            BY DEF TypeOK, Files
          <5>2. Record(f, 0, ContentOf(f)) \in Records
            BY <5>1, RecordIsTyped
          <5>3. ContentOf(f) \in IF f \in RawFiles THEN Retainable ELSE {"written", "events"}
            BY <3>1 DEF ContentOf, RetainedInv, Settled
          <5> QED
            BY <5>2, <5>3 DEF Recorded, Record
        <4> QED
          BY <3>2, <4>1, SeqDef DEF Listing
      <3>4. <<StreamRecord>> \in Seq(Safe)
        <4>1. StreamRecord \in Records /\ EventStream \notin RawFiles
          BY StreamRecordIsTyped, SessionAssumption
        <4>2. StreamRecord \in Safe
          BY <4>1 DEF StreamRecord, Record, Recorded
        <4> QED
          BY <4>2, ShortSequences
      <3> HIDE DEF Safe
      <3>5. pending' \in Seq(Safe)
        BY <3>1, <3>3, <3>4, ConcatProperties
      <3>6. \A i \in DOMAIN pending' : pending'[i] \in Safe
        BY <3>5, LenProperties, ElementOfSeq
      <3> QED
        BY <1>1, <3>6 DEF Safe
    <2> QED
      BY <2>1, <2>2, <2>3, <2>4, PendingSteps
  <1> QED
    BY <1>2, <1>3, SettledSteps DEF RetainedInv

LEMMA RetainedIsKept == Spec => []RetainedInv
  <1>1. Init => RetainedInv
    <2> SUFFICES ASSUME Init PROVE RetainedInv
      OBVIOUS
    <2>1. DOMAIN manifest = 1 .. 0 /\ DOMAIN pending = 1 .. 0
      <3>1. manifest = <<>> /\ pending = <<>>
        BY DEF Init
      <3> QED
        BY <3>1, EmptySeq, LenProperties
    <2>2. ~Closing
      BY Zenon DEF Init, Closing
    <2> QED
      BY <2>1, <2>2 DEF RetainedInv
  <1> QED
    BY <1>1, RetainedHolds, LogsAreTyped, ControlIsKept, PTL DEF Spec

\* A file that holds a credential is never recorded as evidence, also when the
\* command, an adapter or the operator wrote or replaced it after its claim was
\* checked.
THEOREM RecordsAreSafe == Spec => []RecordedIsSafe
  <1>1. RetainedInv => RecordedIsSafe
    BY DEF RetainedInv, Recorded, RecordedIsSafe
  <1> QED
    BY <1>1, RetainedIsKept, PTL
=============================================================================
