---------------------------- MODULE EvidenceRules ----------------------------
(***************************************************************************)
(* What giclab accepts as the evidence of one finished run attempt: the    *)
(* offline rules of giclab.harness.events (_typed_events and               *)
(* _completed_stream_errors) and giclab.harness.artifacts                  *)
(* (_validate_budget_history and validate_artifact_directory), as          *)
(* predicates over what is on disk.                                        *)
(*                                                                         *)
(* A file is its path and what it holds; the event stream is its length:   *)
(* it is only ever appended to, so two equal lengths are equal contents.   *)
(***************************************************************************)
EXTENDS Integers, Sequences

CONSTANTS
    Units,        \* the non-wall resources: cost, GPU hours, tokens, tools
    Projection,   \* command.resource_projection, per unit
    Budget,       \* plan.budget, per unit and for "wall"
    NestedStreams \* paths below a directory of the attempt that end in /events.jsonl

Resources == Units \cup {"wall"}

EventStream == "events.jsonl"
ArtifactRecords == "artifact-records.jsonl"

ASSUME RulesAssumption ==
    /\ "wall" \notin Units
    /\ Projection \in [Units -> Nat]
    /\ Budget \in [Resources -> Nat]
    /\ EventStream \notin NestedStreams

Harness == "giclab-harness"
Contracts == {"run-plan.json", "command.json"}

Stopped == {"budget-exceeded", "resource-projection-exceeded"}

(* ResourceProjection.has_usage *)
HasUsage == \E u \in Units : Projection[u] > 0

-----------------------------------------------------------------------------
(* An event of the stream.  Fields an event type does not have are empty.  *)
Event(type) ==
    [seq |-> 0, type |-> type, source |-> Harness, call |-> 0, leaks |-> FALSE,
     status |-> "", usage |-> <<>>, accounting |-> <<>>]

AdapterTypes == {"observation"}

Positions(stream, type) == {i \in DOMAIN stream : stream[i].type = type}

Precedes(A, B) == \A i \in A, j \in B : i < j

AtMostOne(S) == \A i, j \in S : i = j

OneOf(S) == S # {} /\ AtMostOne(S)

(* Sequences increase strictly, and control events belong to the harness.  *)
WellFormedStream(stream) ==
    /\ \A i, j \in DOMAIN stream : i < j => stream[i].seq < stream[j].seq
    /\ \A i \in DOMAIN stream :
         (stream[i].type \in AdapterTypes) <=> (stream[i].source # Harness)

(* The lifecycle of a completed stream. *)
CompletedStream(stream) ==
    LET started   == Positions(stream, "run_started")
        preflight == Positions(stream, "preflight_completed")
        launched  == Positions(stream, "command_started")
        completed == Positions(stream, "command_completed")
        stopped   == Positions(stream, "run_stopped")
    IN  /\ stream # <<>>
        /\ started = {1}
        /\ OneOf(preflight)
        /\ stopped = {Len(stream)} /\ stream[Len(stream)].status # ""
        /\ AtMostOne(launched) /\ AtMostOne(completed)
        /\ launched = {} <=> completed = {}
        /\ Precedes(launched, completed)
        /\ Precedes(started, preflight)
        /\ Precedes(preflight, launched)
        /\ Precedes(preflight, stopped)

TerminalStatus(stream) ==
    IF stream # <<>> /\ stream[Len(stream)].type = "run_stopped"
    THEN stream[Len(stream)].status ELSE ""

(* An attested unit's state agrees with its numeric total. *)
CoherentUnit(u, state, total) ==
    /\ state = "not-applicable" => Projection[u] = 0 /\ total = 0
    /\ state = "unavailable-reserved" => Projection[u] > 0 /\ total = Projection[u]

ValidBudgetHistory(stream) ==
    LET updates == Positions(stream, "budget_update")
        attested == {i \in updates : stream[i].accounting # <<>>}
        Spent(i, f) == stream[i].usage[f]
        exceeded == \E i \in updates : \E f \in DOMAIN stream[i].usage : Spent(i, f) > Budget[f]
        beyond == \E i \in attested, u \in Units :
                     stream[i].accounting[u] = "observed" /\ Spent(i, u) > Projection[u]
    IN  /\ \A i, j \in updates : i < j =>
             \A f \in DOMAIN stream[i].usage \cap DOMAIN stream[j].usage :
                 Spent(i, f) <= Spent(j, f)
        /\ AtMostOne(attested)
        /\ HasUsage => attested # {}
        /\ \A i \in attested, u \in Units :
             CoherentUnit(u, stream[i].accounting[u], Spent(i, u))
        /\ beyond => TerminalStatus(stream) = "resource-projection-exceeded"
        /\ exceeded => TerminalStatus(stream) \in Stopped

(* validate_artifact_directory on an attempt directory: files says what    *)
(* each of its regular files holds, torn names those of its two logs that  *)
(* end in a broken line.  One file only may be named events.jsonl, at any  *)
(* depth.                                                                  *)
ValidDirectory(files, stream, manifest, torn) ==
    LET present == DOMAIN files IN
    /\ manifest # <<>> /\ torn = {}
    /\ \A i, j \in DOMAIN manifest : manifest[i].path = manifest[j].path => i = j
    /\ {manifest[i].path : i \in DOMAIN manifest} = present
    /\ \A i \in DOMAIN manifest :
         /\ manifest[i].content = files[manifest[i].path]
         /\ manifest[i].path = EventStream => manifest[i].size = Len(stream)
    /\ present \cap ({EventStream} \cup NestedStreams) = {EventStream}
    /\ Contracts \subseteq present
    /\ WellFormedStream(stream)
    /\ CompletedStream(stream)
    /\ ValidBudgetHistory(stream)

=============================================================================
