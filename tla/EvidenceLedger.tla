--------------------------- MODULE EvidenceLedger ---------------------------
(***************************************************************************)
(* What the evidence of one run attempt promises its reader: events are    *)
(* written first and in order, records second and once per file, and the   *)
(* attempt is sealed when its last record says how long the event stream   *)
(* is.  Nothing written is ever taken back, and nothing follows the seal.  *)
(***************************************************************************)
EXTENDS Integers, Sequences

CONSTANTS
    Paths,        \* the files an attempt may retain
    Contents,     \* what a retained file may hold
    StreamPath    \* the one of them that holds the events

VARIABLES
    events,    \* sequence numbers, in the order they were written
    records,   \* [path, size, content] per retained file
    phase      \* "events", "records" or "sealed"

ledgerVars == <<events, records, phase>>

LedgerInit == events = <<>> /\ records = <<>> /\ phase = "events"

WriteEvent ==
    /\ phase = "events"
    /\ events' = Append(events, Len(events) + 1)
    /\ UNCHANGED <<records, phase>>

(* The record of the stream gives its length, and is the last one. *)
WriteRecord ==
    /\ phase \in {"events", "records"}
    /\ \A i \in DOMAIN records : records[i].path # StreamPath
    /\ \E path \in Paths, size \in 0 .. Len(events), content \in Contents :
         /\ \A i \in DOMAIN records : records[i].path # path
         /\ path = StreamPath => size = Len(events)
         /\ records' = Append(records, [path |-> path, size |-> size, content |-> content])
    /\ phase' = "records"
    /\ UNCHANGED events

Seal ==
    /\ phase = "records"
    /\ records[Len(records)].path = StreamPath
    /\ phase' = "sealed"
    /\ UNCHANGED <<events, records>>

LedgerNext == WriteEvent \/ WriteRecord \/ Seal

LedgerSpec == LedgerInit /\ [][LedgerNext]_ledgerVars
=============================================================================
