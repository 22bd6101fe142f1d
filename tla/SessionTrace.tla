----------------------------- MODULE SessionTrace -----------------------------
(***************************************************************************)
(* How a SiRA run becomes evidence: the upstream agent (external code)     *)
(* writes one session file and, for WebArena, one output.jsonl row below   *)
(* the attempt; SiRAAdapter.normalize of giclab.harness.adapters.sira      *)
(* lists the directory, reads the session, reconciles its redundant        *)
(* copies, reads the row, and turns the history into normalized events.    *)
(*                                                                         *)
(* The files can be damaged at any time, also between two looks of the     *)
(* adapter.  An optional value is a set of at most one element.            *)
(***************************************************************************)
EXTENDS Integers, Sequences, FiniteSets, SequencesExt

CONSTANTS
    MaxSteps,   \* SiRACommandConfig.max_steps
    Details,    \* what a step may carry beside its action: subsets of Extras
    RewardLists,\* the reward lists an evaluation may give
    MaxFaults   \* bound: damages in one behaviour

(* What a step may carry beside its action: optional fields of step_info,  *)
(* and texts that become notices, two of them inside obs_info.             *)
Notes == {"last_action_error", "error_prefix", "return_action"}
Extras == {"obs", "obs_info", "state", "plan", "memory_update"} \cup Notes

Actions == {"click", "scroll", "send_msg_to_user"}

ASSUME TraceAssumption ==
    /\ MaxSteps \in Nat \ {0} /\ MaxFaults \in Nat
    /\ Details \subseteq SUBSET Extras
    /\ \A has \in Details :
         has \cap {"error_prefix", "return_action"} # {} => "obs_info" \in has
    /\ \A r \in RewardLists : r \in Seq({0, 1}) /\ r # <<>>

VARIABLES
    task,      \* the task's dataset is WebArena; observations name the last action
    run,       \* what the agent did, step by step
    agent,     \* "acts" | "over"
    outcome,   \* the verdict of the evaluation, recorded for a property only
    sessions,  \* session-like JSON files: name -> content
    row,       \* lines of output.jsonl, when it is there
    pc,        \* where normalize is
    raw,       \* raw_artifacts, the listing
    chosen,    \* session_path
    session,   \* the session it read, once it was reconciled
    result,    \* NormalizationResult: events, unavailable_fields, notices
    (* Bound. *)
    faults

files == <<sessions, row>>
adapterVars == <<pc, raw, chosen, session, result>>
runVars == <<task, run, agent, outcome>>
vars == <<runVars, files, adapterVars, faults>>

NoSession == [goal |-> "other", id |-> "null", history |-> <<>>, complete |-> FALSE,
              error |-> FALSE, rewards |-> {}, verdict |-> {}, readable |-> FALSE]
NoResult == [events |-> <<>>, unavailable |-> {}, notices |-> {}]

Init ==
    /\ task \in [webarena : BOOLEAN, named : BOOLEAN]
    /\ run = <<>> /\ agent = "acts" /\ outcome = 0
    /\ sessions = <<>> /\ row = {}
    /\ pc = "list" /\ raw = {} /\ chosen = "none" /\ session = NoSession /\ result = NoResult
    /\ faults = 0

-----------------------------------------------------------------------------
(* The upstream agent, as far as the adapter relies on it.                 *)

Complete(history) == history # <<>> /\ Last(history).act = "send_msg_to_user"

Prior(history) == IF ~task.named THEN "absent"
                  ELSE IF history = <<>> THEN "" ELSE Last(history).act

Act ==
    /\ agent = "acts" /\ Len(run) < MaxSteps /\ ~Complete(run)
    /\ \E act \in Actions, has \in Details :
         LET plan == IF "plan" \in has THEN "chosen" ELSE "absent" IN
         run' = Append(run, [last |-> Prior(run), goals |-> {"own"}, act |-> act, copy |-> act,
                             plan |-> plan, intent |-> plan, has |-> has \ {"plan"}])
    /\ UNCHANGED <<task, agent, outcome, files, adapterVars, faults>>

Verdict(rewards) == IF \E i \in DOMAIN rewards : rewards[i] > 0 THEN 1 ELSE 0

(* Session file and row are written; error is the text of a failure.       *)
Finish ==
    /\ agent = "acts"
    /\ agent' = "over"
    /\ \E rewards \in RewardLists :
         /\ outcome' = Verdict(rewards)
         /\ sessions' = [own |->
              [goal |-> "own", id |-> IF task.webarena THEN "own" ELSE "null",
               history |-> run, complete |-> Complete(run),
               error |-> ~Complete(run) /\ Len(run) < MaxSteps,
               rewards |-> IF task.webarena THEN {rewards} ELSE {},
               verdict |-> IF task.webarena THEN {outcome'} ELSE {},
               readable |-> TRUE]]
         /\ row' = IF task.webarena
                   THEN {<<[id |-> "own", goal |-> "own", verdict |-> outcome']>>}
                   ELSE {}
    /\ UNCHANGED <<task, run, adapterVars, faults>>

-----------------------------------------------------------------------------
(* Damage, one place at a time.  Of two copies of one thing only one is    *)
(* damaged, and an observation's last action is lost but never invented:   *)
(* nobody forges consistently.                                             *)

DamagedStep(s) ==
    {[s EXCEPT !.last = "absent"], [s EXCEPT !.goals = {"own", "other"}]}
    \cup {[s EXCEPT !.intent = t] : t \in {"absent", "other"}}
    \cup (IF s.copy = s.act
          THEN {[s EXCEPT !.copy = a] : a \in Actions} \cup {[s EXCEPT !.act = a] : a \in Actions}
          ELSE {})

DamagedHistory(h) ==
    {RemoveAt(h, i) : i \in DOMAIN h}
    \cup {InsertAt(h, i, h[i]) : i \in DOMAIN h}
    \cup {[h EXCEPT ![i] = h[i + 1], ![i + 1] = h[i]] : i \in 1 .. Len(h) - 1}
    \cup UNION {{[h EXCEPT ![i] = s] : s \in DamagedStep(h[i])} : i \in DOMAIN h}

DamagedSession(s) ==
    {[s EXCEPT !.goal = "other"], [s EXCEPT !.complete = ~@], [s EXCEPT !.readable = FALSE]}
    \cup {[s EXCEPT !.id = i] : i \in {"null", "other"}}
    \cup {[s EXCEPT !.rewards = r] : r \in {{}, {<<>>}} \cup {{r} : r \in RewardLists}}
    \cup {[s EXCEPT !.verdict = v] : v \in {{}, {0}, {1}}}
    \cup {[s EXCEPT !.history = h] : h \in DamagedHistory(s.history)}

DamagedRow(lines) ==
    {<<>>, lines \o lines}
    \cup {[lines EXCEPT ![i].verdict = 1 - @] : i \in DOMAIN lines}
    \cup {[lines EXCEPT ![i].id = "other"] : i \in DOMAIN lines}

Damage ==
    /\ agent = "over" /\ pc \in {"list", "load", "row"} /\ faults < MaxFaults
    /\ faults' = faults + 1
    /\ \/ \E f \in DOMAIN sessions :
            /\ \/ \E s \in DamagedSession(sessions[f]) \ {sessions[f]} :
                    sessions' = [sessions EXCEPT ![f] = s]
               \/ sessions' = [g \in DOMAIN sessions \ {f} |-> sessions[g]]
               \/ \E g \in {"repeated", "stray"} :
                    sessions' = [n \in DOMAIN sessions \cup {g} |->
                                   IF n = g THEN sessions[f] ELSE sessions[n]]
            /\ UNCHANGED row
       \/ \E lines \in row : \E new \in {{}} \cup {{l} : l \in DamagedRow(lines)} :
            row' = new /\ UNCHANGED sessions
       \/ row = {} /\ row' = {<<[id |-> "other", goal |-> "other", verdict |-> 0]>>}
            /\ UNCHANGED sessions
    /\ UNCHANGED <<runVars, adapterVars>>

-----------------------------------------------------------------------------
(* The adapter reads.                                                      *)

(* Files with the job's name and a timestamp; a stray file has another.    *)
Named == {"own", "repeated"}
SessionFiles(listing) == listing \ {"output.jsonl"}

(* _raw_artifacts and _select_session_artifact *)
ListFiles ==
    /\ agent = "over" /\ pc = "list"
    /\ raw' = DOMAIN sessions \cup (IF row = {} THEN {} ELSE {"output.jsonl"})
    /\ IF \E f \in Named : SessionFiles(raw') = {f}
       THEN /\ pc' = "load"
            /\ chosen' = CHOOSE f \in Named : SessionFiles(raw') = {f}
       ELSE pc' = "refused" /\ UNCHANGED chosen
    /\ UNCHANGED <<runVars, files, session, result, faults>>

(* Mutant: the limit is exclusive. *)
ReconciledBelow(history) ==
    /\ Len(history) < MaxSteps
    /\ \A i \in DOMAIN history :
         /\ history[i].goals \subseteq {"own"}
         /\ history[i].copy = history[i].act
         /\ history[i].plan = history[i].intent
         /\ history[i].last \in {"absent", IF i = 1 THEN "" ELSE history[i - 1].act}

(* Mutant: prior actions are not compared. *)
ReconciledUnchained(history) ==
    /\ Len(history) <= MaxSteps
    /\ \A i \in DOMAIN history :
         /\ history[i].goals \subseteq {"own"}
         /\ history[i].copy = history[i].act
         /\ history[i].plan = history[i].intent

(* The history's part of _reconcile_session. *)
Reconciled(history) ==
    /\ Len(history) <= MaxSteps
    /\ \A i \in DOMAIN history :
         /\ history[i].goals \subseteq {"own"}
         /\ history[i].copy = history[i].act
         /\ history[i].plan = history[i].intent
         /\ history[i].last \in {"absent", IF i = 1 THEN "" ELSE history[i - 1].act}

(* Mutant: test_result is not derived from the rewards again. *)
OutcomeUnderived(s) ==
    IF task.webarena
    THEN s.id = "own" /\ s.rewards \notin {{}, {<<>>}} /\ s.verdict # {}
    ELSE s.id = "null" /\ s.rewards = {} /\ s.verdict = {}

(* _reconcile_webarena_outcome, and its counterpart for other datasets.    *)
OutcomeAgrees(s) ==
    IF task.webarena
    THEN /\ s.id = "own"
         /\ \E rewards \in s.rewards : rewards # <<>> /\ s.verdict = {Verdict(rewards)}
    ELSE s.id = "null" /\ s.rewards = {} /\ s.verdict = {}

(* _load_session and _reconcile_session *)
LoadSession ==
    /\ pc = "load"
    /\ IF /\ chosen \in DOMAIN sessions
          /\ LET s == sessions[chosen] IN
               /\ s.readable /\ s.goal = "own"
               /\ Reconciled(s.history)
               /\ s.complete = Complete(s.history)
               /\ OutcomeAgrees(s)
       THEN pc' = "row" /\ session' = sessions[chosen]
       ELSE pc' = "refused" /\ UNCHANGED session
    /\ UNCHANGED <<runVars, files, raw, chosen, result, faults>>

(* _reconcile_webarena_output_jsonl: the listing says whether there is a   *)
(* row, the file what is in it.                                            *)
RowAgrees ==
    IF task.webarena
    THEN /\ "output.jsonl" \in raw
         /\ \E lines \in row :
              lines = <<[id |-> session.id, goal |-> session.goal,
                         verdict |-> CHOOSE v \in session.verdict : TRUE]>>
    ELSE "output.jsonl" \notin raw

-----------------------------------------------------------------------------
(* _normalize_session: events in source order, and what is missing.        *)

Event(type, step, fields) == [type |-> type, step |-> step, fields |-> fields]

PlanTexts(step) == {f \in {"plan", "intent"} : step[f] # "absent"}

(* The branches that emit. *)
StepEvents(i, step) ==
    <<Event("observation", i, step.has \cap {"obs", "obs_info"})>>
    \o (IF "state" \in step.has THEN <<Event("belief_state", i, {"state"})>> ELSE <<>>)
    \o (IF PlanTexts(step) # {} THEN <<Event("plan", i, PlanTexts(step))>> ELSE <<>>)
    \o <<Event("executed_action", i, {step.act})>>

Outcome == {"rewards", "verdict"}

(* The event of the assignment comes first and refers to the session file. *)
EventsOf(s) ==
    <<Event("regulation_decision", 0, {chosen})>>
    \o FlattenSeq([i \in DOMAIN s.history |-> StepEvents(i, s.history[i])])
    \o <<Event("outcome", 0, IF task.webarena THEN Outcome ELSE {})>>
    \o (IF task.webarena THEN <<Event("metric", 0, {"rewards"}), Event("metric", 0, {"verdict"})>>
        ELSE <<>>)

(* The branches that do not emit say so: event, step, field. *)
NoObservation(i, step) ==
    {<<"observation", i, f>> : f \in {"obs", "obs_info"} \ step.has}

(* Mutant: a step without a belief state is passed over in silence. *)
SilentWithoutBelief(i, step) == {}

NoBelief(i, step) == IF "state" \in step.has THEN {} ELSE {<<"belief_state", i, "state">>}

NoPlan(i, step) ==
    {<<"plan", i, f>> : f \in {g \in {"plan", "intent"} : step[g] = "absent"}}

(* unavailable_fields, those every trace lacks left aside. *)
UnavailableOf(s) ==
    LET h == s.history
    IN  (UNION {NoObservation(i, h[i]) \cup NoBelief(i, h[i]) \cup NoPlan(i, h[i]) :
                i \in DOMAIN h})
        \cup (IF task.webarena THEN {} ELSE {"outcome", "metric"} \X {0} \X Outcome)

(* _source_notices: what a text that is not blank says of a step or of the *)
(* session, as severity, step, text.                                       *)
NoticesOf(s) ==
    LET h == s.history
        With(texts) == {i \in DOMAIN h : texts \subseteq h[i].has}
    IN  ({"warning"} \X With({"last_action_error"}) \X {"last_action_error"})
        \cup ({"warning"} \X With({"obs_info", "error_prefix"}) \X {"error_prefix"})
        \cup ({"error"} \X With({"obs_info", "return_action"}) \X {"return_action"})
        \cup (IF s.error THEN {<<"error", 0, "error">>} ELSE {})

(* The rest of normalize. *)
Normalize ==
    /\ pc = "row"
    /\ IF RowAgrees
       THEN /\ pc' = "normalized"
            /\ result' = [events |-> EventsOf(session), unavailable |-> UnavailableOf(session),
                          notices |-> NoticesOf(session)]
       ELSE pc' = "refused" /\ UNCHANGED result
    /\ UNCHANGED <<runVars, files, raw, chosen, session, faults>>

Over == pc \in {"refused", "normalized"} /\ UNCHANGED vars

Next == Act \/ Finish \/ Damage \/ ListFiles \/ LoadSession \/ Normalize \/ Over

Spec == Init /\ [][Next]_vars

-----------------------------------------------------------------------------
(* Properties.                                                             *)

Normalized == pc = "normalized"

(* What is normalized walks along the run: whatever steps were dropped,    *)
(* repeated or exchanged, and wherever, two steps in a row whose second    *)
(* observation names its last action are a pair of steps the agent took,   *)
(* the first step is a first one when it says so, and a complete run ends  *)
(* with the message the agent sent.                                        *)
FollowsTheRun ==
    Normalized =>
        LET h == session.history IN
        /\ \A i \in 2 .. Len(h) :
             h[i].last # "absent" =>
                 \E j \in 2 .. Len(run) : run[j].act = h[i].act /\ run[j - 1].act = h[i - 1].act
        /\ h # <<>> /\ h[1].last # "absent" => h[1].act = run[1].act
        /\ session.complete => Complete(run) /\ Last(h).act = Last(run).act

(* A WebArena outcome is kept three times: as rewards, as test_result and  *)
(* in the row.  Two damaged copies never change the one that is reported,  *)
(* although session and row are read at different times.                   *)
OutcomeSurvives ==
    Normalized /\ faults <= 2 /\ task.webarena => session.verdict = {outcome}

Severity == [last_action_error |-> "warning", error_prefix |-> "warning",
             return_action |-> "error"]

(* A run nobody disturbed is normalized, to all that it did: each of its   *)
(* actions once, in their order, and for each of the texts that become     *)
(* notices (sira.py:1527-1581) a notice of its severity exactly when it is *)
(* there.                                                                  *)
UndisturbedIsKept ==
    faults = 0 =>
        /\ pc # "refused"
        /\ Normalized =>
             LET events == result.events
                 acts == {k \in DOMAIN events : events[k].type = "executed_action"}
             IN
             /\ \A k, l \in acts : k < l => events[k].step < events[l].step
             /\ {<<events[k].step, events[k].fields>> : k \in acts}
                  = {<<i, {run[i].act}>> : i \in DOMAIN run}
             /\ \A i \in DOMAIN run, n \in Notes :
                  n \in run[i].has <=> <<Severity[n], i, n>> \in result.notices
             /\ <<"error", 0, "error">> \in result.notices
                  <=> ~Complete(run) /\ Len(run) < MaxSteps

(* The event each optional field of a step belongs to.  memory_update is   *)
(* none of them: it is checked to be a text (sira.py:1198) and then dropped*)
(* in silence, although docs/audits/sira/TRACE_FIELD_MAP.yaml:163 lists it.*)
Place == [obs |-> "observation", obs_info |-> "observation", state |-> "belief_state",
          plan |-> "plan", intent |-> "plan"]
Holds(step, f) == IF f \in {"plan", "intent"} THEN step[f] # "absent" ELSE f \in step.has

(* Apart from memory_update nothing is left out in silence, and nothing is *)
(* made up: each optional field of each step and of the outcome is carried *)
(* by its event of that step when the session file has it, else listed as  *)
(* unavailable, and never both.  The code emits and lists in branches of   *)
(* their own (sira.py:1390-1500).                                          *)
AllAccounted ==
    Normalized =>
        LET carried == UNION {{<<e.type, e.step, f>> : f \in e.fields} :
                              e \in {result.events[i] : i \in DOMAIN result.events}}
            Accounted(x, there) == /\ x \in carried <=> there
                                   /\ x \in result.unavailable <=> ~there
        IN  /\ \A i \in DOMAIN session.history, f \in DOMAIN Place :
                 Accounted(<<Place[f], i, f>>, Holds(session.history[i], f))
            /\ \A type \in {"outcome", "metric"}, f \in Outcome :
                 Accounted(<<type, 0, f>>, task.webarena)

=============================================================================
