----------------------------- MODULE TraceProofs -----------------------------
(***************************************************************************)
(* Theorems about SessionTrace: for runs of any length, whatever a step    *)
(* carries, and however often and wherever the files are damaged.          *)
(***************************************************************************)
EXTENDS SessionTrace, SequenceTheorems, WellFoundedInduction, TLAPS

-----------------------------------------------------------------------------
(* What the files hold.                                                    *)

Steps ==
    [last : {"absent", ""} \cup Actions, goals : SUBSET {"own", "other"}, act : Actions,
     copy : Actions, plan : {"absent", "chosen"}, intent : {"absent", "chosen", "other"},
     has : SUBSET Extras]

SessionsWith(histories) ==
    [goal : {"own", "other"}, id : {"null", "own", "other"}, history : histories,
     complete : BOOLEAN, error : BOOLEAN, rewards : SUBSET Seq({0, 1}), verdict : SUBSET {0, 1},
     readable : BOOLEAN]

(* A step of a session file stems from one of the run: it lost the run's   *)
(* last action or kept it, and one of its two copies of the action is the  *)
(* run's.                                                                  *)
Stemming ==
    {s \in Steps : \E j \in DOMAIN run :
        /\ s.last \in {"absent", run[j].last}
        /\ run[j].act \in {s.act, s.copy}}

(* What the run looks like at one of its steps.                            *)
StepOf(r, j) ==
    /\ r[j].last = IF ~task.named THEN "absent" ELSE IF j = 1 THEN "" ELSE r[j - 1].act
    /\ r[j].goals = {"own"} /\ r[j].copy = r[j].act /\ r[j].plan = r[j].intent
    /\ j < Len(r) => r[j].act # "send_msg_to_user"
    /\ r[j].has \cap {"error_prefix", "return_action"} # {} => "obs_info" \in r[j].has

(* What the agent did, and that nothing is written before it is over.      *)
RunInv ==
    /\ task \in [webarena : BOOLEAN, named : BOOLEAN]
    /\ run \in Seq(Steps) /\ Len(run) <= MaxSteps
    /\ \A j \in DOMAIN run : StepOf(run, j)
    /\ agent \in {"acts", "over"}
    /\ agent = "acts" =>
         pc = "list" /\ sessions = <<>> /\ row = {} /\ faults = 0 /\ session = NoSession

(* Every step of every file stems from the run.                            *)
FilesInv ==
    /\ \A f \in DOMAIN sessions : sessions[f] \in SessionsWith(Seq(Stemming))
    /\ session \in SessionsWith(Seq(Stemming))

(* What the adapter has seen, and what it makes of it.                     *)
AdapterInv ==
    /\ pc \in {"list", "load", "row", "refused", "normalized"}
    /\ pc \in {"load", "row", "normalized"} => chosen \in Named
    /\ pc \in {"row", "normalized"} =>
         /\ Reconciled(session.history) /\ session.complete = Complete(session.history)
         /\ OutcomeAgrees(session)
    /\ pc = "normalized" =>
         /\ RowAgrees
         /\ result = [events |-> EventsOf(session), unavailable |-> UnavailableOf(session),
                       notices |-> NoticesOf(session)]

(* How many of a session's two copies of the outcome are wrong, and        *)
(* whether the row's is.                                                   *)
WrongIn(s) ==
    (IF \E rewards \in s.rewards : Verdict(rewards) # outcome THEN 1 ELSE 0)
    + (IF s.verdict \subseteq {outcome} THEN 0 ELSE 1)

WrongRow == IF \E lines \in row : \E i \in DOMAIN lines : lines[i].verdict # outcome THEN 1 ELSE 0

(* Each wrong copy is a damage of its own.                                 *)
OutcomeInv ==
    /\ faults \in Nat
    /\ \A f \in DOMAIN sessions : WrongIn(sessions[f]) + WrongRow <= faults
    /\ WrongIn(session) + WrongRow <= faults

(* What the agent's end writes.                                            *)
Written(rewards) ==
    [goal |-> "own", id |-> IF task.webarena THEN "own" ELSE "null",
     history |-> run, complete |-> Complete(run),
     error |-> ~Complete(run) /\ Len(run) < MaxSteps,
     rewards |-> IF task.webarena THEN {rewards} ELSE {},
     verdict |-> IF task.webarena THEN {outcome} ELSE {},
     readable |-> TRUE]

WrittenRow ==
    IF task.webarena THEN {<<[id |-> "own", goal |-> "own", verdict |-> outcome]>>} ELSE {}

(* As long as nothing is damaged the files are as written, and so is what  *)
(* the adapter saw.                                                        *)
CleanInv ==
    faults = 0 /\ agent = "over" =>
        /\ row = WrittenRow /\ pc # "refused"
        /\ \E rewards \in RewardLists :
             /\ outcome = Verdict(rewards) /\ sessions = [own |-> Written(rewards)]
             /\ pc \in {"row", "normalized"} => session = Written(rewards)
        /\ pc # "list" =>
             chosen = "own" /\ raw = {"own"} \cup (IF task.webarena THEN {"output.jsonl"} ELSE {})

-----------------------------------------------------------------------------
(* The last step of a history.                                             *)

LEMMA LastStep ==
    ASSUME NEW h \in Seq(Steps), h # <<>>
    PROVE  /\ Len(h) \in DOMAIN h /\ Last(h) = h[Len(h)]
           /\ DOMAIN h = 1 .. Len(h) /\ Len(h) \in Nat
  BY LenProperties, EmptySeq DEF Last

LEMMA Appended ==
    ASSUME NEW S, NEW s \in Seq(S), NEW e \in S, NEW t, t = Append(s, e)
    PROVE  /\ t \in Seq(S) /\ Len(t) = Len(s) + 1 /\ DOMAIN t = 1 .. (Len(s) + 1)
           /\ \A j \in 1 .. Len(s) : t[j] = s[j]
           /\ t[Len(s) + 1] = e
  BY AppendProperties, LenProperties

LEMMA ActStep ==
    ASSUME RunInv, Act
    PROVE  RunInv'
  <1>1. PICK act \in Actions, has \in Details :
          LET plan == IF "plan" \in has THEN "chosen" ELSE "absent" IN
          run' = Append(run, [last |-> Prior(run), goals |-> {"own"}, act |-> act, copy |-> act,
                              plan |-> plan, intent |-> plan, has |-> has \ {"plan"}])
    BY DEF Act
  <1> DEFINE plan == IF "plan" \in has THEN "chosen" ELSE "absent"
             n == Len(run)
             new == [last |-> Prior(run), goals |-> {"own"}, act |-> act, copy |-> act,
                     plan |-> plan, intent |-> plan, has |-> has \ {"plan"}]
  <1>2. /\ run \in Seq(Steps)
        /\ n \in Nat /\ DOMAIN run = 1 .. n /\ (run = <<>> <=> n = 0)
    BY LenProperties, EmptySeq DEF RunInv
  <1>3. Prior(run) = IF ~task.named THEN "absent" ELSE IF n = 0 THEN "" ELSE run[n].act
    BY <1>2, LastStep DEF Prior
  <1>4. Prior(run) \in {"absent", ""} \cup Actions
    <2>1. n # 0 => run[n] \in Steps
      BY <1>2, ElementOfSeq
    <2>2. n # 0 => run[n].act \in Actions
      BY <2>1 DEF Steps
    <2> QED
      BY <1>3, <2>2
  <1>5. new \in Steps
    <2>1. has \subseteq Extras
      BY TraceAssumption
    <2> QED
      BY <1>4, <2>1 DEF Steps
  <1>6. /\ new.last = Prior(run) /\ new.goals = {"own"} /\ new.copy = new.act
        /\ new.plan = new.intent
        /\ new.has \cap {"error_prefix", "return_action"} # {} => "obs_info" \in new.has
    BY TraceAssumption
  <1>7. run' = Append(run, new)
    BY <1>1
  <1> HIDE DEF new
  <1>8. /\ run' \in Seq(Steps) /\ Len(run') = n + 1 /\ DOMAIN run' = 1 .. (n + 1)
        /\ \A j \in 1 .. n : run'[j] = run[j]
        /\ run'[n + 1] = new
    BY <1>2, <1>5, <1>7, Appended
  <1>9. n < MaxSteps /\ MaxSteps \in Nat /\ (n # 0 => run[n].act # "send_msg_to_user")
    BY <1>2, LastStep, TraceAssumption DEF Act, Complete
  <1>10. UNCHANGED <<task, agent, sessions, row, pc, faults, session>>
    BY DEF Act, files, adapterVars
  <1>11. ASSUME NEW j \in 1 .. (n + 1)
         PROVE  StepOf(run, j)'
    <2> HIDE DEF n
    <2>1. CASE j = n + 1
      <3>1. n # 0 => n \in 1 .. n /\ j - 1 = n /\ run'[j - 1] = run[n]
        BY <1>2, <1>8, <2>1
      <3>2. ~(j < Len(run')) /\ (j = 1 <=> n = 0) /\ run'[j] = new
        BY <1>2, <1>8, <2>1
      <3> QED
        BY <1>3, <1>6, <1>10, <3>1, <3>2 DEF StepOf
    <2>2. CASE j # n + 1
      <3>1. /\ j \in 1 .. n /\ run'[j] = run[j]
            /\ j # 1 => run'[j - 1] = run[j - 1]
            /\ j < n \/ (j = n /\ n # 0)
        BY <1>2, <1>8, <2>2
      <3>2. StepOf(run, j) /\ n = Len(run)
        BY <1>2, <3>1 DEF RunInv, n
      <3> QED
        BY <1>9, <1>10, <3>1, <3>2 DEF StepOf
    <2> QED
      BY <2>1, <2>2
  <1>12. Len(run') <= MaxSteps
    BY <1>2, <1>8, <1>9
  <1> QED
    BY <1>8, <1>10, <1>11, <1>12 DEF RunInv

LEMMA RunStep == RunInv /\ [Next]_vars => RunInv'
  <1> SUFFICES ASSUME RunInv, [Next]_vars PROVE RunInv'
    OBVIOUS
  <1> USE DEF runVars, files, adapterVars
  <1>7. ASSUME UNCHANGED <<task, run, agent>>,
               agent = "acts" =>
                   pc' = "list" /\ sessions' = <<>> /\ row' = {} /\ faults' = 0
                   /\ session' = NoSession
        PROVE  RunInv'
    <2>1. \A j \in DOMAIN run : StepOf(run, j)'
      BY <1>7 DEF RunInv, StepOf
    <2> QED
      BY <1>7, <2>1 DEF RunInv
  <1>1. CASE Act
    BY <1>1, ActStep
  <1>2. CASE Finish
    BY <1>2 DEF Finish, RunInv, StepOf
  <1>3. CASE Damage
    BY <1>3 DEF Damage, RunInv, StepOf
  <1>4. CASE ListFiles
    BY <1>4 DEF ListFiles, RunInv, StepOf
  <1>5. CASE LoadSession \/ Normalize
    <2>1. UNCHANGED <<task, run, agent>> /\ pc \in {"load", "row"}
      BY <1>5 DEF LoadSession, Normalize
    <2>2. agent # "acts"
      BY <2>1 DEF RunInv
    <2> QED
      BY <1>7, <2>1, <2>2
  <1>6. CASE UNCHANGED vars
    <2>1. agent = "acts" =>
              pc' = "list" /\ sessions' = <<>> /\ row' = {} /\ faults' = 0
              /\ session' = NoSession
      BY <1>6 DEF vars, RunInv
    <2>2. UNCHANGED <<task, run, agent>>
      BY <1>6 DEF vars
    <2> QED
      BY <1>7, <2>1, <2>2
  <1> QED
    BY <1>1, <1>2, <1>3, <1>4, <1>5, <1>6 DEF Next, Over

-----------------------------------------------------------------------------
(* Damage never makes up a step.                                           *)

LEMMA DamagedStepStems ==
    ASSUME NEW s \in Stemming, NEW t \in DamagedStep(s)
    PROVE  t \in Stemming
  <1>1. /\ s \in Steps
        /\ s \in [last : {"absent", ""} \cup Actions, goals : SUBSET {"own", "other"},
                  act : Actions, copy : Actions, plan : {"absent", "chosen"},
                  intent : {"absent", "chosen", "other"}, has : SUBSET Extras]
    BY DEF Stemming, Steps
  <1>2. PICK j \in DOMAIN run : s.last \in {"absent", run[j].last} /\ run[j].act \in {s.act, s.copy}
    BY DEF Stemming
  <1> SUFFICES t \in Steps /\ t.last \in {"absent", run[j].last} /\ run[j].act \in {t.act, t.copy}
    BY DEF Stemming
  <1>3. CASE t = [s EXCEPT !.last = "absent"]
    BY <1>1, <1>2, <1>3 DEF Steps
  <1>4. CASE t = [s EXCEPT !.goals = {"own", "other"}]
    BY <1>1, <1>2, <1>4 DEF Steps
  <1>5. ASSUME NEW i \in {"absent", "other"}, t = [s EXCEPT !.intent = i]
        PROVE  t \in Steps /\ t.last \in {"absent", run[j].last} /\ run[j].act \in {t.act, t.copy}
    BY <1>1, <1>2, <1>5 DEF Steps
  <1>6. ASSUME s.copy = s.act, NEW a \in Actions,
               t = [s EXCEPT !.copy = a] \/ t = [s EXCEPT !.act = a]
        PROVE  t \in Steps /\ t.last \in {"absent", run[j].last} /\ run[j].act \in {t.act, t.copy}
    BY <1>1, <1>2, <1>6 DEF Steps
  <1> QED
    BY <1>3, <1>4, <1>5, <1>6 DEF DamagedStep

LEMMA DamagedHistoryKept ==
    ASSUME NEW S, NEW h \in Seq(S), \A s \in S : DamagedStep(s) \subseteq S,
           NEW new \in DamagedHistory(h)
    PROVE  new \in Seq(S)
  <1> DEFINE n == Len(h)
  <1>1. n \in Nat /\ DOMAIN h = 1 .. n /\ \A i \in 1 .. n : h[i] \in S
    BY LenProperties, ElementOfSeq
  <1>2. ASSUME NEW i \in 1 .. n PROVE RemoveAt(h, i) \in Seq(S)
    <2>1. SubSeq(h, 1, i - 1) \in Seq(S)
      BY <1>1, SubSeqProperties
    <2>2. SubSeq(h, i + 1, n) \in Seq(S)
      BY <1>1, SubSeqProperties
    <2> QED
      BY <2>1, <2>2, ConcatProperties DEF RemoveAt
  <1>3. ASSUME NEW i \in 1 .. n PROVE InsertAt(h, i, h[i]) \in Seq(S)
    <2>1. SubSeq(h, 1, i - 1) \in Seq(S)
      BY <1>1, SubSeqProperties
    <2>2. SubSeq(h, i, n) \in Seq(S)
      BY <1>1, SubSeqProperties
    <2>3. <<h[i]>> \in Seq(S)
      BY <1>1
    <2>4. SubSeq(h, 1, i - 1) \o <<h[i]>> \in Seq(S)
      BY <2>1, <2>3, ConcatProperties
    <2> QED
      BY <2>2, <2>4, ConcatProperties DEF InsertAt
  <1>4. ASSUME NEW i \in 1 .. n - 1
        PROVE  [h EXCEPT ![i] = h[i + 1], ![i + 1] = h[i]] \in Seq(S)
    <2> DEFINE g == [h EXCEPT ![i] = h[i + 1]]
    <2>1. i \in 1 .. n /\ i + 1 \in 1 .. n
      BY <1>1
    <2>2. g \in Seq(S) /\ Len(g) = n
      BY <1>1, <2>1, ExceptSeq
    <2>3. [g EXCEPT ![i + 1] = h[i]] \in Seq(S)
      <3> HIDE DEF g
      <3> QED
        BY <1>1, <2>1, <2>2, ExceptSeq
    <2>4. [h EXCEPT ![i] = h[i + 1], ![i + 1] = h[i]] = [g EXCEPT ![i + 1] = h[i]]
      OBVIOUS
    <2> QED
      BY <2>3, <2>4
  <1>5. ASSUME NEW i \in 1 .. n, NEW s \in DamagedStep(h[i]) PROVE [h EXCEPT ![i] = s] \in Seq(S)
    BY <1>1, ExceptSeq
  <1> QED
    <2> HIDE DEF n
    <2>1. CASE new \in {RemoveAt(h, i) : i \in DOMAIN h}
      BY <1>1, <1>2, <2>1
    <2>2. CASE new \in {InsertAt(h, i, h[i]) : i \in DOMAIN h}
      BY <1>1, <1>3, <2>2
    <2>3. CASE new \in {[h EXCEPT ![i] = h[i + 1], ![i + 1] = h[i]] : i \in 1 .. Len(h) - 1}
      BY <1>4, <2>3 DEF n
    <2>4. CASE new \in UNION {{[h EXCEPT ![i] = s] : s \in DamagedStep(h[i])} : i \in DOMAIN h}
      BY <1>1, <1>5, <2>4
    <2> QED
      BY <2>1, <2>2, <2>3, <2>4 DEF DamagedHistory

LEMMA DamagedSessionKept ==
    ASSUME NEW S, \A s \in S : DamagedStep(s) \subseteq S,
           NEW s \in SessionsWith(Seq(S)), NEW t \in DamagedSession(s)
    PROVE  /\ t \in SessionsWith(Seq(S))
           /\ t.rewards = s.rewards \/ t.verdict = s.verdict
  <1>1. s.history \in Seq(S)
    BY DEF SessionsWith
  <1>2. CASE \/ t = [s EXCEPT !.goal = "other"] \/ t = [s EXCEPT !.complete = ~@]
             \/ t = [s EXCEPT !.readable = FALSE]
    BY <1>2 DEF SessionsWith
  <1>3. ASSUME NEW i \in {"null", "other"}, t = [s EXCEPT !.id = i]
        PROVE  t \in SessionsWith(Seq(S)) /\ t.rewards = s.rewards
    BY <1>3 DEF SessionsWith
  <1>4. ASSUME NEW r \in {{}, {<<>>}} \cup {{q} : q \in RewardLists}, t = [s EXCEPT !.rewards = r]
        PROVE  t \in SessionsWith(Seq(S)) /\ t.verdict = s.verdict
    <2>1. r \in SUBSET Seq({0, 1})
      <3>1. <<>> \in Seq({0, 1}) /\ RewardLists \subseteq Seq({0, 1})
        BY TraceAssumption, EmptySeq
      <3> QED
        BY <1>4, <3>1
    <2> QED
      BY <1>4, <2>1 DEF SessionsWith
  <1>5. ASSUME NEW v \in {{}, {0}, {1}}, t = [s EXCEPT !.verdict = v]
        PROVE  t \in SessionsWith(Seq(S)) /\ t.rewards = s.rewards
    BY <1>5 DEF SessionsWith
  <1>6. ASSUME NEW h \in DamagedHistory(s.history), t = [s EXCEPT !.history = h]
        PROVE  t \in SessionsWith(Seq(S)) /\ t.rewards = s.rewards
    <2>1. h \in Seq(S)
      BY <1>1, DamagedHistoryKept
    <2> QED
      BY <1>6, <2>1 DEF SessionsWith
  <1> QED
    BY <1>2, <1>3, <1>4, <1>5, <1>6 DEF DamagedSession, SessionsWith

(* A damage hits the files or the row, and of the files one.               *)
LEMMA DamageEffect ==
    ASSUME Damage
    PROVE  /\ agent = "over" /\ faults' = faults + 1
           /\ UNCHANGED <<task, run, agent, outcome, pc, raw, chosen, session, result>>
           /\ \/ sessions' = sessions
              \/ /\ row' = row
                 /\ \A f \in DOMAIN sessions' : \E g \in DOMAIN sessions :
                      sessions'[f] \in {sessions[g]} \cup DamagedSession(sessions[g])
  <1>1. /\ agent = "over" /\ faults' = faults + 1
        /\ UNCHANGED <<task, run, agent, outcome, pc, raw, chosen, session, result>>
    BY DEF Damage, runVars, adapterVars
  <1>2. ASSUME NEW f \in DOMAIN sessions,
               \/ \E s \in DamagedSession(sessions[f]) \ {sessions[f]} :
                    sessions' = [sessions EXCEPT ![f] = s]
               \/ sessions' = [g \in DOMAIN sessions \ {f} |-> sessions[g]]
               \/ \E g \in {"repeated", "stray"} :
                    sessions' = [n \in DOMAIN sessions \cup {g} |->
                                   IF n = g THEN sessions[f] ELSE sessions[n]]
        PROVE  \A e \in DOMAIN sessions' : \E g \in DOMAIN sessions :
                 sessions'[e] \in {sessions[g]} \cup DamagedSession(sessions[g])
    BY <1>2
  <1> QED
    BY <1>1, <1>2 DEF Damage

LEMMA FilesStep == RunInv /\ FilesInv /\ [Next]_vars => FilesInv'
  <1> SUFFICES ASSUME RunInv, FilesInv, [Next]_vars PROVE FilesInv'
    OBVIOUS
  <1> USE DEF runVars, files, adapterVars
  <1>1. CASE Act
    <2>1. UNCHANGED <<sessions, session>> /\ sessions = <<>> /\ session = NoSession
      BY <1>1 DEF Act, RunInv
    <2>2. NoSession \in SessionsWith(Seq(Stemming'))
      BY EmptySeq DEF NoSession, SessionsWith
    <2> QED
      BY <2>1, <2>2 DEF FilesInv, SessionsWith
  <1>2. CASE Finish
    <2>1. run \in Seq(Stemming)
      <3>1. \A j \in 1 .. Len(run) : run[j] \in Stemming
        <4> SUFFICES ASSUME NEW j \in 1 .. Len(run) PROVE run[j] \in Stemming
          OBVIOUS
        <4>1. run[j] \in Steps /\ j \in DOMAIN run
          BY ElementOfSeq, LenProperties DEF RunInv
        <4> QED
          BY <4>1 DEF Stemming
      <3>2. run \in [1 .. Len(run) -> Stemming] /\ Len(run) \in Nat
        BY <3>1, LenProperties DEF RunInv
      <3> QED
        BY <3>2
    <2>2. UNCHANGED <<run, session>>
      BY <1>2 DEF Finish
    <2>3. PICK rewards \in RewardLists :
            /\ outcome' = Verdict(rewards)
            /\ sessions' = [own |->
                 [goal |-> "own", id |-> IF task.webarena THEN "own" ELSE "null",
                  history |-> run, complete |-> Complete(run),
                  error |-> ~Complete(run) /\ Len(run) < MaxSteps,
                  rewards |-> IF task.webarena THEN {rewards} ELSE {},
                  verdict |-> IF task.webarena THEN {outcome'} ELSE {},
                  readable |-> TRUE]]
      BY <1>2 DEF Finish
    <2>4. rewards \in Seq({0, 1}) /\ outcome' \in {0, 1}
      BY <2>3, TraceAssumption DEF Verdict
    <2>5. Complete(run) \in BOOLEAN
      BY DEF Complete
    <2>6. sessions'["own"] \in SessionsWith(Seq(Stemming)) /\ DOMAIN sessions' = {"own"}
      BY <2>1, <2>3, <2>4, <2>5 DEF SessionsWith
    <2>7. Stemming' = Stemming
      BY <2>2 DEF Stemming
    <2> QED
      BY <2>2, <2>6, <2>7 DEF FilesInv, SessionsWith
  <1>3. CASE Damage
    <2>1. Stemming' = Stemming
      BY <1>3, DamageEffect DEF Stemming
    <2>2. \A g \in DOMAIN sessions :
            DamagedSession(sessions[g]) \subseteq SessionsWith(Seq(Stemming))
      BY DamagedStepStems, DamagedSessionKept DEF FilesInv
    <2> QED
      BY <1>3, <2>1, <2>2, DamageEffect DEF FilesInv, SessionsWith
  <1>4. CASE ListFiles \/ Normalize \/ UNCHANGED vars
    BY <1>4 DEF ListFiles, Normalize, vars, FilesInv, SessionsWith, Stemming
  <1>5. CASE LoadSession
    BY <1>5 DEF LoadSession, FilesInv, SessionsWith, Stemming
  <1> QED
    BY <1>1, <1>2, <1>3, <1>4, <1>5 DEF Next, Over

LEMMA AdapterStep == RunInv /\ AdapterInv /\ [Next]_vars => AdapterInv'
  <1> SUFFICES ASSUME RunInv, AdapterInv, [Next]_vars PROVE AdapterInv'
    OBVIOUS
  <1> USE DEF runVars, files, adapterVars
  <1>1. CASE Act \/ Finish
    BY <1>1 DEF Act, Finish, AdapterInv, RunInv
  <1>2. CASE Damage
    <2>1. /\ pc \in {"list", "load", "row"}
          /\ UNCHANGED <<task, pc, chosen, session>>
      BY <1>2 DEF Damage
    <2> QED
      BY <2>1 DEF AdapterInv, OutcomeAgrees
  <1>3. CASE ListFiles
    <2>1. pc' = "load" => chosen' \in Named
      BY <1>3 DEF ListFiles
    <2>2. pc' \in {"load", "refused"}
      BY <1>3 DEF ListFiles
    <2> QED
      BY <2>1, <2>2 DEF AdapterInv
  <1>4. CASE LoadSession
    <2>1. pc = "load" /\ UNCHANGED <<task, chosen>>
      BY <1>4 DEF LoadSession
    <2>2. \/ pc' = "refused"
          \/ /\ pc' = "row" /\ session' = sessions[chosen]
             /\ Reconciled(sessions[chosen].history)
             /\ sessions[chosen].complete = Complete(sessions[chosen].history)
             /\ OutcomeAgrees(sessions[chosen])
      BY <1>4 DEF LoadSession
    <2> QED
      BY <2>1, <2>2 DEF AdapterInv, OutcomeAgrees
  <1>5. CASE Normalize
    <2>1. pc = "row" /\ UNCHANGED <<task, row, raw, chosen, session>>
      BY <1>5 DEF Normalize
    <2>2. \/ pc' = "refused"
          \/ /\ pc' = "normalized" /\ RowAgrees
             /\ result' = [events |-> EventsOf(session), unavailable |-> UnavailableOf(session),
                           notices |-> NoticesOf(session)]
      BY <1>5 DEF Normalize
    <2>3. /\ EventsOf(session)' = EventsOf(session) /\ NoticesOf(session)' = NoticesOf(session)
          /\ UnavailableOf(session)' = UnavailableOf(session) /\ RowAgrees' = RowAgrees
          /\ OutcomeAgrees(session)' = OutcomeAgrees(session)
      BY <2>1 DEF EventsOf, NoticesOf, UnavailableOf, RowAgrees, OutcomeAgrees
    <2> QED
      BY <2>1, <2>2, <2>3 DEF AdapterInv
  <1>6. CASE UNCHANGED vars
    <2>1. UNCHANGED <<task, row, pc, raw, chosen, session, result>>
      BY <1>6 DEF vars
    <2>2. /\ EventsOf(session)' = EventsOf(session) /\ NoticesOf(session)' = NoticesOf(session)
          /\ UnavailableOf(session)' = UnavailableOf(session) /\ RowAgrees' = RowAgrees
          /\ OutcomeAgrees(session)' = OutcomeAgrees(session)
      BY <2>1 DEF EventsOf, NoticesOf, UnavailableOf, RowAgrees, OutcomeAgrees
    <2> QED
      BY <2>1, <2>2 DEF AdapterInv
  <1> QED
    BY <1>1, <1>2, <1>3, <1>4, <1>5, <1>6 DEF Next, Over

LEMMA TraceIsKept == Spec => [](RunInv /\ FilesInv /\ AdapterInv)
  <1>1. Init => RunInv /\ FilesInv /\ AdapterInv
    <2> SUFFICES ASSUME Init PROVE RunInv /\ FilesInv /\ AdapterInv
      OBVIOUS
    <2>1. RunInv
      BY TraceAssumption, EmptySeq DEF Init, RunInv
    <2>2. FilesInv
      BY EmptySeq DEF Init, FilesInv, NoSession, SessionsWith
    <2>3. AdapterInv
      BY DEF Init, AdapterInv
    <2> QED
      BY <2>1, <2>2, <2>3
  <1>2. RunInv /\ FilesInv /\ AdapterInv /\ [Next]_vars => (RunInv /\ FilesInv /\ AdapterInv)'
    BY RunStep, FilesStep, AdapterStep
  <1> QED
    BY <1>1, <1>2, PTL DEF Spec

-----------------------------------------------------------------------------
(* The steps that are normalized.                                          *)

\* A reconciled step is one the agent took, and its observation, where it
\* names an action, names the one before.
LEMMA ReconciledSteps ==
    ASSUME RunInv, NEW h \in Seq(Stemming), Reconciled(h), NEW i \in 1 .. Len(h)
    PROVE  \E j \in DOMAIN run :
             /\ h[i].act = run[j].act
             /\ h[i].last # "absent" => 
                  /\ h[i].last = IF i = 1 THEN "" ELSE h[i - 1].act
                  /\ h[i].last = IF j = 1 THEN "" ELSE run[j - 1].act
  <1>1. h[i] \in Stemming /\ i \in DOMAIN h
    BY ElementOfSeq, LenProperties
  <1>2. PICK j \in DOMAIN run :
          h[i].last \in {"absent", run[j].last} /\ run[j].act \in {h[i].act, h[i].copy}
    BY <1>1 DEF Stemming
  <1>3. /\ h[i].copy = h[i].act
        /\ h[i].last \in {"absent", IF i = 1 THEN "" ELSE h[i - 1].act}
    BY <1>1 DEF Reconciled
  <1>4. StepOf(run, j)
    BY DEF RunInv
  <1> QED
    BY <1>2, <1>3, <1>4 DEF StepOf

LEMMA ActsOfSteps ==
    ASSUME NEW h \in Seq(Steps) PROVE \A i \in 1 .. Len(h) : h[i].act \in Actions
  <1> SUFFICES ASSUME NEW i \in 1 .. Len(h) PROVE h[i].act \in Actions
    OBVIOUS
  <1>1. h[i] \in Steps
    BY ElementOfSeq
  <1> QED
    BY <1>1 DEF Steps

LEMMA StemmingSteps == Seq(Stemming) \subseteq Seq(Steps)
  <1>1. Stemming \subseteq Steps
    BY DEF Stemming
  <1> QED
    BY <1>1, SeqMonotonic

\* What is normalized walks along the run, whatever happened to the files:
\* _reconcile_session compares each observation's last action with the
\* action before it.
THEOREM WalksAlongTheRun == Spec => []FollowsTheRun
  <1>1. ASSUME RunInv, FilesInv, AdapterInv, Normalized PROVE FollowsTheRun
    <2> DEFINE h == session.history
    <2>1. /\ h \in Seq(Stemming) /\ Reconciled(h) /\ session.complete = Complete(h)
      BY <1>1 DEF FilesInv, AdapterInv, Normalized, SessionsWith
    <2> HIDE DEF h
    <2>2. \A i \in 1 .. Len(h) : h[i].act \in Actions
      BY <2>1, StemmingSteps, ActsOfSteps
    <2>3. Len(h) \in Nat /\ DOMAIN h = 1 .. Len(h) /\ (h # <<>> => Len(h) > 0)
      BY <2>1, LenProperties, EmptySeq
    <2>4. Len(run) \in Nat /\ DOMAIN run = 1 .. Len(run) /\ \A j \in 1 .. Len(run) : run[j].act \in Actions
      BY <1>1, LenProperties, ActsOfSteps DEF RunInv
    <2>5. ASSUME NEW i \in 2 .. Len(h), h[i].last # "absent"
          PROVE  \E j \in 2 .. Len(run) : run[j].act = h[i].act /\ run[j - 1].act = h[i - 1].act
      <3>1. i \in 1 .. Len(h) /\ i # 1 /\ i - 1 \in 1 .. Len(h)
        BY <2>3
      <3>2. PICK j \in DOMAIN run :
              /\ h[i].act = run[j].act
              /\ h[i].last = h[i - 1].act
              /\ h[i].last = IF j = 1 THEN "" ELSE run[j - 1].act
        BY <1>1, <2>1, <2>5, <3>1, ReconciledSteps
      <3>3. h[i - 1].act # ""
        BY <2>2, <3>1 DEF Actions
      <3>4. j # 1 /\ j \in 2 .. Len(run)
        <4>1. j # 1
          BY <3>2, <3>3
        <4> QED
          BY <2>4, <4>1
      <3> QED
        BY <3>2, <3>4
    <2>6. ASSUME h # <<>>, h[1].last # "absent" PROVE h[1].act = run[1].act
      <3>1. PICK j \in DOMAIN run :
              /\ h[1].act = run[j].act
              /\ "" = IF j = 1 THEN "" ELSE run[j - 1].act
        <4>1. 1 \in 1 .. Len(h)
          BY <2>3, <2>6
        <4>2. PICK j \in DOMAIN run :
                /\ h[1].act = run[j].act
                /\ h[1].last # "absent" =>
                     /\ h[1].last = ""
                     /\ h[1].last = IF j = 1 THEN "" ELSE run[j - 1].act
          BY <1>1, <2>1, <4>1, ReconciledSteps
        <4> QED
          BY <2>6, <4>2
      <3>2. j = 1
        <4> SUFFICES ASSUME j # 1 PROVE FALSE
          OBVIOUS
        <4>1. j - 1 \in 1 .. Len(run)
          BY <2>4
        <4> QED
          BY <2>4, <3>1, <4>1 DEF Actions
      <3> QED
        BY <3>1, <3>2
    <2>7. ASSUME session.complete PROVE Complete(run) /\ Last(h).act = Last(run).act
      <3>1. h # <<>> /\ Last(h).act = "send_msg_to_user" /\ Last(h) = h[Len(h)]
        BY <2>1, <2>7 DEF Complete, Last
      <3>2. PICK j \in DOMAIN run : h[Len(h)].act = run[j].act
        <4>1. Len(h) \in 1 .. Len(h)
          BY <2>3, <3>1
        <4> QED
          BY <1>1, <2>1, <4>1, ReconciledSteps
      <3>3. j = Len(run) /\ run # <<>>
        <4>1. StepOf(run, j)
          BY <1>1 DEF RunInv
        <4>2. ~(j < Len(run))
          BY <3>1, <3>2, <4>1 DEF StepOf
        <4> QED
          BY <2>4, <4>2
      <3> QED
        BY <3>1, <3>2, <3>3 DEF Complete, Last
    <2> QED
      BY <2>5, <2>6, <2>7 DEF FollowsTheRun, h
  <1>2. RunInv /\ FilesInv /\ AdapterInv => FollowsTheRun
    BY <1>1 DEF FollowsTheRun
  <1> QED
    BY <1>2, TraceIsKept, PTL

-----------------------------------------------------------------------------
(* The outcome, which is kept three times.                                 *)

\* A wrong copy counts one, and a damage leaves one of a session's two
\* copies alone.
LEMMA WrongCopies ==
    /\ WrongRow \in {0, 1}
    /\ \A s : WrongIn(s) \in 0 .. 2
    /\ \A s, t : t.rewards = s.rewards \/ t.verdict = s.verdict => WrongIn(t) <= WrongIn(s) + 1
    /\ \A s : s.rewards = {} /\ s.verdict = {} => WrongIn(s) = 0
  BY DEF WrongRow, WrongIn

LEMMA OutcomeStep == RunInv /\ FilesInv /\ OutcomeInv /\ [Next]_vars => OutcomeInv'
  <1> SUFFICES ASSUME RunInv, FilesInv, OutcomeInv, [Next]_vars PROVE OutcomeInv'
    OBVIOUS
  <1> USE DEF runVars, files, adapterVars
  <1>1. CASE Finish
    <2>1. faults' = 0 /\ session' = NoSession
      BY <1>1 DEF Finish, RunInv
    <2>2. PICK rewards \in RewardLists :
            /\ outcome' = Verdict(rewards)
            /\ sessions' = [own |->
                 [goal |-> "own", id |-> IF task.webarena THEN "own" ELSE "null",
                  history |-> run, complete |-> Complete(run),
                  error |-> ~Complete(run) /\ Len(run) < MaxSteps,
                  rewards |-> IF task.webarena THEN {rewards} ELSE {},
                  verdict |-> IF task.webarena THEN {outcome'} ELSE {},
                  readable |-> TRUE]]
            /\ row' = IF task.webarena
                      THEN {<<[id |-> "own", goal |-> "own", verdict |-> outcome']>>}
                      ELSE {}
      BY <1>1 DEF Finish
    <2>3. /\ sessions'["own"].rewards \subseteq {rewards}
          /\ sessions'["own"].verdict \subseteq {outcome'}
          /\ DOMAIN sessions' = {"own"}
      BY <2>2
    <2>4. WrongIn(sessions["own"])' = 0
      BY <2>2, <2>3 DEF WrongIn
    <2>5. WrongRow' = 0
      <3> DEFINE l == [id |-> "own", goal |-> "own", verdict |-> outcome']
      <3>1. row' \subseteq {<<l>>} /\ l.verdict = outcome'
        BY <2>2
      <3> HIDE DEF l
      <3>2. \A lines \in row' : \A i \in DOMAIN lines : lines[i].verdict = outcome'
        BY <3>1
      <3> QED
        BY <3>2 DEF WrongRow
    <2>6. WrongIn(session)' = 0
      BY <2>1 DEF WrongIn, NoSession
    <2> QED
      BY <2>1, <2>3, <2>4, <2>5, <2>6 DEF OutcomeInv
  <1>2. CASE Damage
    <2>1. /\ faults' = faults + 1 /\ faults \in Nat
          /\ UNCHANGED <<outcome, session>>
      BY <1>2, DamageEffect DEF OutcomeInv
    <2>2. WrongRow' \in {0, 1} /\ (row' = row => WrongRow' = WrongRow)
      BY <2>1 DEF WrongRow
    <2>4. WrongIn(session)' = WrongIn(session)
      BY <2>1 DEF WrongIn
    <2>5. ASSUME NEW f \in DOMAIN sessions' PROVE WrongIn(sessions[f])' + WrongRow' <= faults + 1
      <3>1. CASE sessions' = sessions
        <4>1. WrongIn(sessions[f])' = WrongIn(sessions[f]) /\ f \in DOMAIN sessions
          BY <2>1, <3>1 DEF WrongIn
        <4> QED
          BY <2>1, <2>2, <4>1, WrongCopies DEF OutcomeInv
      <3>2. CASE row' = row /\ \A e \in DOMAIN sessions' : \E g \in DOMAIN sessions :
                   sessions'[e] \in {sessions[g]} \cup DamagedSession(sessions[g])
        <4>1. PICK g \in DOMAIN sessions :
                sessions'[f] \in {sessions[g]} \cup DamagedSession(sessions[g])
          BY <3>2
        <4>2. sessions'[f].rewards = sessions[g].rewards \/ sessions'[f].verdict = sessions[g].verdict
          BY <4>1, DamagedStepStems, DamagedSessionKept DEF FilesInv
        <4>3. WrongIn(sessions[f])' = WrongIn(sessions'[f])
          BY <2>1 DEF WrongIn
        <4>4. WrongIn(sessions'[f]) <= WrongIn(sessions[g]) + 1
          BY <4>2, WrongCopies
        <4> QED
          BY <2>1, <2>2, <3>2, <4>3, <4>4, WrongCopies DEF OutcomeInv
      <3> QED
        BY <1>2, <3>1, <3>2, DamageEffect
    <2> QED
      BY <2>1, <2>2, <2>4, <2>5, WrongCopies DEF OutcomeInv
  <1>3. CASE LoadSession
    <2>1. UNCHANGED <<faults, outcome, sessions, row>> /\ session' \in {session, sessions[chosen]}
      BY <1>3 DEF LoadSession
    <2>2. session' # session => chosen \in DOMAIN sessions
      BY <1>3 DEF LoadSession
    <2> QED
      BY <2>1, <2>2 DEF OutcomeInv, WrongIn, WrongRow
  <1>4. CASE Act \/ ListFiles \/ Normalize \/ UNCHANGED vars
    BY <1>4 DEF Act, ListFiles, Normalize, vars, OutcomeInv, WrongIn, WrongRow
  <1> QED
    BY <1>1, <1>2, <1>3, <1>4 DEF Next, Over

LEMMA OutcomeInvIsKept == Spec => []OutcomeInv
  <1>1. Init => OutcomeInv
    BY DEF Init, OutcomeInv, WrongIn, WrongRow, NoSession
  <1>2. RunInv /\ FilesInv /\ OutcomeInv /\ [Next]_vars => OutcomeInv'
    BY OutcomeStep
  <1> QED
    BY <1>1, <1>2, TraceIsKept, PTL DEF Spec

\* Two damages, to the session or to the row and between the two reads,
\* never change the outcome that is reported: _reconcile_webarena_outcome
\* derives test_result from the rewards and the row is compared with both.
THEOREM OutcomeIsKept == Spec => []OutcomeSurvives
  <1>1. FilesInv /\ AdapterInv /\ OutcomeInv => OutcomeSurvives
    <2> SUFFICES ASSUME FilesInv, AdapterInv, OutcomeInv, pc = "normalized", faults <= 2, task.webarena
                 PROVE  session.verdict = {outcome}
      BY DEF OutcomeSurvives, Normalized
    <2>1. PICK rewards \in session.rewards : session.verdict = {Verdict(rewards)}
      BY DEF AdapterInv, OutcomeAgrees
    <2> SUFFICES ASSUME Verdict(rewards) # outcome PROVE FALSE
      BY <2>1
    <2>2. WrongIn(session) = 2
      BY <2>1 DEF WrongIn
    <2>3. PICK lines \in row :
            lines = <<[id |-> session.id, goal |-> session.goal,
                       verdict |-> CHOOSE v \in session.verdict : TRUE]>>
      BY DEF AdapterInv, RowAgrees
    <2>4. (CHOOSE v \in session.verdict : TRUE) = Verdict(rewards)
      BY <2>1
    <2>5. 1 \in DOMAIN lines /\ lines[1].verdict = Verdict(rewards)
      <3> DEFINE l == [id |-> session.id, goal |-> session.goal,
                       verdict |-> CHOOSE v \in session.verdict : TRUE]
      <3>1. lines = <<l>> /\ l.verdict = Verdict(rewards)
        BY <2>3, <2>4
      <3> HIDE DEF l
      <3> QED
        BY <3>1
    <2>6. WrongRow = 1
      BY <2>3, <2>5 DEF WrongRow
    <2> QED
      BY <2>2, <2>6 DEF OutcomeInv
  <1> QED
    BY <1>1, TraceIsKept, OutcomeInvIsKept, PTL

-----------------------------------------------------------------------------
(* A run nobody disturbs.                                                  *)

\* What the agent's end writes passes every check of the adapter.
LEMMA WrittenIsAccepted ==
    ASSUME RunInv, NEW rewards \in RewardLists, outcome = Verdict(rewards)
    PROVE  /\ Written(rewards).readable /\ Written(rewards).goal = "own"
           /\ Written(rewards).history = run
           /\ Reconciled(run) /\ Written(rewards).complete = Complete(run)
           /\ OutcomeAgrees(Written(rewards))
  <1>1. Reconciled(run)
    BY DEF RunInv, StepOf, Reconciled
  <1>2. OutcomeAgrees(Written(rewards))
    BY TraceAssumption DEF OutcomeAgrees, Written
  <1> QED
    BY <1>1, <1>2 DEF Written

LEMMA CleanStep == RunInv /\ OutcomeInv /\ CleanInv /\ [Next]_vars => CleanInv'
  <1> SUFFICES ASSUME RunInv, OutcomeInv, CleanInv, [Next]_vars, (faults = 0 /\ agent = "over")'
               PROVE  CleanInv'
    BY DEF CleanInv
  <1> USE DEF runVars, files, adapterVars
  <1>1. CASE Act
    BY <1>1 DEF Act
  <1>2. CASE Finish
    <2>1. UNCHANGED <<task, run>> /\ pc' = "list"
      BY <1>2 DEF Finish, RunInv
    <2>2. PICK rewards \in RewardLists :
            /\ outcome' = Verdict(rewards)
            /\ sessions' = [own |->
                 [goal |-> "own", id |-> IF task.webarena THEN "own" ELSE "null",
                  history |-> run, complete |-> Complete(run),
                  error |-> ~Complete(run) /\ Len(run) < MaxSteps,
                  rewards |-> IF task.webarena THEN {rewards} ELSE {},
                  verdict |-> IF task.webarena THEN {outcome'} ELSE {},
                  readable |-> TRUE]]
            /\ row' = IF task.webarena
                      THEN {<<[id |-> "own", goal |-> "own", verdict |-> outcome']>>}
                      ELSE {}
      BY <1>2 DEF Finish
    <2>3. row' = WrittenRow' /\ sessions' = [own |-> Written(rewards)']
      BY <2>1, <2>2 DEF WrittenRow, Written
    <2> QED
      BY <2>1, <2>2, <2>3 DEF CleanInv, Verdict
  <1>3. CASE Damage
    BY <1>3, DamageEffect DEF OutcomeInv
  <1> HIDE DEF runVars, files, adapterVars
  <1>4. ASSUME UNCHANGED <<runVars, files, faults>>
        PROVE  /\ CleanInv => 
                    /\ row = WrittenRow /\ pc # "refused"
                    /\ \E rewards \in RewardLists :
                         /\ outcome = Verdict(rewards) /\ sessions = [own |-> Written(rewards)]
                         /\ pc \in {"row", "normalized"} => session = Written(rewards)
                    /\ pc # "list" =>
                         chosen = "own" /\ raw = {"own"} \cup (IF task.webarena THEN {"output.jsonl"} ELSE {})
               /\ UNCHANGED <<task, run, outcome, sessions, row>> /\ WrittenRow' = WrittenRow
               /\ \A rewards : Written(rewards)' = Written(rewards)
    BY <1>4 DEF CleanInv, runVars, files, WrittenRow, Written
  <1>5. CASE ListFiles
    <2>1. UNCHANGED <<runVars, files, faults>> /\ pc = "list" /\ pc' \in {"load", "refused"}
      BY <1>5 DEF ListFiles
    <2>2. PICK rewards \in RewardLists : outcome = Verdict(rewards) /\ sessions = [own |-> Written(rewards)]
      BY <1>4, <2>1
    <2>3. DOMAIN sessions = {"own"} /\ (row = {} <=> ~task.webarena)
      BY <1>4, <2>1, <2>2 DEF WrittenRow
    <2>4. raw' = {"own"} \cup (IF task.webarena THEN {"output.jsonl"} ELSE {})
      BY <1>5, <2>3 DEF ListFiles
    <2>5. \A f \in Named : SessionFiles(raw') = {f} <=> f = "own"
      BY <2>4 DEF SessionFiles, Named
    <2>6. pc' = "load" /\ chosen' = "own"
      BY <1>5, <2>5 DEF ListFiles, Named
    <2> QED
      BY <1>4, <2>1, <2>2, <2>4, <2>6 DEF CleanInv, Verdict
  <1>6. CASE LoadSession
    <2>1. UNCHANGED <<runVars, files, faults, chosen, raw>> /\ pc = "load"
      BY <1>6 DEF LoadSession
    <2>2. PICK rewards \in RewardLists : outcome = Verdict(rewards) /\ sessions = [own |-> Written(rewards)]
      BY <1>4, <2>1
    <2>3. chosen \in DOMAIN sessions /\ sessions[chosen] = Written(rewards)
      BY <1>4, <2>1, <2>2
    <2>4. pc' = "row" /\ session' = Written(rewards)
      BY <1>6, <2>2, <2>3, WrittenIsAccepted DEF LoadSession
    <2> QED
      BY <1>4, <2>1, <2>2, <2>4 DEF CleanInv, Verdict
  <1>7. CASE Normalize
    <2>1. UNCHANGED <<runVars, files, faults, chosen, raw, session>> /\ pc = "row"
      BY <1>7 DEF Normalize
    <2>2. PICK rewards \in RewardLists :
            outcome = Verdict(rewards) /\ sessions = [own |-> Written(rewards)] /\ session = Written(rewards)
      BY <1>4, <2>1
    <2>3. RowAgrees
      <3>1. task.webarena => (CHOOSE v \in session.verdict : TRUE) = outcome
        BY <2>2 DEF Written
      <3>2. task.webarena => session.id = "own" /\ session.goal = "own"
        BY <2>2 DEF Written
      <3> QED
        BY <1>4, <2>1, <3>1, <3>2 DEF RowAgrees, WrittenRow
    <2>4. pc' = "normalized"
      BY <1>7, <2>3 DEF Normalize
    <2> QED
      BY <1>4, <2>1, <2>2, <2>4 DEF CleanInv, Verdict
  <1>8. CASE UNCHANGED vars
    <2>1. UNCHANGED <<runVars, files, faults, chosen, raw, session, pc>>
      BY <1>8 DEF vars, adapterVars
    <2> QED
      BY <1>4, <2>1 DEF CleanInv, Verdict
  <1> QED
    BY <1>1, <1>2, <1>3, <1>5, <1>6, <1>7, <1>8 DEF Next, Over

-----------------------------------------------------------------------------
(* What FlattenSeq makes of the events of the steps.                       *)

LEMMA LeastNatural ==
    ASSUME NEW S, S \subseteq Nat, S # {}
    PROVE  \E m \in S : \A k \in S : m <= k
  <1>1. \A x, y \in Nat : x < y => <<x, y>> \in OpToRel(<, Nat)
    BY DEF OpToRel
  <1>2. ASSUME NEW R, IsWellFoundedOn(R, Nat), \A x, y \in Nat : x < y => <<x, y>> \in R
        PROVE  \E m \in S : \A k \in S : m <= k
    <2>1. IsWellFoundedOn(R, Nat)
      BY <1>2
    <2>2. PICK m \in S : \A k \in S : ~ (<<k, m>> \in R)
      BY <2>1, WFMin, Zenon
    <2>3. ASSUME NEW k \in S PROVE m <= k
      <3>1. k \in Nat /\ m \in Nat /\ ~ (k < m)
        BY <1>2, <2>2
      <3> QED
        BY <3>1
    <2> QED
      BY <2>3
  <1> QED
    BY <1>1, <1>2, NatLessThanWellFounded

LEMMA SetInduction ==
    ASSUME NEW S, 0 \in S, \A n \in Nat : n \in S => n + 1 \in S
    PROVE  Nat \subseteq S
  <1> SUFFICES ASSUME Nat \ S # {} PROVE FALSE
    OBVIOUS
  <1>1. PICK m \in Nat \ S : \A k \in Nat \ S : m <= k
    BY LeastNatural
  <1>2. m - 1 \in Nat /\ m - 1 \notin Nat \ S
    BY <1>1
  <1> QED
    BY <1>1, <1>2

\* c is a and then b.
IsJoin(c, a, b) ==
    /\ Len(c) = Len(a) + Len(b) /\ Len(a) \in Nat /\ Len(b) \in Nat
    /\ \A k \in 1 .. Len(a) : c[k] = a[k]
    /\ \A k \in 1 .. Len(b) : c[Len(a) + k] = b[k]

LEMMA Joined ==
    ASSUME NEW S, NEW a \in Seq(S), NEW b \in Seq(S)
    PROVE  a \o b \in Seq(S) /\ IsJoin(a \o b, a, b)
  <1>1. Len(a) \in Nat /\ Len(b) \in Nat
    BY LenProperties
  <1> QED
    BY <1>1, ConcatProperties DEF IsJoin

\* Each element of a join is one of its first or of its second part.
LEMMA JoinParts ==
    ASSUME NEW a, NEW b, NEW c, IsJoin(c, a, b), NEW k \in 1 .. Len(c)
    PROVE  \/ k \in 1 .. Len(a) /\ c[k] = a[k]
           \/ k > Len(a) /\ k - Len(a) \in 1 .. Len(b) /\ c[k] = b[k - Len(a)]
  <1>1. CASE k <= Len(a)
    BY <1>1 DEF IsJoin
  <1>2. CASE ~(k <= Len(a))
    <2>1. k - Len(a) \in 1 .. Len(b) /\ Len(a) + (k - Len(a)) = k /\ k > Len(a)
      BY <1>2 DEF IsJoin
    <2> QED
      BY <2>1 DEF IsJoin
  <1> QED
    BY <1>1, <1>2

\* Nothing of either part is lost.
LEMMA JoinHoldsBoth ==
    ASSUME NEW a, NEW b, NEW c, IsJoin(c, a, b)
    PROVE  /\ \A k \in 1 .. Len(a) : k \in 1 .. Len(c) /\ c[k] = a[k]
           /\ \A k \in 1 .. Len(b) : Len(a) + k \in 1 .. Len(c) /\ c[Len(a) + k] = b[k]
  BY DEF IsJoin

\* One more sequence for the first i that f joins.
Flattened(f, p, i) == IF i = 1 THEN p[i] ELSE f[i - 1] \o p[i]

FlattensUpTo(f, p, n) == f = [i \in 1 .. n |-> Flattened(f, p, i)]

LEMMA FlatteningExists ==
    ASSUME NEW p PROVE \A n \in Nat : \E f : FlattensUpTo(f, p, n)
  <1> DEFINE S == {n \in Nat : \E f : FlattensUpTo(f, p, n)}
  <1>1. 0 \in S
    <2> DEFINE f == [i \in 1 .. 0 |-> <<>>]
    <2>1. FlattensUpTo(f, p, 0)
      BY DEF FlattensUpTo
    <2> QED
      BY <2>1
  <1>2. ASSUME NEW n \in Nat, n \in S PROVE n + 1 \in S
    <2>1. PICK f : FlattensUpTo(f, p, n)
      BY <1>2
    <2> DEFINE g == [i \in 1 .. (n + 1) |-> IF i <= n THEN f[i] ELSE Flattened(f, p, i)]
    <2>2. ASSUME NEW i \in 1 .. (n + 1) PROVE Flattened(g, p, i) = g[i]
      <3>1. i # 1 => i - 1 \in 1 .. n /\ g[i - 1] = f[i - 1]
        OBVIOUS
      <3>2. Flattened(g, p, i) = Flattened(f, p, i)
        BY <3>1 DEF Flattened
      <3>3. i <= n => f[i] = Flattened(f, p, i)
        BY <2>1 DEF FlattensUpTo
      <3> QED
        BY <3>2, <3>3
    <2>3. FlattensUpTo(g, p, n + 1)
      BY <2>2 DEF FlattensUpTo
    <2> QED
      BY <2>3
  <1> HIDE DEF S
  <1>3. Nat \subseteq S
    BY <1>1, <1>2, SetInduction
  <1> QED
    BY <1>3 DEF S

\* F holds the elements of the first n sequences of p, in their order.
Merges(F, p, n) ==
    /\ \A m \in 1 .. Len(F) : \E i \in 1 .. n : \E j \in 1 .. Len(p[i]) : F[m] = p[i][j]
    /\ \A i \in 1 .. n : \A j \in 1 .. Len(p[i]) : \E m \in 1 .. Len(F) : F[m] = p[i][j]
    /\ \A m, l \in 1 .. Len(F) : m < l =>
         \E i, k \in 1 .. n : \E j \in 1 .. Len(p[i]), q \in 1 .. Len(p[k]) :
             F[m] = p[i][j] /\ F[l] = p[k][q] /\ (i < k \/ (i = k /\ j < q))

LEMMA OneMerges ==
    ASSUME NEW S, NEW p, p[1] \in Seq(S) PROVE Merges(p[1], p, 1)
  BY LenProperties DEF Merges

LEMMA MergesOneMore ==
    ASSUME NEW S, NEW n \in Nat \ {0}, NEW p, NEW F \in Seq(S), Merges(F, p, n),
           p[n + 1] \in Seq(S)
    PROVE  F \o p[n + 1] \in Seq(S) /\ Merges(F \o p[n + 1], p, n + 1)
  <1> DEFINE P == p[n + 1]
             G == F \o P
  <1>1. /\ G \in Seq(S) /\ Len(G) = Len(F) + Len(P) /\ Len(F) \in Nat /\ Len(P) \in Nat
        /\ \A k \in 1 .. Len(F) : k \in 1 .. Len(G) /\ G[k] = F[k]
        /\ \A k \in 1 .. Len(P) : Len(F) + k \in 1 .. Len(G) /\ G[Len(F) + k] = P[k]
        /\ \A k \in 1 .. Len(G) : \/ k \in 1 .. Len(F)
                                  \/ k > Len(F) /\ k - Len(F) \in 1 .. Len(P) /\ G[k] = P[k - Len(F)]
    <2>1. G \in Seq(S) /\ IsJoin(G, F, P)
      BY Joined
    <2>2. Len(G) = Len(F) + Len(P) /\ Len(F) \in Nat /\ Len(P) \in Nat
      BY <2>1 DEF IsJoin
    <2> HIDE DEF P, G
    <2>3. /\ \A k \in 1 .. Len(F) : k \in 1 .. Len(G) /\ G[k] = F[k]
          /\ \A k \in 1 .. Len(P) : Len(F) + k \in 1 .. Len(G) /\ G[Len(F) + k] = P[k]
      BY <2>1, JoinHoldsBoth
    <2>4. \A k \in 1 .. Len(G) :
            \/ k \in 1 .. Len(F) /\ G[k] = F[k]
            \/ k > Len(F) /\ k - Len(F) \in 1 .. Len(P) /\ G[k] = P[k - Len(F)]
      BY <2>1, JoinParts
    <2> QED
      BY <2>1, <2>2, <2>3, <2>4
  <1> HIDE DEF G
  <1>2. n + 1 \in 1 .. (n + 1) /\ \A i \in 1 .. (n + 1) : i \in 1 .. n \/ (i = n + 1 /\ p[i] = P)
    OBVIOUS
  <1>3. 1 .. n \subseteq 1 .. (n + 1)
    OBVIOUS
  <1>4. ASSUME NEW m \in 1 .. Len(G)
        PROVE  \E i \in 1 .. (n + 1) : \E j \in 1 .. Len(p[i]) : G[m] = p[i][j]
    <2>1. CASE m \in 1 .. Len(F)
      <3>1. PICK i \in 1 .. n : \E j \in 1 .. Len(p[i]) : F[m] = p[i][j]
        BY <2>1 DEF Merges
      <3> QED
        BY <1>1, <1>3, <2>1, <3>1
    <2>2. CASE m - Len(F) \in 1 .. Len(P) /\ G[m] = P[m - Len(F)]
      <3>1. n + 1 \in 1 .. (n + 1) /\ G[m] = p[n + 1][m - Len(F)]
        BY <2>2
      <3> QED
        BY <2>2, <3>1
    <2> QED
      BY <1>1, <2>1, <2>2
  <1>5. ASSUME NEW i \in 1 .. (n + 1), NEW j \in 1 .. Len(p[i])
        PROVE  \E m \in 1 .. Len(G) : G[m] = p[i][j]
    <2>1. CASE i \in 1 .. n
      <3>1. PICK m \in 1 .. Len(F) : F[m] = p[i][j]
        BY <2>1 DEF Merges
      <3> QED
        BY <1>1, <3>1
    <2>2. CASE i = n + 1
      <3>1. Len(F) + j \in 1 .. Len(G) /\ G[Len(F) + j] = p[i][j]
        BY <1>1, <2>2
      <3> QED
        BY <3>1
    <2> QED
      BY <1>2, <2>1, <2>2
  <1>6. ASSUME NEW m \in 1 .. Len(G), NEW l \in 1 .. Len(G), m < l
        PROVE  \E i, k \in 1 .. (n + 1) : \E j \in 1 .. Len(p[i]), q \in 1 .. Len(p[k]) :
                   G[m] = p[i][j] /\ G[l] = p[k][q] /\ (i < k \/ (i = k /\ j < q))
    <2>1. CASE m \in 1 .. Len(F) /\ l \in 1 .. Len(F)
      <3>1. PICK i \in 1 .. n, k \in 1 .. n :
             \E j \in 1 .. Len(p[i]), q \in 1 .. Len(p[k]) :
              F[m] = p[i][j] /\ F[l] = p[k][q] /\ (i < k \/ (i = k /\ j < q))
        BY <1>6, <2>1 DEF Merges
      <3>2. PICK j \in 1 .. Len(p[i]), q \in 1 .. Len(p[k]) :
              F[m] = p[i][j] /\ F[l] = p[k][q] /\ (i < k \/ (i = k /\ j < q))
        BY <3>1
      <3>3. i \in 1 .. (n + 1) /\ k \in 1 .. (n + 1) /\ G[m] = F[m] /\ G[l] = F[l]
        BY <1>1, <2>1
      <3> QED
        BY <3>2, <3>3
    <2>2. CASE m \in 1 .. Len(F) /\ l - Len(F) \in 1 .. Len(P) /\ G[l] = P[l - Len(F)]
      <3>1. PICK i \in 1 .. n : \E j \in 1 .. Len(p[i]) : F[m] = p[i][j]
        BY <2>2 DEF Merges
      <3>2. PICK j \in 1 .. Len(p[i]) : G[m] = p[i][j]
        BY <1>1, <2>2, <3>1
      <3>3. i < n + 1 /\ i \in 1 .. (n + 1) /\ n + 1 \in 1 .. (n + 1)
        OBVIOUS
      <3>4. PICK q \in 1 .. Len(p[n + 1]) : G[l] = p[n + 1][q]
        BY <2>2
      <3> HIDE DEF P
      <3> QED
        BY <3>2, <3>3, <3>4
    <2>3. CASE /\ m - Len(F) \in 1 .. Len(P) /\ G[m] = P[m - Len(F)]
               /\ l - Len(F) \in 1 .. Len(P) /\ G[l] = P[l - Len(F)]
      <3>1. m - Len(F) < l - Len(F)
        BY <1>1, <1>6
      <3> QED
        BY <1>2, <2>3, <3>1
    <2>4. l \in 1 .. Len(F) => m \in 1 .. Len(F)
      BY <1>1, <1>6
    <2> QED
      BY <1>1, <2>1, <2>2, <2>3, <2>4
  <1>7. G \in Seq(S) /\ Merges(G, p, n + 1)
    BY <1>1, <1>4, <1>5, <1>6 DEF Merges
  <1> QED
    BY <1>7 DEF G

LEMMA FlattenMerges ==
    ASSUME NEW S, NEW p \in Seq(Seq(S))
    PROVE  FlattenSeq(p) \in Seq(S) /\ Merges(FlattenSeq(p), p, Len(p))
  <1>1. Len(p) \in Nat /\ \A i \in 1 .. Len(p) : p[i] \in Seq(S)
    BY LenProperties, ElementOfSeq
  <1>2. CASE Len(p) = 0
    <2>1. FlattenSeq(p) = p /\ p = <<>>
      BY <1>2, EmptySeq DEF FlattenSeq
    <2> QED
      BY <1>2, <2>1, EmptySeq DEF Merges
  <1>3. CASE Len(p) # 0
    <2> DEFINE f == CHOOSE g : FlattensUpTo(g, p, Len(p))
    <2>1. FlattensUpTo(f, p, Len(p))
      BY <1>1, FlatteningExists
    <2>2. FlattenSeq(p) = f[Len(p)]
      BY <1>3 DEF FlattenSeq, FlattensUpTo, Flattened
    <2> HIDE DEF f
    <2> DEFINE N == {n \in Nat : n + 1 <= Len(p) => f[n + 1] \in Seq(S) /\ Merges(f[n + 1], p, n + 1)}
    <2>3. 0 \in N
      <3>1. f[1] = p[1] /\ p[1] \in Seq(S)
        BY <1>1, <1>3, <2>1 DEF FlattensUpTo, Flattened
      <3> QED
        BY <3>1, OneMerges
    <2>4. ASSUME NEW n \in Nat, n \in N PROVE n + 1 \in N
      <3> SUFFICES ASSUME n + 2 <= Len(p)
                   PROVE  f[n + 2] \in Seq(S) /\ Merges(f[n + 2], p, n + 2)
        OBVIOUS
      <3>1. f[n + 1] \in Seq(S) /\ Merges(f[n + 1], p, n + 1)
        BY <1>1, <2>4
      <3>2. f[n + 2] = f[n + 1] \o p[n + 2] /\ p[n + 2] \in Seq(S)
        <4>1. n + 2 \in 1 .. Len(p) /\ n + 2 # 1 /\ (n + 2) - 1 = n + 1
          BY <1>1
        <4>2. f[n + 2] = Flattened(f, p, n + 2)
          BY <2>1, <4>1 DEF FlattensUpTo
        <4> QED
          BY <1>1, <4>1, <4>2 DEF Flattened
      <3>3. n + 1 \in Nat \ {0} /\ (n + 1) + 1 = n + 2
        OBVIOUS
      <3> QED
        BY <3>1, <3>2, <3>3, MergesOneMore
    <2> HIDE DEF N
    <2>5. Nat \subseteq N
      BY <2>3, <2>4, SetInduction
    <2>6. Len(p) - 1 \in N /\ (Len(p) - 1) + 1 = Len(p)
      BY <1>1, <1>3, <2>5
    <2> QED
      BY <2>2, <2>6 DEF N
  <1> QED
    BY <1>2, <1>3

-----------------------------------------------------------------------------
(* The events of one step, and of a session.                               *)

TraceEvents ==
    [type : {"regulation_decision", "observation", "belief_state", "plan", "executed_action",
             "outcome", "metric"},
     step : Nat,
     fields : SUBSET (Actions \cup DOMAIN Place \cup Outcome \cup Named)]

FieldNames == {"obs", "obs_info", "state", "plan", "intent"}

LEMMA PlacesAre ==
    /\ DOMAIN Place = FieldNames
    /\ Place["obs"] = "observation" /\ Place["obs_info"] = "observation"
    /\ Place["state"] = "belief_state"
    /\ Place["plan"] = "plan" /\ Place["intent"] = "plan"
  BY DEF Place, FieldNames

\* What a step has to be in the events.
Carried(s) == {f \in FieldNames : Holds(s, f)}

\* e holds a, the elements of b and c, and, at its end, d.
HoldsFour(e, a, b, c, d) ==
    /\ Len(e) \in Nat \ {0} /\ e[Len(e)] = d
    /\ \A k \in 1 .. Len(e) : k # Len(e) =>
         \/ e[k] = a
         \/ \E m \in 1 .. Len(b) : e[k] = b[m]
         \/ \E m \in 1 .. Len(c) : e[k] = c[m]
    /\ \E k \in 1 .. Len(e) : e[k] = a
    /\ \A m \in 1 .. Len(b) : \E k \in 1 .. Len(e) : e[k] = b[m]
    /\ \A m \in 1 .. Len(c) : \E k \in 1 .. Len(e) : e[k] = c[m]

LEMMA FourParts ==
    ASSUME NEW S, NEW a \in S, NEW b \in Seq(S), NEW c \in Seq(S), NEW d \in S
    PROVE  /\ <<a>> \o b \o c \o <<d>> \in Seq(S)
           /\ HoldsFour(<<a>> \o b \o c \o <<d>>, a, b, c, d)
  <1> DEFINE A == <<a>>
             D == <<d>>
             B == A \o b
             C == B \o c
             e == C \o D
  <1>1. /\ A \in Seq(S) /\ Len(A) = 1 /\ A[1] = a
        /\ D \in Seq(S) /\ Len(D) = 1 /\ D[1] = d
    OBVIOUS
  <1> HIDE DEF A, D
  <1>2. B \in Seq(S) /\ IsJoin(B, A, b)
    BY <1>1, Joined
  <1> HIDE DEF B
  <1>3. C \in Seq(S) /\ IsJoin(C, B, c)
    BY <1>2, Joined
  <1> HIDE DEF C
  <1>4. e \in Seq(S) /\ IsJoin(e, C, D)
    BY <1>1, <1>3, Joined
  <1>5. e = <<a>> \o b \o c \o <<d>>
    BY DEF A, B, C, D, e
  <1> HIDE DEF e
  <1>6. /\ Len(b) \in Nat /\ Len(c) \in Nat /\ Len(B) = 1 + Len(b) /\ Len(C) = Len(B) + Len(c)
        /\ Len(e) = Len(C) + 1
    BY <1>1, <1>2, <1>3, <1>4 DEF IsJoin
  <1>7. 1 \in 1 .. Len(A) /\ 1 \in 1 .. Len(D) /\ Len(e) \in Nat \ {0} /\ Len(e) \in 1 .. Len(e)
    BY <1>1, <1>6
  <1>8. e[Len(e)] = d
    <2>1. e[Len(C) + 1] = D[1]
      BY <1>4, <1>7, JoinHoldsBoth
    <2> QED
      BY <1>1, <1>6, <2>1
  <1>9. \E k \in 1 .. Len(e) : e[k] = a
    <2>1. 1 \in 1 .. Len(B) /\ B[1] = a
      BY <1>1, <1>2, <1>7, JoinHoldsBoth
    <2>2. 1 \in 1 .. Len(C) /\ C[1] = a
      BY <1>3, <2>1, JoinHoldsBoth
    <2> QED
      BY <1>4, <2>2, JoinHoldsBoth
  <1>10. ASSUME NEW m \in 1 .. Len(b) PROVE \E k \in 1 .. Len(e) : e[k] = b[m]
    <2>1. PICK k \in 1 .. Len(B) : B[k] = b[m]
      BY <1>2, JoinHoldsBoth
    <2>2. k \in 1 .. Len(C) /\ C[k] = b[m]
      BY <1>3, <2>1, JoinHoldsBoth
    <2> QED
      BY <1>4, <2>2, JoinHoldsBoth
  <1>11. ASSUME NEW m \in 1 .. Len(c) PROVE \E k \in 1 .. Len(e) : e[k] = c[m]
    <2>1. PICK k \in 1 .. Len(C) : C[k] = c[m]
      BY <1>3, JoinHoldsBoth
    <2> QED
      BY <1>4, <2>1, JoinHoldsBoth
  <1>12. ASSUME NEW k \in 1 .. Len(e), k # Len(e)
         PROVE  \/ e[k] = a
                \/ \E m \in 1 .. Len(b) : e[k] = b[m]
                \/ \E m \in 1 .. Len(c) : e[k] = c[m]
    <2>1. k \in 1 .. Len(C)
      BY <1>6, <1>12
    <2>2. e[k] = C[k]
      BY <1>4, <2>1, JoinHoldsBoth
    <2>3. (k \in 1 .. Len(B) /\ C[k] = B[k]) \/ \E m \in 1 .. Len(c) : C[k] = c[m]
      BY <1>3, <2>1, JoinParts
    <2>4. k \in 1 .. Len(B) => (k \in 1 .. Len(A) /\ B[k] = A[k]) \/ \E m \in 1 .. Len(b) : B[k] = b[m]
      BY <1>2, JoinParts
    <2>5. k \in 1 .. Len(A) => A[k] = a
      BY <1>1
    <2> QED
      BY <2>2, <2>3, <2>4, <2>5
  <1>13. e \in Seq(S) /\ HoldsFour(e, a, b, c, d)
    BY <1>4, <1>7, <1>8, <1>9, <1>10, <1>11, <1>12 DEF HoldsFour
  <1> QED
    BY <1>5, <1>13

\* The events e are of step i, the last and only the last of them is its
\* action, and they carry what the step carries.
AreOfStep(e, i, s) ==
    /\ Len(e) \in Nat \ {0} /\ e[Len(e)].fields = {s.act}
    /\ \A k \in 1 .. Len(e) : e[k].step = i /\ (e[k].type = "executed_action" <=> k = Len(e))
    /\ \A f \in FieldNames : f \in Carried(s) <=>
          \E k \in 1 .. Len(e) : e[k].type = Place[f] /\ f \in e[k].fields

LEMMA StepEventsAre ==
    ASSUME NEW i \in Nat \ {0}, NEW s \in Steps
    PROVE  StepEvents(i, s) \in Seq(TraceEvents) /\ AreOfStep(StepEvents(i, s), i, s)
  <1> DEFINE Of(type) == {f \in Carried(s) : Place[f] = type}
             Optional(type) == IF Of(type) = {} THEN <<>> ELSE <<Event(type, i, Of(type))>>
             a == Event("observation", i, Of("observation"))
             b == Optional("belief_state")
             c == Optional("plan")
             d == Event("executed_action", i, {s.act})
             e == StepEvents(i, s)
  <1>1. e = <<a>> \o b \o c \o <<d>>
    <2>1. Of("observation") = s.has \cap {"obs", "obs_info"}
      BY PlacesAre DEF Carried, Holds, FieldNames
    <2>2. Of("belief_state") = IF "state" \in s.has THEN {"state"} ELSE {}
      BY PlacesAre DEF Carried, Holds, FieldNames
    <2>3. Of("plan") = PlanTexts(s)
      BY PlacesAre DEF Carried, Holds, FieldNames, PlanTexts
    <2>4. a = Event("observation", i, s.has \cap {"obs", "obs_info"})
      BY <2>1
    <2>5. b = IF "state" \in s.has THEN <<Event("belief_state", i, {"state"})>> ELSE <<>>
      BY <2>2
    <2>6. c = IF PlanTexts(s) # {} THEN <<Event("plan", i, PlanTexts(s))>> ELSE <<>>
      BY <2>3
    <2> HIDE DEF a, b, c
    <2> QED
      BY <2>4, <2>5, <2>6, Zenon DEF StepEvents, d, e
  <1>2. Carried(s) \subseteq FieldNames /\ s.act \in Actions
    BY DEF Carried, Steps, FieldNames
  <1>3. \A type : Of(type) \subseteq DOMAIN Place
    BY <1>2, PlacesAre
  <1>4. a \in TraceEvents /\ d \in TraceEvents
    BY <1>2, <1>3 DEF TraceEvents, Event
  <1>5. ASSUME NEW type \in {"belief_state", "plan"}
        PROVE  /\ Optional(type) \in Seq(TraceEvents)
               /\ \A k \in 1 .. Len(Optional(type)) : Optional(type)[k] = Event(type, i, Of(type))
               /\ Of(type) # {} => 1 \in 1 .. Len(Optional(type))
    <2> DEFINE v == Event(type, i, Of(type))
    <2>1. v \in TraceEvents
      BY <1>3 DEF TraceEvents, Event
    <2> HIDE DEF v
    <2>2. Optional(type) = IF Of(type) = {} THEN <<>> ELSE <<v>>
      BY DEF v
    <2>3. <<v>> \in Seq(TraceEvents) /\ Len(<<v>>) = 1 /\ <<v>>[1] = v
      BY <2>1
    <2> HIDE DEF Optional, Of
    <2>4. CASE Of(type) = {}
      BY <2>2, <2>4, EmptySeq
    <2>5. CASE Of(type) # {}
      BY <2>2, <2>3, <2>5 DEF v
    <2> QED
      BY <2>4, <2>5
  <1>6. ASSUME NEW f \in FieldNames
        PROVE  f \in Carried(s) <=> f \in Of("observation") \cup Of("belief_state") \cup Of("plan")
    BY PlacesAre DEF FieldNames
  <1>7. /\ a.step = i /\ a.type = "observation" /\ a.fields = Of("observation")
        /\ d.step = i /\ d.type = "executed_action" /\ d.fields = {s.act}
        /\ \A type, fs : Event(type, i, fs).step = i /\ Event(type, i, fs).type = type
                         /\ Event(type, i, fs).fields = fs
    BY DEF Event
  <1>8. \A f \in FieldNames : f \notin d.fields
    BY <1>2, <1>7 DEF Actions, FieldNames
  <1>9. /\ b \in Seq(TraceEvents) /\ c \in Seq(TraceEvents)
        /\ \A k \in 1 .. Len(b) : /\ b[k].step = i /\ b[k].type = "belief_state"
                                  /\ b[k].fields = Of("belief_state")
        /\ \A k \in 1 .. Len(c) : /\ c[k].step = i /\ c[k].type = "plan"
                                  /\ c[k].fields = Of("plan")
        /\ Of("belief_state") # {} => 1 \in 1 .. Len(b)
        /\ Of("plan") # {} => 1 \in 1 .. Len(c)
    BY <1>5, <1>7
  <1> HIDE DEF a, b, c, d, e, Optional, Of
  <1>10. e \in Seq(TraceEvents) /\ HoldsFour(e, a, b, c, d)
    BY <1>1, <1>4, <1>9, FourParts
  <1>11. ASSUME NEW k \in 1 .. Len(e)
         PROVE  e[k].step = i /\ (e[k].type = "executed_action" <=> k = Len(e))
    <2>1. CASE k = Len(e)
      BY <1>7, <1>10, <2>1 DEF HoldsFour
    <2>2. CASE k # Len(e)
      <3>1. e[k] = a \/ (\E m \in 1 .. Len(b) : e[k] = b[m]) \/ \E m \in 1 .. Len(c) : e[k] = c[m]
        BY <1>10, <2>2 DEF HoldsFour
      <3>2. e[k].step = i /\ e[k].type \in {"observation", "belief_state", "plan"}
        BY <1>7, <1>9, <3>1
      <3> QED
        BY <2>2, <3>2
    <2> QED
      BY <2>1, <2>2
  <1>12. ASSUME NEW f \in FieldNames
         PROVE  f \in Carried(s) <=>
                    \E k \in 1 .. Len(e) : e[k].type = Place[f] /\ f \in e[k].fields
    <2> DEFINE There == \E k \in 1 .. Len(e) : e[k].type = Place[f] /\ f \in e[k].fields
    <2>5. \A type : f \in Of(type) => Place[f] = type
      BY DEF Of
    <2>1. ASSUME NEW k \in 1 .. Len(e), f \in e[k].fields PROVE f \in Carried(s)
      <3>1. e[k] # d
        BY <1>8, <2>1
      <3>2. e[k] = a \/ (\E m \in 1 .. Len(b) : e[k] = b[m]) \/ \E m \in 1 .. Len(c) : e[k] = c[m]
        BY <1>10, <3>1 DEF HoldsFour
      <3>3. e[k].fields \in {Of("observation"), Of("belief_state"), Of("plan")}
        BY <1>7, <1>9, <3>2
      <3> QED
        BY <1>6, <2>1, <3>3
    <2>2. ASSUME f \in Of("observation") PROVE There
      BY <1>7, <1>10, <2>2, <2>5 DEF HoldsFour
    <2>3. ASSUME f \in Of("belief_state") PROVE There
      <3>1. 1 \in 1 .. Len(b) /\ f \in b[1].fields /\ b[1].type = Place[f]
        BY <1>9, <2>3, <2>5
      <3> QED
        BY <1>10, <3>1 DEF HoldsFour
    <2>4. ASSUME f \in Of("plan") PROVE There
      <3>1. 1 \in 1 .. Len(c) /\ f \in c[1].fields /\ c[1].type = Place[f]
        BY <1>9, <2>4, <2>5
      <3> QED
        BY <1>10, <3>1 DEF HoldsFour
    <2> QED
      BY <1>6, <2>1, <2>2, <2>3, <2>4
  <1> QED
    BY <1>7, <1>10, <1>11, <1>12 DEF HoldsFour, AreOfStep, e

\* Where an event of a session stands: first the decision, then those of
\* the steps, then those of the outcome.
LEMMA SessionEvents ==
    ASSUME NEW s, s.history \in Seq(Steps), chosen \in Named
    PROVE  LET E == EventsOf(s)
               p == [i \in DOMAIN s.history |-> StepEvents(i, s.history[i])]
               F == FlattenSeq(p)
               Ends == IF task.webarena
                       THEN {Event("outcome", 0, Outcome), Event("metric", 0, {"rewards"}),
                             Event("metric", 0, {"verdict"})}
                       ELSE {Event("outcome", 0, {})}
           IN  /\ E \in Seq(TraceEvents) /\ F \in Seq(TraceEvents)
               /\ Merges(F, p, Len(s.history))
               /\ \A k \in 1 .. Len(E) : \/ E[k] = Event("regulation_decision", 0, {chosen})
                                         \/ k - 1 \in 1 .. Len(F) /\ E[k] = F[k - 1]
                                         \/ E[k] \in Ends
               /\ \A k \in 1 .. Len(F) : \E m \in 1 .. Len(E) : E[m] = F[k]
               /\ \A x \in Ends : \E m \in 1 .. Len(E) : E[m] = x
  <1> DEFINE h == s.history
             p == [i \in DOMAIN h |-> StepEvents(i, h[i])]
             F == FlattenSeq(p)
             r == Event("regulation_decision", 0, {chosen})
             o == Event("outcome", 0, IF task.webarena THEN Outcome ELSE {})
             x == Event("metric", 0, {"rewards"})
             y == Event("metric", 0, {"verdict"})
             R == <<r>>
             O == <<o>>
             T == IF task.webarena THEN <<x, y>> ELSE <<>>
             B == R \o F
             C == B \o O
             E == C \o T
             Ends == IF task.webarena
                     THEN {Event("outcome", 0, Outcome), x, y}
                     ELSE {Event("outcome", 0, {})}
  <1>1. p \in Seq(Seq(TraceEvents)) /\ Len(p) = Len(h)
    <2>1. DOMAIN h = 1 .. Len(h) /\ Len(h) \in Nat
      BY LenProperties
    <2>2. \A i \in 1 .. Len(h) : h[i] \in Steps /\ i \in Nat \ {0}
      BY <2>1, ElementOfSeq
    <2>3. \A i \in 1 .. Len(h) : StepEvents(i, h[i]) \in Seq(TraceEvents)
      BY <2>2, StepEventsAre
    <2>4. p \in [1 .. Len(h) -> Seq(TraceEvents)]
      BY <2>1, <2>3
    <2> HIDE DEF p
    <2> QED
      BY <2>1, <2>4
  <1> HIDE DEF p, h
  <1>2. F \in Seq(TraceEvents) /\ Merges(F, p, Len(h))
    BY <1>1, FlattenMerges
  <1> HIDE DEF F
  <1>3. r \in TraceEvents /\ o \in TraceEvents /\ x \in TraceEvents /\ y \in TraceEvents
    BY DEF TraceEvents, Event, Outcome, Named
  <1>4. Ends = {o} \cup (IF task.webarena THEN {x, y} ELSE {})
    OBVIOUS
  <1> HIDE DEF r, o, x, y, Ends
  <1>5. R \in Seq(TraceEvents) /\ Len(R) = 1 /\ R[1] = r
    BY <1>3
  <1>6. O \in Seq(TraceEvents) /\ Len(O) = 1 /\ O[1] = o
    BY <1>3
  <1>7. /\ T \in Seq(TraceEvents)
        /\ \A k \in 1 .. Len(T) : T[k] \in {x, y} /\ task.webarena
        /\ task.webarena => Len(T) = 2 /\ T[1] = x /\ T[2] = y
    BY <1>3, EmptySeq
  <1> HIDE DEF R, O, T
  <1>8. B \in Seq(TraceEvents) /\ IsJoin(B, R, F)
    BY <1>2, <1>5, Joined
  <1> HIDE DEF B
  <1>9. C \in Seq(TraceEvents) /\ IsJoin(C, B, O)
    BY <1>6, <1>8, Joined
  <1> HIDE DEF C
  <1>10. E \in Seq(TraceEvents) /\ IsJoin(E, C, T)
    BY <1>7, <1>9, Joined
  <1>11. E = EventsOf(s)
    BY DEF EventsOf, B, C, E, R, O, T, F, p, h, r, o, x, y
  <1> HIDE DEF E
  <1>12. ASSUME NEW k \in 1 .. Len(E)
         PROVE  E[k] = r \/ (k - 1 \in 1 .. Len(F) /\ E[k] = F[k - 1]) \/ E[k] \in Ends
    <2>1. (k \in 1 .. Len(C) /\ E[k] = C[k]) \/ E[k] \in Ends
      <3>1. (k \in 1 .. Len(C) /\ E[k] = C[k]) \/ \E m \in 1 .. Len(T) : E[k] = T[m]
        BY <1>10, JoinParts
      <3> QED
        BY <1>4, <1>7, <3>1
    <2>2. k \in 1 .. Len(C) => (k \in 1 .. Len(B) /\ C[k] = B[k]) \/ C[k] \in Ends
      <3>1. k \in 1 .. Len(C) =>
              (k \in 1 .. Len(B) /\ C[k] = B[k]) \/ \E m \in 1 .. Len(O) : C[k] = O[m]
        BY <1>9, JoinParts
      <3>2. \A m \in 1 .. Len(O) : O[m] = o
        BY <1>6
      <3> QED
        BY <1>4, <3>1, <3>2
    <2>3. k \in 1 .. Len(B) => B[k] = r \/ (k - 1 \in 1 .. Len(F) /\ B[k] = F[k - 1])
      <3>1. k \in 1 .. Len(B) => \/ k \in 1 .. Len(R) /\ B[k] = R[k]
                                 \/ k - Len(R) \in 1 .. Len(F) /\ B[k] = F[k - Len(R)]
        BY <1>8, JoinParts
      <3>2. \A m \in 1 .. Len(R) : R[m] = r
        BY <1>5
      <3> QED
        BY <1>5, <3>1, <3>2
    <2> QED
      BY <2>1, <2>2, <2>3
  <1>13. ASSUME NEW k \in 1 .. Len(F) PROVE \E m \in 1 .. Len(E) : E[m] = F[k]
    <2>1. PICK m \in 1 .. Len(B) : B[m] = F[k]
      BY <1>8, JoinHoldsBoth
    <2>2. m \in 1 .. Len(C) /\ C[m] = F[k]
      BY <1>9, <2>1, JoinHoldsBoth
    <2> QED
      BY <1>10, <2>2, JoinHoldsBoth
  <1>14. ASSUME NEW e \in Ends PROVE \E m \in 1 .. Len(E) : E[m] = e
    <2>1. CASE e = o
      <3>1. 1 \in 1 .. Len(O)
        BY <1>6
      <3>2. PICK m \in 1 .. Len(C) : C[m] = O[1]
        BY <1>9, <3>1, JoinHoldsBoth
      <3> QED
        BY <1>6, <1>10, <2>1, <3>2, JoinHoldsBoth
    <2>2. CASE task.webarena /\ e \in {x, y}
      <3>1. 1 \in 1 .. Len(T) /\ 2 \in 1 .. Len(T) /\ e \in {T[1], T[2]}
        BY <1>7, <2>2
      <3>2. PICK k \in 1 .. Len(T) : T[k] = e
        BY <3>1
      <3>3. Len(C) + k \in 1 .. Len(E) /\ E[Len(C) + k] = T[k]
        BY <1>10, JoinHoldsBoth
      <3> QED
        BY <3>2, <3>3
    <2> QED
      BY <1>4, <2>1, <2>2
  <1> QED
    BY <1>2, <1>10, <1>11, <1>12, <1>13, <1>14 DEF p, F, E, h, r, x, y, Ends

-----------------------------------------------------------------------------
(* What a normalized trace accounts for.                                   *)

\* The events of a step carry the fields the step carries, and those of the
\* outcome its two, for WebArena.
LEMMA CarriedByEvents ==
    ASSUME NEW s, s.history \in Seq(Steps), chosen \in Named
    PROVE  LET E == EventsOf(s) IN
           /\ \A i \in DOMAIN s.history : \A f \in FieldNames :
                f \in Carried(s.history[i]) <=>
                    \E k \in 1 .. Len(E) :
                        E[k].type = Place[f] /\ E[k].step = i /\ f \in E[k].fields
           /\ \A type \in {"outcome", "metric"}, f \in Outcome :
                task.webarena <=>
                    \E k \in 1 .. Len(E) :
                        E[k].type = type /\ E[k].step = 0 /\ f \in E[k].fields
  <1> DEFINE h == s.history
             E == EventsOf(s)
             p == [i \in DOMAIN h |-> StepEvents(i, h[i])]
             F == FlattenSeq(p)
             Ends == IF task.webarena
                     THEN {Event("outcome", 0, Outcome), Event("metric", 0, {"rewards"}),
                           Event("metric", 0, {"verdict"})}
                     ELSE {Event("outcome", 0, {})}
             r == Event("regulation_decision", 0, {chosen})
  <1>1. DOMAIN h = 1 .. Len(h) /\ Len(h) \in Nat /\ \A i \in 1 .. Len(h) : h[i] \in Steps
    BY LenProperties, ElementOfSeq
  <1>2. /\ Merges(F, p, Len(h))
        /\ \A k \in 1 .. Len(E) : E[k] = r \/ (k - 1 \in 1 .. Len(F) /\ E[k] = F[k - 1]) \/ E[k] \in Ends
        /\ \A k \in 1 .. Len(F) : \E m \in 1 .. Len(E) : E[m] = F[k]
        /\ \A x \in Ends : \E m \in 1 .. Len(E) : E[m] = x
    BY SessionEvents
  <1>3. r.step = 0 /\ r.fields \cap (Outcome \cup FieldNames) = {}
    BY DEF Event, Named, Outcome, FieldNames
  <1>4. \A x \in Ends : x.step = 0 /\ (~task.webarena => x.fields = {})
    BY DEF Event
  <1>5. \A type \in {"outcome", "metric"}, f \in Outcome :
           task.webarena => \E x \in Ends : x.type = type /\ f \in x.fields
    BY DEF Event, Outcome
  <1>6. ASSUME NEW i \in 1 .. Len(h)
        PROVE  /\ \A j \in 1 .. Len(p[i]) : p[i][j].step = i
               /\ \A f \in FieldNames :
                    f \in Carried(h[i]) <=>
                        \E j \in 1 .. Len(p[i]) : p[i][j].type = Place[f] /\ f \in p[i][j].fields
    <2>1. p[i] = StepEvents(i, h[i]) /\ h[i] \in Steps /\ i \in Nat \ {0}
      BY <1>1
    <2> HIDE DEF p
    <2>2. AreOfStep(p[i], i, h[i])
      BY <2>1, StepEventsAre
    <2> QED
      BY <2>2 DEF AreOfStep
  <1> HIDE DEF E, p, F, Ends, r, h
  <1>7. ASSUME NEW i \in DOMAIN h, NEW f \in FieldNames
        PROVE  f \in Carried(h[i]) <=>
                   \E k \in 1 .. Len(E) :
                       E[k].type = Place[f] /\ E[k].step = i /\ f \in E[k].fields
    <2>1. i \in 1 .. Len(h) /\ i # 0
      BY <1>1
    <2>2. ASSUME f \in Carried(h[i])
          PROVE  \E k \in 1 .. Len(E) :
                     E[k].type = Place[f] /\ E[k].step = i /\ f \in E[k].fields
      <3>1. PICK j \in 1 .. Len(p[i]) : p[i][j].type = Place[f] /\ f \in p[i][j].fields
        BY <1>6, <2>1, <2>2
      <3>2. p[i][j].step = i
        BY <1>6, <2>1
      <3>3. PICK m \in 1 .. Len(F) : F[m] = p[i][j]
        BY <1>2, <2>1 DEF Merges
      <3>4. PICK k \in 1 .. Len(E) : E[k] = F[m]
        BY <1>2
      <3> QED
        BY <3>1, <3>2, <3>3, <3>4
    <2>3. ASSUME NEW k \in 1 .. Len(E), E[k].type = Place[f], E[k].step = i, f \in E[k].fields
          PROVE  f \in Carried(h[i])
      <3>1. k - 1 \in 1 .. Len(F) /\ E[k] = F[k - 1]
        BY <1>2, <1>3, <1>4, <2>1, <2>3
      <3>2. PICK q \in 1 .. Len(h) : \E j \in 1 .. Len(p[q]) : F[k - 1] = p[q][j]
        BY <1>2, <3>1 DEF Merges
      <3>3. PICK j \in 1 .. Len(p[q]) : F[k - 1] = p[q][j]
        BY <3>2
      <3>4. p[q][j].step = q
        BY <1>6
      <3>5. q = i /\ p[i][j].type = Place[f] /\ f \in p[i][j].fields
        BY <2>3, <3>1, <3>3, <3>4
      <3> QED
        BY <1>6, <3>3, <3>5
    <2> QED
      BY <2>2, <2>3
  <1>8. ASSUME NEW type \in {"outcome", "metric"}, NEW f \in Outcome
        PROVE  task.webarena <=>
                   \E k \in 1 .. Len(E) :
                       E[k].type = type /\ E[k].step = 0 /\ f \in E[k].fields
    <2>1. ASSUME task.webarena
          PROVE  \E k \in 1 .. Len(E) :
                     E[k].type = type /\ E[k].step = 0 /\ f \in E[k].fields
      <3>1. PICK x \in Ends : x.type = type /\ f \in x.fields
        BY <1>5, <2>1
      <3>2. PICK k \in 1 .. Len(E) : E[k] = x
        BY <1>2
      <3> QED
        BY <1>4, <3>1, <3>2
    <2>2. ASSUME NEW k \in 1 .. Len(E), E[k].step = 0, f \in E[k].fields PROVE task.webarena
      <3>1. CASE k - 1 \in 1 .. Len(F) /\ E[k] = F[k - 1]
        <4>1. PICK q \in 1 .. Len(h) : \E j \in 1 .. Len(p[q]) : F[k - 1] = p[q][j]
          BY <1>2, <3>1 DEF Merges
        <4>2. E[k].step = q /\ q # 0
          BY <1>6, <3>1, <4>1
        <4> QED
          BY <2>2, <4>2
      <3>2. CASE E[k] \in Ends
        BY <1>4, <2>2, <3>2
      <3>3. E[k] # r
        BY <1>3, <2>2
      <3> QED
        BY <1>2, <3>1, <3>2, <3>3
    <2> QED
      BY <2>1, <2>2
  <1> QED
    BY <1>7, <1>8 DEF E, h

\* What is listed as unavailable of one step stems from that step.
Lacking(i, s) == NoObservation(i, s) \cup NoBelief(i, s) \cup NoPlan(i, s)

LEMMA LackingNamesItsStep ==
    ASSUME NEW i, NEW s, NEW x \in Lacking(i, s)
    PROVE  x[2] = i
  <1>1. CASE x \in NoObservation(i, s)
    BY <1>1 DEF NoObservation
  <1>2. CASE x \in NoBelief(i, s)
    BY <1>2 DEF NoBelief
  <1>3. CASE x \in NoPlan(i, s)
    BY <1>3 DEF NoPlan
  <1> QED
    BY <1>1, <1>2, <1>3 DEF Lacking

LEMMA UnavailableHalves ==
    ASSUME NEW s, NEW x
    PROVE  x \in UnavailableOf(s) <=>
             \/ \E j \in DOMAIN s.history : x \in Lacking(j, s.history[j])
             \/ ~task.webarena /\ x \in {"outcome", "metric"} \X {0} \X Outcome
  <1> DEFINE Of(j) == Lacking(j, s.history[j])
             All == UNION {Of(j) : j \in DOMAIN s.history}
             none == {"outcome", "metric"} \X {0} \X Outcome
  <1>1. UnavailableOf(s) = All \cup (IF task.webarena THEN {} ELSE none)
    BY DEF UnavailableOf, Lacking
  <1>2. x \in All <=> \E j \in DOMAIN s.history : x \in Of(j)
    <2> HIDE DEF Of
    <2> QED
      OBVIOUS
  <1>3. x \in UnavailableOf(s) <=>
          \/ \E j \in DOMAIN s.history : x \in Of(j)
          \/ ~task.webarena /\ x \in none
    <2> HIDE DEF Of, All, none
    <2> QED
      BY <1>1, <1>2
  <1> QED
    BY <1>3

LEMMA MissingOfAStep ==
    ASSUME NEW s, NEW i \in DOMAIN s.history, NEW type, NEW f,
           DOMAIN s.history = 1 .. Len(s.history), Len(s.history) \in Nat
    PROVE  <<type, i, f>> \in UnavailableOf(s) <=> <<type, i, f>> \in Lacking(i, s.history[i])
  <1> DEFINE x == <<type, i, f>>
  <1>1. x[2] = i /\ i # 0
    OBVIOUS
  <1>2. \A y \in {"outcome", "metric"} \X {0} \X Outcome : y[2] = 0
    OBVIOUS
  <1> HIDE DEF x
  <1>3. \A j \in DOMAIN s.history : x \in Lacking(j, s.history[j]) => j = i
    BY <1>1, LackingNamesItsStep
  <1>4. x \in UnavailableOf(s) <=> x \in Lacking(i, s.history[i])
    BY <1>1, <1>2, <1>3, UnavailableHalves
  <1> QED
    BY <1>4 DEF x

LEMMA MissingOfOutcome ==
    ASSUME NEW s, NEW type \in {"outcome", "metric"}, NEW f \in Outcome,
           DOMAIN s.history = 1 .. Len(s.history), Len(s.history) \in Nat
    PROVE  <<type, 0, f>> \in UnavailableOf(s) <=> ~task.webarena
  <1> DEFINE x == <<type, 0, f>>
  <1>1. x[2] = 0 /\ 0 \notin DOMAIN s.history
    OBVIOUS
  <1>2. x \in {"outcome", "metric"} \X {0} \X Outcome
    OBVIOUS
  <1> HIDE DEF x
  <1>3. \A j \in DOMAIN s.history : x \notin Lacking(j, s.history[j])
    BY <1>1, LackingNamesItsStep
  <1>4. x \in UnavailableOf(s) <=> ~task.webarena
    BY <1>2, <1>3, UnavailableHalves
  <1> QED
    BY <1>4 DEF x

\* But for memory_update nothing is left out in silence, and nothing is made
\* up: each optional field of a step, and of the outcome, is in its event of
\* that step when the session has it, else listed as unavailable, and never
\* both.
THEOREM NothingIsSilent == Spec => []AllAccounted
  <1>1. ASSUME FilesInv, AdapterInv, Normalized PROVE AllAccounted
    <2> DEFINE h == session.history
               E == EventsOf(session)
               carried == UNION {{<<e.type, e.step, f>> : f \in e.fields} :
                                 e \in {E[i] : i \in DOMAIN E}}
               missing == UnavailableOf(session)
               Accounted(x, there) == (x \in carried <=> there) /\ (x \in missing <=> ~there)
    <2>1. /\ h \in Seq(Steps) /\ chosen \in Named
          /\ result.events = E /\ result.unavailable = missing
      <3>1. h \in Seq(Stemming)
        BY <1>1 DEF FilesInv, SessionsWith
      <3> QED
        BY <1>1, <3>1, StemmingSteps DEF AdapterInv, Normalized
    <2>2. DOMAIN h = 1 .. Len(h) /\ Len(h) \in Nat
      BY <2>1, LenProperties
    <2>3. DOMAIN E = 1 .. Len(E)
      <3>1. E \in Seq(TraceEvents)
        BY <2>1, SessionEvents
      <3> QED
        BY <3>1, LenProperties
    <2>4. \A type, i, f : <<type, i, f>> \in carried <=>
            \E k \in 1 .. Len(E) : E[k].type = type /\ E[k].step = i /\ f \in E[k].fields
      BY <2>3
    <2>5. /\ \A i \in DOMAIN h : \A f \in FieldNames :
               f \in Carried(h[i]) <=> <<Place[f], i, f>> \in carried
          /\ \A type \in {"outcome", "metric"}, f \in Outcome :
               task.webarena <=> <<type, 0, f>> \in carried
      <3>1. /\ \A i \in DOMAIN h : \A f \in FieldNames :
                   f \in Carried(h[i]) <=>
                     \E k \in 1 .. Len(E) : E[k].type = Place[f] /\ E[k].step = i /\ f \in E[k].fields
            /\ \A type \in {"outcome", "metric"}, f \in Outcome :
                   task.webarena <=>
                     \E k \in 1 .. Len(E) : E[k].type = type /\ E[k].step = 0 /\ f \in E[k].fields
        BY <2>1, CarriedByEvents
      <3> HIDE DEF carried, E
      <3> QED
        BY <2>4, <3>1
    <2> HIDE DEF carried, E
    <2>6. ASSUME NEW i \in DOMAIN h, NEW f \in FieldNames
          PROVE  Accounted(<<Place[f], i, f>>, Holds(h[i], f))
      <3>1. <<Place[f], i, f>> \in missing <=>
              <<Place[f], i, f>> \in Lacking(i, h[i])
        BY <2>2, <2>6, MissingOfAStep
      <3>2. <<Place[f], i, f>> \in Lacking(i, h[i]) <=> ~Holds(h[i], f)
        BY PlacesAre DEF Lacking, NoObservation, NoBelief, NoPlan, FieldNames, Holds
      <3>3. f \in Carried(h[i]) <=> Holds(h[i], f)
        BY DEF Carried
      <3> QED
        BY <2>5, <3>1, <3>2, <3>3
    <2>7. ASSUME NEW type \in {"outcome", "metric"}, NEW f \in Outcome
          PROVE  Accounted(<<type, 0, f>>, task.webarena)
      <3>1. <<type, 0, f>> \in missing <=> ~task.webarena
        BY <2>2, MissingOfOutcome
      <3> QED
        BY <2>5, <3>1
    <2> QED
      BY <2>1, <2>6, <2>7, PlacesAre DEF AllAccounted, carried
  <1>2. FilesInv /\ AdapterInv => AllAccounted
    BY <1>1 DEF AllAccounted
  <1> QED
    BY <1>2, TraceIsKept, PTL

-----------------------------------------------------------------------------
(* The actions of a normalized trace.                                      *)

\* Each step of a session has one executed_action, and they stand in the
\* order of the steps.
LEMMA ActionsInOrder ==
    ASSUME NEW s, s.history \in Seq(Steps), chosen \in Named
    PROVE  LET E == EventsOf(s)
               acts == {k \in DOMAIN E : E[k].type = "executed_action"}
           IN  /\ \A k, l \in acts : k < l => E[k].step < E[l].step
               /\ {<<E[k].step, E[k].fields>> : k \in acts}
                    = {<<i, {s.history[i].act}>> : i \in DOMAIN s.history}
  <1> DEFINE h == s.history
             E == EventsOf(s)
             acts == {k \in DOMAIN E : E[k].type = "executed_action"}
             p == [i \in DOMAIN h |-> StepEvents(i, h[i])]
             F == FlattenSeq(p)
             Ends == IF task.webarena
                     THEN {Event("outcome", 0, Outcome), Event("metric", 0, {"rewards"}),
                           Event("metric", 0, {"verdict"})}
                     ELSE {Event("outcome", 0, {})}
             r == Event("regulation_decision", 0, {chosen})
             act == "executed_action"
  <1>1. DOMAIN h = 1 .. Len(h) /\ Len(h) \in Nat /\ \A i \in 1 .. Len(h) : h[i] \in Steps
    BY LenProperties, ElementOfSeq
  <1>2. /\ Merges(F, p, Len(h)) /\ E \in Seq(TraceEvents)
        /\ \A k \in 1 .. Len(E) : E[k] = r \/ (k - 1 \in 1 .. Len(F) /\ E[k] = F[k - 1]) \/ E[k] \in Ends
        /\ \A k \in 1 .. Len(F) : \E m \in 1 .. Len(E) : E[m] = F[k]
    BY SessionEvents
  <1>3. r.type # act /\ \A x \in Ends : x.type # act
    BY DEF Event
  <1>4. ASSUME NEW i \in 1 .. Len(h)
        PROVE  /\ Len(p[i]) \in Nat \ {0}
               /\ \A j \in 1 .. Len(p[i]) : p[i][j].step = i /\ (p[i][j].type = act <=> j = Len(p[i]))
               /\ p[i][Len(p[i])].fields = {h[i].act}
    <2>1. p[i] = StepEvents(i, h[i]) /\ h[i] \in Steps /\ i \in Nat \ {0}
      BY <1>1
    <2> HIDE DEF p
    <2>2. AreOfStep(p[i], i, h[i])
      BY <2>1, StepEventsAre
    <2> QED
      BY <2>2 DEF AreOfStep
  <1>5. DOMAIN E = 1 .. Len(E) /\ Len(E) \in Nat
    BY <1>2, LenProperties
  <1> HIDE DEF E, p, F, Ends, r, h
  <1>6. ASSUME NEW k \in acts
        PROVE  k \in 1 .. Len(E) /\ E[k].type = act /\ k - 1 \in 1 .. Len(F) /\ E[k] = F[k - 1]
    BY <1>2, <1>3, <1>5
  <1>7. ASSUME NEW k \in acts, NEW l \in acts, k < l PROVE E[k].step < E[l].step
    <2>1. k - 1 \in 1 .. Len(F) /\ l - 1 \in 1 .. Len(F) /\ E[k] = F[k - 1] /\ E[l] = F[l - 1]
      BY <1>6
    <2>2. k - 1 < l - 1
      BY <1>6, <1>7
    <2> DEFINE a == k - 1
               b == l - 1
    <2> HIDE DEF a, b
    <2>6. a \in 1 .. Len(F) /\ b \in 1 .. Len(F) /\ a < b /\ E[k] = F[a] /\ E[l] = F[b]
      BY <2>1, <2>2 DEF a, b
    <2>3. PICK i \in 1 .. Len(h), q \in 1 .. Len(h) :
            \E j \in 1 .. Len(p[i]), m \in 1 .. Len(p[q]) :
                F[a] = p[i][j] /\ F[b] = p[q][m] /\ (i < q \/ (i = q /\ j < m))
      BY <1>2, <2>6 DEF Merges
    <2>4. PICK j \in 1 .. Len(p[i]), m \in 1 .. Len(p[q]) :
            F[a] = p[i][j] /\ F[b] = p[q][m] /\ (i < q \/ (i = q /\ j < m))
      BY <2>3
    <2>5. j = Len(p[i]) /\ m = Len(p[q]) /\ E[k].step = i /\ E[l].step = q
      <3>1. p[i][j].type = act /\ p[q][m].type = act
        BY <1>6, <2>4, <2>6
      <3> QED
        BY <1>4, <2>4, <2>6, <3>1
    <2> QED
      BY <2>4, <2>5
  <1>8. ASSUME NEW k \in acts PROVE \E i \in DOMAIN h : <<E[k].step, E[k].fields>> = <<i, {h[i].act}>>
    <2>1. PICK i \in 1 .. Len(h) : \E j \in 1 .. Len(p[i]) : F[k - 1] = p[i][j]
      BY <1>2, <1>6 DEF Merges
    <2>2. PICK j \in 1 .. Len(p[i]) : F[k - 1] = p[i][j]
      BY <2>1
    <2>3. j = Len(p[i]) /\ E[k].step = i /\ E[k].fields = {h[i].act}
      BY <1>4, <1>6, <2>2
    <2> QED
      BY <1>1, <2>3
  <1>9. ASSUME NEW i \in DOMAIN h
        PROVE  \E k \in acts : <<E[k].step, E[k].fields>> = <<i, {h[i].act}>>
    <2>1. i \in 1 .. Len(h) /\ Len(p[i]) \in 1 .. Len(p[i])
      BY <1>1, <1>4
    <2>2. PICK m \in 1 .. Len(F) : F[m] = p[i][Len(p[i])]
      BY <1>2, <2>1 DEF Merges
    <2>3. PICK k \in 1 .. Len(E) : E[k] = F[m]
      BY <1>2
    <2>4. E[k].type = act /\ E[k].step = i /\ E[k].fields = {h[i].act}
      BY <1>4, <2>1, <2>2, <2>3
    <2>5. k \in acts
      BY <1>5, <2>3, <2>4
    <2> QED
      BY <2>4, <2>5
  <1>10. {<<E[k].step, E[k].fields>> : k \in acts} = {<<i, {h[i].act}>> : i \in DOMAIN h}
    <2> DEFINE X(k) == <<E[k].step, E[k].fields>>
               Y(i) == <<i, {h[i].act}>>
    <2>1. \A k \in acts : \E i \in DOMAIN h : X(k) = Y(i)
      BY <1>8
    <2>2. \A i \in DOMAIN h : \E k \in acts : X(k) = Y(i)
      BY <1>9
    <2> HIDE DEF acts, X, Y
    <2>3. {X(k) : k \in acts} = {Y(i) : i \in DOMAIN h}
      BY <2>1, <2>2
    <2> QED
      BY <2>3 DEF X, Y
  <1> QED
    BY <1>7, <1>10 DEF E, h

\* A run nobody disturbed is normalized, to each of its actions once and in
\* their order, and to a notice of each of its warnings and errors, under its
\* severity, exactly when it is there.
THEOREM UndisturbedIsNormalized == Spec => []UndisturbedIsKept
  <1>1. Init => CleanInv
    BY DEF Init, CleanInv
  <1>2. RunInv /\ AdapterInv /\ CleanInv => UndisturbedIsKept
    <2> SUFFICES ASSUME RunInv, AdapterInv, CleanInv, faults = 0 PROVE UndisturbedIsKept
      BY DEF UndisturbedIsKept
    <2>1. pc # "refused"
      BY DEF RunInv, CleanInv
    <2>2. ASSUME Normalized
          PROVE  /\ session.history = run /\ chosen \in Named /\ run \in Seq(Steps)
                 /\ result.events = EventsOf(session) /\ result.notices = NoticesOf(session)
                 /\ session.error <=> ~Complete(run) /\ Len(run) < MaxSteps
      <3>1. agent = "over"
        BY <2>2 DEF RunInv, Normalized
      <3>2. PICK rewards \in RewardLists : session = Written(rewards)
        BY <2>2, <3>1 DEF CleanInv, Normalized
      <3>3. /\ session.history = run
            /\ session.error = (~Complete(run) /\ Len(run) < MaxSteps)
        BY <3>2, Zenon DEF Written
      <3>4. /\ chosen \in Named /\ run \in Seq(Steps)
            /\ result.events = EventsOf(session) /\ result.notices = NoticesOf(session)
        BY <2>2 DEF AdapterInv, RunInv, Normalized
      <3> QED
        BY <3>3, <3>4
    <2>3. ASSUME Normalized
          PROVE  /\ \A i \in DOMAIN run, n \in Notes :
                      n \in run[i].has <=> <<Severity[n], i, n>> \in result.notices
                 /\ <<"error", 0, "error">> \in result.notices
                      <=> ~Complete(run) /\ Len(run) < MaxSteps
      <3>1. \A i \in DOMAIN run :
              run[i].has \cap {"error_prefix", "return_action"} # {} => "obs_info" \in run[i].has
        BY DEF RunInv, StepOf
      <3>2. 0 \notin DOMAIN run
        BY DEF RunInv
      <3>3. result.notices = NoticesOf(session) /\ session.history = run
        BY <2>2, <2>3
      <3>4. ASSUME NEW i \in DOMAIN run, NEW n \in Notes
            PROVE  n \in run[i].has <=> <<Severity[n], i, n>> \in result.notices
        BY <3>1, <3>2, <3>3 DEF NoticesOf, Notes, Severity
      <3>5. <<"error", 0, "error">> \in result.notices <=> session.error
        BY <3>2, <3>3 DEF NoticesOf
      <3> QED
        BY <2>2, <2>3, <3>4, <3>5
    <2>4. ASSUME Normalized
          PROVE  LET events == result.events
                     acts == {k \in DOMAIN events : events[k].type = "executed_action"}
                 IN  /\ \A k, l \in acts : k < l => events[k].step < events[l].step
                     /\ {<<events[k].step, events[k].fields>> : k \in acts}
                          = {<<i, {run[i].act}>> : i \in DOMAIN run}
      BY <2>2, <2>4, ActionsInOrder
    <2> QED
      BY <2>1, <2>3, <2>4 DEF UndisturbedIsKept
  <1>3. RunInv /\ OutcomeInv /\ CleanInv /\ [Next]_vars => CleanInv'
    BY CleanStep
  <1> QED
    BY <1>1, <1>2, <1>3, TraceIsKept, OutcomeInvIsKept, PTL DEF Spec

=============================================================================
