--------------------------- MODULE PreflightProofs ---------------------------
(***************************************************************************)
(* Theorems about Preflight, for any set of callers, any order of runtime  *)
(* identities and any number of changes of the host.                       *)
(***************************************************************************)
EXTENDS Preflight, TLAPS, FiniteSetTheorems

(* A round over CheckOrder looks at facts only, and at every one of the    *)
(* runtime identities, the outputs and the environment.                    *)
LEMMA CheckRound ==
    /\ Len(CheckOrder) \in Nat
    /\ \A i \in 1 .. Len(CheckOrder) : CheckOrder[i] \in Facts
    /\ \A f \in RuntimeFacts \cup {"outputs", "environment"} :
          \E i \in 1 .. Len(CheckOrder) : CheckOrder[i] = f
  <1>1. /\ Len(RuntimeOrder) \in Nat
        /\ Len(CheckOrder) = Len(RuntimeOrder) + 2
        /\ \A i \in 1 .. Len(RuntimeOrder) : CheckOrder[i] = RuntimeOrder[i]
        /\ CheckOrder[Len(RuntimeOrder) + 1] = "outputs"
        /\ CheckOrder[Len(RuntimeOrder) + 2] = "environment"
    BY PreflightAssumption DEF CheckOrder
  <1>2. RuntimeFacts = {RuntimeOrder[i] : i \in 1 .. Len(RuntimeOrder)}
    BY PreflightAssumption DEF RuntimeFacts
  <1>3. ASSUME NEW i \in 1 .. Len(CheckOrder) PROVE CheckOrder[i] \in Facts
    <2>1. i \in 1 .. Len(RuntimeOrder) \/ i = Len(RuntimeOrder) + 1 \/ i = Len(RuntimeOrder) + 2
      BY <1>1, <1>3
    <2> QED
      BY <1>1, <1>2, <2>1 DEF Facts
  <1>4. ASSUME NEW f \in RuntimeFacts PROVE \E i \in 1 .. Len(CheckOrder) : CheckOrder[i] = f
    BY <1>1, <1>2, <1>4
  <1> QED
    BY <1>1, <1>3, <1>4

(* The recheck before the launch covers all of them but the environment.   *)
LEMMA RecheckRound ==
    /\ Len(RecheckOrder) \in Nat /\ Len(RecheckOrder) <= Len(CheckOrder)
    /\ \A i \in 1 .. Len(RecheckOrder) : RecheckOrder[i] \in Facts
    /\ \A f \in RuntimeFacts \cup {"outputs"} :
          \E i \in 1 .. Len(RecheckOrder) : RecheckOrder[i] = f
  <1>1. /\ Len(RuntimeOrder) \in Nat
        /\ Len(RecheckOrder) = Len(RuntimeOrder) + 1
        /\ Len(CheckOrder) = Len(RuntimeOrder) + 2
        /\ \A i \in 1 .. Len(RuntimeOrder) : RecheckOrder[i] = RuntimeOrder[i]
        /\ RecheckOrder[Len(RuntimeOrder) + 1] = "outputs"
    BY PreflightAssumption DEF CheckOrder, RecheckOrder
  <1>2. RuntimeFacts = {RuntimeOrder[i] : i \in 1 .. Len(RuntimeOrder)}
    BY PreflightAssumption DEF RuntimeFacts
  <1>3. ASSUME NEW i \in 1 .. Len(RecheckOrder) PROVE RecheckOrder[i] \in Facts
    <2>1. i \in 1 .. Len(RuntimeOrder) \/ i = Len(RuntimeOrder) + 1
      BY <1>1, <1>3
    <2> QED
      BY <1>1, <1>2, <2>1 DEF Facts
  <1>4. ASSUME NEW f \in RuntimeFacts
        PROVE  \E i \in 1 .. Len(RecheckOrder) : RecheckOrder[i] = f
    BY <1>1, <1>2, <1>4
  <1> QED
    BY <1>1, <1>3, <1>4

-----------------------------------------------------------------------------
(* Type correctness, with what it takes to name the next file to write.    *)

TypeInv == TypeOK /\ IsFiniteSet(files)

LEMMA TypeInit == Init => TypeInv
  <1> SUFFICES ASSUME Init PROVE TypeInv
    OBVIOUS
  <1>1. IsFiniteSet(files)
    BY FS_EmptySet DEF Init
  <1>2. 0 \in 0 .. Len(CheckOrder) /\ 0 \in 0 .. MaxChanges
    BY CheckRound, PreflightAssumption
  <1> QED
    BY <1>1, <1>2 DEF Init, TypeInv, TypeOK, Labels

(* There is a file left to write, and it has a name. *)
LEMMA NextFile ==
    ASSUME TypeInv, NEW c \in Callers, Cardinality(Evidence(c)) < Len(WriteOrder)
    PROVE  WriteOrder[Cardinality(Evidence(c)) + 1] \in {WriteOrder[i] : i \in DOMAIN WriteOrder}
  <1>1. IsFiniteSet(Evidence(c))
    BY FS_Subset DEF TypeInv, Evidence
  <1>2. Cardinality(Evidence(c)) \in Nat
    BY <1>1, FS_CardinalityType
  <1>3. Len(WriteOrder) = 5 /\ DOMAIN WriteOrder = 1 .. 5
    BY DEF WriteOrder
  <1>4. Cardinality(Evidence(c)) + 1 \in DOMAIN WriteOrder
    BY <1>2, <1>3
  <1> QED
    BY <1>4

LEMMA TypeLook ==
    ASSUME TypeOK, NEW c \in Callers, NEW order, Look(c, order),
           Len(order) \in Nat, Len(order) <= Len(CheckOrder),
           \A i \in 1 .. Len(order) : order[i] \in Facts
    PROVE  /\ blockers' \in [Callers -> SUBSET (Facts \cup {"contract"})]
           /\ checked' \in [Callers -> 0 .. Len(CheckOrder)]
  <1>1. checked[c] \in 0 .. Len(CheckOrder) /\ Len(CheckOrder) \in Nat
    BY CheckRound DEF TypeOK
  <1>2. checked[c] + 1 \in 1 .. Len(order)
    BY <1>1 DEF Look
  <1>3. order[checked[c] + 1] \in Facts /\ checked[c] + 1 \in 0 .. Len(CheckOrder)
    BY <1>1, <1>2
  <1> QED
    BY <1>3 DEF TypeOK, Look

LEMMA TypeStep == TypeInv /\ [Next]_vars => TypeInv'
  <1> SUFFICES ASSUME TypeInv, [Next]_vars PROVE TypeInv'
    OBVIOUS
  <1> USE DEF diskVars, callerVars, historyVars, TypeInv, Goto
  <1>0. Wrong \in SUBSET Facts
    BY DEF Wrong
  <1>1. ASSUME NEW c \in Callers, Execute(c) PROVE TypeInv'
    <2>1. CASE LoadState(c)
      <3>1. host["project"] \in BOOLEAN
        BY DEF TypeOK, Facts
      <3> QED
        BY <1>0, <2>1, <3>1 DEF LoadState, TypeOK, Labels
    <2>2. CASE Gate(c)
      <3>1. "project" \in Facts
        BY DEF Facts
      <3> QED
        BY <2>2, <3>1 DEF Gate, TypeOK, Labels
    <2>3. CASE Check(c)
      <3>1. TypeOK /\ Look(c, CheckOrder)
        BY <2>3 DEF Check
      <3>2. /\ blockers' \in [Callers -> SUBSET (Facts \cup {"contract"})]
            /\ checked' \in [Callers -> 0 .. Len(CheckOrder)]
        BY <3>1, TypeLook, CheckRound
      <3> QED
        BY <2>3, <3>2 DEF Check, TypeOK
    <2>4. CASE Decide(c)
      <3>1. 0 \in 0 .. Len(CheckOrder)
        BY CheckRound
      <3> QED
        BY <2>4, <3>1 DEF Decide, ContractBlockers, TypeOK, Labels
    <2>5. CASE Inherit(c) \/ ReadSecrets(c)
      <3>1. host["environment"] \in BOOLEAN
        BY DEF TypeOK, Facts
      <3> QED
        BY <2>5, <3>1 DEF Inherit, ReadSecrets, TypeOK, Labels
    <2>6. CASE CreateAttempt(c) \/ AttemptExists(c)
      BY <1>0, <2>6 DEF CreateAttempt, AttemptExists, TypeOK, Labels
    <2>7. CASE Write(c)
      <3>1. WriteOrder[Cardinality(Evidence(c)) + 1] \in {WriteOrder[i] : i \in DOMAIN WriteOrder}
        BY <2>7, NextFile DEF Write
      <3>2. IsFiniteSet(files')
        BY <2>7, FS_AddElement DEF Write
      <3> QED
        BY <2>7, <3>1, <3>2 DEF Write, TypeOK
    <2>8. CASE BeginRecheck(c) \/ Launch(c) \/ Abandon(c)
      BY <2>8 DEF BeginRecheck, Launch, Abandon, TypeOK, Labels
    <2>9. CASE Recheck(c)
      <3>1. TypeOK /\ Look(c, RecheckOrder)
        BY <2>9 DEF Recheck
      <3>2. /\ blockers' \in [Callers -> SUBSET (Facts \cup {"contract"})]
            /\ checked' \in [Callers -> 0 .. Len(CheckOrder)]
        BY <3>1, TypeLook, RecheckRound
      <3> QED
        BY <2>9, <3>2 DEF Recheck, TypeOK
    <2> QED
      BY <1>1, <2>1, <2>2, <2>3, <2>4, <2>5, <2>6, <2>7, <2>8, <2>9 DEF Execute
  <1>2. ASSUME NEW f \in Facts, Change(f) PROVE TypeInv'
    BY <1>2, PreflightAssumption DEF Change, TypeOK
  <1>3. CASE UNCHANGED vars
    BY <1>3 DEF vars, TypeOK
  <1> QED
    BY <1>1, <1>2, <1>3 DEF Next, Ended

(* Every variable keeps its type, whatever the callers and the host do.    *)
THEOREM TypeCorrect == Spec => []TypeOK
  <1>1. TypeInv => TypeOK
    BY DEF TypeInv
  <1> QED
    BY <1>1, TypeInit, TypeStep, PTL DEF Spec

-----------------------------------------------------------------------------
(* The inductive invariant: what a caller's place in the code tells about  *)
(* the host, the attempt and what the caller has read.                     *)

(* Places a caller reaches with the attempt directory in its hands, and    *)
(* those it reaches after the checks.                                      *)
Owning  == {"write", "recheck", "launched", "launch-error", "abandoned"}
Passed  == {"environment", "secrets", "create"} \cup Owning

Checked  == RuntimeFacts \cup {"outputs", "environment"}
Rechecked == RuntimeFacts \cup {"outputs"}

(* The facts seen so far in a round over order. *)
Seen(c, order) == {order[i] : i \in 1 .. checked[c]}

(* The attempt and what is in it belong to the caller that created it.     *)
Ownership(c) ==
    /\ c \in attempt <=> pc[c] \in Owning
    /\ Evidence(c) # {} => c \in attempt

(* Who passed the gate and the checks was permitted to.                    *)
Permission(c) ==
    /\ pc[c] = "check" /\ mode[c] # "dry-run" => grants[c]
    /\ pc[c] \in Passed => grants[c] /\ mode[c] # "dry-run" /\ contract
    /\ pc[c] = "start" => ~secrets[c]
    /\ secrets[c] => mode[c] # "dry-run" /\ grants[c] /\ contract

(* What was wrong all the time is wrong now.                               *)
Lasting(c) == wrong[c] \subseteq Wrong /\ wrongOwned[c] \subseteq Wrong

(* Each look rules out one fact as wrong all the time.                     *)
Before(c) ==
    /\ pc[c] \in {"start", "gate", "environment", "secrets", "create", "write"} => checked[c] = 0
    /\ pc[c] # "start" /\ grants[c] => "project" \notin wrong[c]
    /\ pc[c] = "check" /\ blockers[c] = {} => Seen(c, CheckOrder) \cap wrong[c] = {}
    /\ pc[c] \in Passed => Checked \cap wrong[c] = {}
    /\ pc[c] \in {"create"} \cup Owning => "secret" \notin wrong[c]
    /\ pc[c] \in Passed \ {"environment"} => environment[c]

(* The same once more for the owner of the attempt.                        *)
Owned(c) ==
    /\ pc[c] = "recheck" /\ blockers[c] = {} => Seen(c, RecheckOrder) \cap wrongOwned[c] = {}
    /\ pc[c] = "launched" => Rechecked \cap wrongOwned[c] = {}

CallerInv(c) == Ownership(c) /\ Permission(c) /\ Lasting(c) /\ Before(c) /\ Owned(c)

Inv ==
    /\ TypeInv
    /\ \A a, b \in attempt : a = b
    /\ \A c \in Callers : CallerInv(c)

LEMMA InitialInv == Init => Inv
  <1> SUFFICES ASSUME Init PROVE Inv
    OBVIOUS
  <1>1. TypeInv
    BY TypeInit
  <1>2. ASSUME NEW c \in Callers PROVE CallerInv(c)
    BY DEF Init, CallerInv, Ownership, Permission, Lasting, Before, Owned, Owning, Passed, Evidence
  <1> QED
    BY <1>1, <1>2 DEF Init, Inv

(* What a caller writes is its own. *)
LEMMA EvidenceOf ==
    ASSUME NEW c, NEW d, NEW n, files' = files \cup {[by |-> c, name |-> n]}, d # c
    PROVE  Evidence(d)' = Evidence(d)
  BY DEF Evidence

(* A step of one caller takes nothing from another one.                    *)
LEMMA OtherCaller ==
    ASSUME Inv, NEW c \in Callers, NEW d \in Callers, d # c, Execute(c)
    PROVE  CallerInv(d)'
  <1> USE DEF diskVars, callerVars, historyVars, Goto
  <1>1. TypeOK /\ CallerInv(d)
    BY DEF Inv, TypeInv
  <1>2. /\ pc'[d] = pc[d] /\ mode'[d] = mode[d] /\ grants'[d] = grants[d]
        /\ blockers'[d] = blockers[d] /\ checked'[d] = checked[d]
        /\ environment'[d] = environment[d] /\ secrets'[d] = secrets[d]
        /\ wrong'[d] = wrong[d] /\ wrongOwned'[d] = wrongOwned[d]
        /\ contract' = contract /\ (d \in attempt' <=> d \in attempt) /\ host' = host
    BY <1>1
    DEF TypeOK, Execute, LoadState, Gate, Check, Decide, Look, Inherit, ReadSecrets,
        CreateAttempt, AttemptExists, Write, BeginRecheck, Recheck, Launch, Abandon
  <1>3. Evidence(d)' = Evidence(d)
    <2>1. CASE Write(c)
      BY <2>1, EvidenceOf DEF Write
    <2>2. CASE ~Write(c)
      BY <2>2
      DEF Execute, LoadState, Gate, Check, Decide, Inherit, ReadSecrets, CreateAttempt,
          AttemptExists, BeginRecheck, Recheck, Launch, Abandon, Evidence
    <2> QED
      BY <2>1, <2>2
  <1>4. Seen(d, CheckOrder)' = Seen(d, CheckOrder) /\ Seen(d, RecheckOrder)' = Seen(d, RecheckOrder)
    BY <1>2 DEF Seen, CheckOrder, RecheckOrder
  <1>5. Ownership(d)'
    BY <1>1, <1>2, <1>3 DEF CallerInv, Ownership, Owning
  <1>6. Permission(d)'
    BY <1>1, <1>2 DEF CallerInv, Permission, Passed, Owning
  <1>7. Before(d)'
    BY <1>1, <1>2, <1>4 DEF CallerInv, Before, Passed, Owning, Checked, RuntimeFacts
  <1>8. Owned(d)'
    BY <1>1, <1>2, <1>4 DEF CallerInv, Owned, Rechecked, RuntimeFacts
  <1>9. Lasting(d)'
    BY <1>1, <1>2 DEF CallerInv, Lasting, Wrong
  <1> QED
    BY <1>5, <1>6, <1>7, <1>8, <1>9 DEF CallerInv

(* A look that leaves no blocker saw a fact that holds now.                *)
LEMMA LookSees ==
    ASSUME TypeOK, NEW c \in Callers, NEW order, Len(order) \in Nat,
           Look(c, order), blockers'[c] = {}
    PROVE  /\ blockers[c] = {}
           /\ Seen(c, order)' = Seen(c, order) \cup {order[checked[c] + 1]}
           /\ host[order[checked[c] + 1]]
  <1>1. checked[c] \in Nat /\ checked'[c] = checked[c] + 1
    BY CheckRound DEF TypeOK, Look
  <1>2. blockers[c] = {} /\ host[order[checked[c] + 1]]
    BY DEF TypeOK, Look
  <1>3. 1 .. checked'[c] = (1 .. checked[c]) \cup {checked[c] + 1}
    BY <1>1
  <1>4. Seen(c, order)' = Seen(c, order) \cup {order[checked[c] + 1]}
    BY <1>3 DEF Seen
  <1> QED
    BY <1>2, <1>4

(* A round that has come to its end has seen all of its facts.             *)
LEMMA RoundIsComplete ==
    ASSUME NEW c
    PROVE  /\ checked[c] = Len(CheckOrder) => Checked \subseteq Seen(c, CheckOrder)
           /\ checked[c] = Len(RecheckOrder) => Rechecked \subseteq Seen(c, RecheckOrder)
  <1>1. ASSUME checked[c] = Len(CheckOrder), NEW f \in Checked PROVE f \in Seen(c, CheckOrder)
    <2>1. PICK i \in 1 .. Len(CheckOrder) : CheckOrder[i] = f
      BY <1>1, CheckRound DEF Checked
    <2> QED
      BY <1>1, <2>1 DEF Seen
  <1>2. ASSUME checked[c] = Len(RecheckOrder), NEW f \in Rechecked
        PROVE  f \in Seen(c, RecheckOrder)
    <2>1. PICK i \in 1 .. Len(RecheckOrder) : RecheckOrder[i] = f
      BY <1>2, RecheckRound DEF Rechecked
    <2> QED
      BY <1>2, <2>1 DEF Seen
  <1> QED
    BY <1>1, <1>2

(* Every step of a caller keeps what its place in the code tells.          *)
LEMMA OwnStep ==
    ASSUME Inv, NEW c \in Callers, Execute(c)
    PROVE  CallerInv(c)'
  <1> USE DEF diskVars, callerVars, historyVars, Goto, CallerInv
  <1>0. TypeOK /\ Ownership(c) /\ Permission(c) /\ Lasting(c) /\ Before(c) /\ Owned(c)
    BY DEF Inv, TypeInv
  <1>1. CASE LoadState(c)
    <2>1. /\ pc[c] = "start" /\ pc'[c] \in {"gate", "refused"}
          /\ grants'[c] = host["project"] /\ wrong'[c] = Wrong
      BY <1>0, <1>1 DEF LoadState, TypeOK
    <2>2. "project" \in Wrong <=> ~host["project"]
      BY DEF Wrong, Facts
    <2>3. Ownership(c)'
      BY <1>0, <1>1, <2>1 DEF LoadState, Ownership, Owning, Evidence
    <2>4. Permission(c)'
      BY <1>0, <1>1, <2>1 DEF LoadState, Permission, Owning, Passed
    <2>5. Lasting(c)'
      BY <1>0, <1>1, <2>1 DEF LoadState, Lasting, Wrong
    <2>6. Before(c)'
      BY <1>0, <1>1, <2>1, <2>2 DEF LoadState, Before, Owning, Passed
    <2>7. Owned(c)'
      BY <2>1 DEF Owned
    <2> QED
      BY <2>3, <2>4, <2>5, <2>6, <2>7
  <1>2. CASE Gate(c)
    <2>1. /\ pc[c] = "gate" /\ pc'[c] \in {"check", "refused"}
          /\ pc'[c] = "check" => grants[c] \/ mode[c] = "dry-run"
      BY <1>0, <1>2 DEF Gate, TypeOK
    <2>2. Ownership(c)' /\ Permission(c)' /\ Lasting(c)'
      BY <1>0, <1>2, <2>1 DEF Gate, Ownership, Permission, Lasting, Owning, Passed, Evidence, Wrong
    <2>3. Seen(c, CheckOrder)' = {}
      BY <1>0, <1>2, <2>1 DEF Gate, Before, Seen
    <2>4. Before(c)' /\ Owned(c)'
      BY <1>0, <1>2, <2>1, <2>3 DEF Gate, Before, Owned, Owning, Passed
    <2> QED
      BY <2>2, <2>4
  <1>3. CASE Check(c)
    <2>1. pc[c] = "check" /\ pc'[c] = "check"
      BY <1>3 DEF Check
    <2>2. Ownership(c)' /\ Permission(c)' /\ Lasting(c)' /\ Owned(c)'
      BY <1>0, <1>3, <2>1
      DEF Check, Ownership, Permission, Lasting, Owned, Owning, Passed, Evidence, Wrong
    <2>3. ASSUME blockers'[c] = {} PROVE Seen(c, CheckOrder)' \cap wrong'[c] = {}
      <3>1. /\ blockers[c] = {}
            /\ Seen(c, CheckOrder)' = Seen(c, CheckOrder) \cup {CheckOrder[checked[c] + 1]}
            /\ host[CheckOrder[checked[c] + 1]]
        BY <1>0, <1>3, <2>3, LookSees, CheckRound DEF Check
      <3>2. CheckOrder[checked[c] + 1] \notin wrong[c]
        BY <1>0, <3>1 DEF Lasting, Wrong
      <3> QED
        BY <1>0, <1>3, <2>1, <3>1, <3>2 DEF Check, Before
    <2>4. Before(c)'
      BY <1>0, <1>3, <2>1, <2>3 DEF Check, Before, Owning, Passed
    <2> QED
      BY <2>2, <2>4
  <1>4. CASE Decide(c)
    <2>1. /\ pc[c] = "check" /\ pc'[c] \in {"reported", "environment", "refused"}
          /\ checked[c] = Len(CheckOrder) /\ checked'[c] = 0
          /\ pc'[c] = "environment" => blockers[c] = {} /\ contract /\ mode[c] # "dry-run"
      BY <1>0, <1>4 DEF Decide, ContractBlockers, TypeOK
    <2>2. Ownership(c)' /\ Permission(c)' /\ Lasting(c)' /\ Owned(c)'
      BY <1>0, <1>4, <2>1
      DEF Decide, Ownership, Permission, Lasting, Owned, Owning, Passed, Evidence, Wrong
    <2>3. pc'[c] = "environment" => Checked \cap wrong[c] = {}
      BY <1>0, <2>1, RoundIsComplete DEF Before
    <2>4. Before(c)'
      BY <1>0, <1>4, <2>1, <2>3 DEF Decide, Before, Owning, Passed, Checked, RuntimeFacts
    <2> QED
      BY <2>2, <2>4
  <1>5. CASE Inherit(c)
    <2>1. /\ pc[c] = "environment" /\ pc'[c] \in {"secrets", "refused"}
          /\ environment'[c] = host["environment"]
          /\ pc'[c] = "secrets" => host["environment"]
      BY <1>0, <1>5 DEF Inherit, TypeOK
    <2>2. Ownership(c)' /\ Permission(c)' /\ Lasting(c)' /\ Owned(c)'
      BY <1>0, <1>5, <2>1
      DEF Inherit, Ownership, Permission, Lasting, Owned, Owning, Passed, Evidence, Wrong
    <2>3. Before(c)'
      BY <1>0, <1>5, <2>1 DEF Inherit, Before, Owning, Passed, Checked, RuntimeFacts
    <2> QED
      BY <2>2, <2>3
  <1>6. CASE ReadSecrets(c)
    <2>1. /\ pc[c] = "secrets" /\ pc'[c] \in {"create", "refused"}
          /\ pc'[c] = "create" => host["secret"]
      BY <1>0, <1>6 DEF ReadSecrets, TypeOK
    <2>2. Ownership(c)' /\ Permission(c)' /\ Lasting(c)' /\ Owned(c)'
      BY <1>0, <1>6, <2>1
      DEF ReadSecrets, Ownership, Permission, Lasting, Owned, Owning, Passed, Evidence, Wrong
    <2>3. pc'[c] = "create" => "secret" \notin wrong[c]
      BY <1>0, <2>1 DEF Lasting, Wrong
    <2>4. Before(c)'
      BY <1>0, <1>6, <2>1, <2>3
      DEF ReadSecrets, Before, Owning, Passed, Checked, RuntimeFacts
    <2> QED
      BY <2>2, <2>4
  <1>7. CASE CreateAttempt(c)
    <2>1. /\ pc[c] = "create" /\ pc'[c] = "write" /\ wrongOwned'[c] = Wrong
          /\ attempt' = attempt \cup {c}
      BY <1>0, <1>7 DEF CreateAttempt, TypeOK
    <2>2. Ownership(c)' /\ Permission(c)' /\ Lasting(c)' /\ Owned(c)'
      BY <1>0, <1>7, <2>1
      DEF CreateAttempt, Ownership, Permission, Lasting, Owned, Owning, Passed, Evidence, Wrong
    <2>3. Before(c)'
      BY <1>0, <1>7, <2>1 DEF CreateAttempt, Before, Owning, Passed, Checked, RuntimeFacts
    <2> QED
      BY <2>2, <2>3
  <1>8. CASE AttemptExists(c)
    <2>1. pc[c] = "create" /\ pc'[c] = "refused"
      BY <1>0, <1>8 DEF AttemptExists, TypeOK
    <2>2. Ownership(c)' /\ Permission(c)' /\ Lasting(c)' /\ Owned(c)'
      BY <1>0, <1>8, <2>1
      DEF AttemptExists, Ownership, Permission, Lasting, Owned, Owning, Passed, Evidence, Wrong
    <2>3. Before(c)'
      BY <1>0, <1>8, <2>1 DEF AttemptExists, Before, Owning, Passed
    <2> QED
      BY <2>2, <2>3
  <1>9. CASE Write(c)
    <2>1. pc[c] = "write" /\ pc'[c] = "write" /\ c \in attempt
      BY <1>0, <1>9 DEF Write, Ownership, Owning
    <2>2. Ownership(c)' /\ Permission(c)' /\ Lasting(c)' /\ Owned(c)'
      BY <1>0, <1>9, <2>1
      DEF Write, Ownership, Permission, Lasting, Owned, Owning, Passed, Wrong
    <2>3. Before(c)'
      BY <1>0, <1>9, <2>1 DEF Write, Before, Owning, Passed, Checked, RuntimeFacts
    <2> QED
      BY <2>2, <2>3
  <1>10. CASE BeginRecheck(c)
    <2>1. pc[c] = "write" /\ pc'[c] = "recheck" /\ checked[c] = 0 /\ checked' = checked
      BY <1>0, <1>10 DEF BeginRecheck, TypeOK, Before
    <2>2. Seen(c, RecheckOrder)' = {}
      BY <2>1 DEF Seen
    <2>3. Ownership(c)' /\ Permission(c)' /\ Lasting(c)' /\ Owned(c)'
      BY <1>0, <1>10, <2>1, <2>2
      DEF BeginRecheck, Ownership, Permission, Lasting, Owned, Owning, Passed, Evidence, Wrong
    <2>4. Before(c)'
      BY <1>0, <1>10, <2>1 DEF BeginRecheck, Before, Owning, Passed, Checked, RuntimeFacts
    <2> QED
      BY <2>3, <2>4
  <1>11. CASE Recheck(c)
    <2>1. pc[c] = "recheck" /\ pc'[c] = "recheck"
      BY <1>11 DEF Recheck
    <2>2. Ownership(c)' /\ Permission(c)' /\ Lasting(c)'
      BY <1>0, <1>11, <2>1
      DEF Recheck, Ownership, Permission, Lasting, Owning, Passed, Evidence, Wrong
    <2>3. Before(c)'
      BY <1>0, <1>11, <2>1 DEF Recheck, Before, Owning, Passed, Checked, RuntimeFacts
    <2>4. ASSUME blockers'[c] = {} PROVE Seen(c, RecheckOrder)' \cap wrongOwned'[c] = {}
      <3>1. /\ blockers[c] = {}
            /\ Seen(c, RecheckOrder)' = Seen(c, RecheckOrder) \cup {RecheckOrder[checked[c] + 1]}
            /\ host[RecheckOrder[checked[c] + 1]]
        BY <1>0, <1>11, <2>4, LookSees, RecheckRound DEF Recheck
      <3>2. RecheckOrder[checked[c] + 1] \notin wrongOwned[c]
        BY <1>0, <3>1 DEF Lasting, Wrong
      <3> QED
        BY <1>0, <1>11, <2>1, <3>1, <3>2 DEF Recheck, Owned
    <2>5. Owned(c)'
      BY <2>1, <2>4 DEF Owned
    <2> QED
      BY <2>2, <2>3, <2>5
  <1>12. CASE Launch(c)
    <2>1. /\ pc[c] = "recheck" /\ pc'[c] \in {"launched", "launch-error"}
          /\ pc'[c] = "launched" => blockers[c] = {} /\ checked[c] = Len(RecheckOrder)
      BY <1>0, <1>12 DEF Launch, TypeOK
    <2>2. Ownership(c)' /\ Permission(c)' /\ Lasting(c)'
      BY <1>0, <1>12, <2>1
      DEF Launch, Ownership, Permission, Lasting, Owning, Passed, Evidence, Wrong
    <2>3. Before(c)'
      BY <1>0, <1>12, <2>1 DEF Launch, Before, Owning, Passed, Checked, RuntimeFacts
    <2>4. pc'[c] = "launched" => Rechecked \cap wrongOwned[c] = {}
      BY <1>0, <2>1, RoundIsComplete DEF Owned
    <2>5. Owned(c)'
      BY <1>12, <2>1, <2>4 DEF Launch, Owned, Rechecked, RuntimeFacts
    <2> QED
      BY <2>2, <2>3, <2>5
  <1>13. CASE Abandon(c)
    <2>1. pc[c] \in {"write", "recheck"} /\ pc'[c] = "abandoned"
      BY <1>0, <1>13 DEF Abandon, TypeOK
    <2>2. Ownership(c)' /\ Permission(c)' /\ Lasting(c)' /\ Owned(c)'
      BY <1>0, <1>13, <2>1
      DEF Abandon, Ownership, Permission, Lasting, Owned, Owning, Passed, Evidence, Wrong
    <2>3. Before(c)'
      BY <1>0, <1>13, <2>1 DEF Abandon, Before, Owning, Passed, Checked, RuntimeFacts
    <2> QED
      BY <2>2, <2>3
  <1> QED
    BY <1>1, <1>2, <1>3, <1>4, <1>5, <1>6, <1>7, <1>8, <1>9, <1>10, <1>11, <1>12, <1>13 DEF Execute

(* A change of the host only makes facts less wrong that were wrong all    *)
(* the time.                                                               *)
LEMMA ChangeStep ==
    ASSUME Inv, NEW f \in Facts, Change(f), NEW c \in Callers
    PROVE  CallerInv(c)'
  <1> USE DEF diskVars, callerVars
  <1>0. TypeOK /\ Ownership(c) /\ Permission(c) /\ Lasting(c) /\ Before(c) /\ Owned(c)
    BY DEF Inv, TypeInv, CallerInv
  <1>1. wrong'[c] \subseteq wrong[c] /\ wrongOwned'[c] \subseteq wrongOwned[c]
    BY DEF Change
  <1>2. Lasting(c)'
    BY <1>0 DEF Change, Lasting, Wrong, TypeOK
  <1>3. Ownership(c)' /\ Permission(c)'
    BY <1>0 DEF Change, Ownership, Permission, Owning, Passed, Evidence
  <1>4. Seen(c, CheckOrder)' = Seen(c, CheckOrder) /\ Seen(c, RecheckOrder)' = Seen(c, RecheckOrder)
    BY DEF Change, Seen, CheckOrder, RecheckOrder
  <1>5. Before(c)'
    BY <1>0, <1>1, <1>4 DEF Change, Before, Owning, Passed, Checked, RuntimeFacts
  <1>6. Owned(c)'
    BY <1>0, <1>1, <1>4 DEF Change, Owned, Rechecked, RuntimeFacts
  <1> QED
    BY <1>2, <1>3, <1>5, <1>6 DEF CallerInv

LEMMA InvStep == Inv /\ [Next]_vars => Inv'
  <1> SUFFICES ASSUME Inv, [Next]_vars PROVE Inv'
    OBVIOUS
  <1> USE DEF diskVars, callerVars, historyVars
  <1>0. TypeInv'
    BY TypeStep DEF Inv
  <1>1. ASSUME NEW c \in Callers, Execute(c) PROVE Inv'
    <2>1. \A a, b \in attempt' : a = b
      BY <1>1
      DEF Inv, Execute, LoadState, Gate, Check, Decide, Inherit, ReadSecrets, CreateAttempt,
          NoDirectory, AttemptExists, Write, BeginRecheck, Recheck, Launch, Abandon
    <2>2. \A d \in Callers : CallerInv(d)'
      BY <1>1, OwnStep, OtherCaller
    <2> QED
      BY <1>0, <2>1, <2>2 DEF Inv
  <1>2. ASSUME NEW f \in Facts, Change(f) PROVE Inv'
    <2>1. \A a, b \in attempt' : a = b
      BY <1>2 DEF Inv, Change
    <2>2. \A c \in Callers : CallerInv(c)'
      BY <1>2, ChangeStep
    <2> QED
      BY <1>0, <2>1, <2>2 DEF Inv
  <1>3. CASE UNCHANGED vars
    <2>1. ASSUME NEW c \in Callers PROVE CallerInv(c)'
      <3>1. CallerInv(c)
        BY DEF Inv
      <3> QED
        BY <1>3, <3>1
        DEF vars, CallerInv, Ownership, Permission, Lasting, Before, Owned, Evidence, Wrong,
            Seen, Checked, Rechecked, RuntimeFacts, CheckOrder, RecheckOrder, Owning, Passed
    <2> QED
      BY <1>0, <1>3, <2>1 DEF vars, Inv
  <1> QED
    BY <1>1, <1>2, <1>3 DEF Next, Ended

(* What a caller's place in the code tells holds in every state.           *)
THEOREM Invariance == Spec => []Inv
  BY InitialInv, InvStep, PTL DEF Spec

-----------------------------------------------------------------------------
(* What follows from it.                                                   *)

(* However many callers race for one attempt, its directory holds the      *)
(* evidence of one of them, and one of them at most starts a process.      *)
THEOREM AttemptHasOneOwner == Spec => []OneOwner
  <1>1. Inv => OneOwner
    <2> SUFFICES ASSUME Inv PROVE OneOwner
      OBVIOUS
    <2>1. ASSUME NEW f \in files PROVE f.by \in attempt
      <3>1. f.by \in Callers /\ f \in Evidence(f.by)
        BY <2>1 DEF Inv, TypeInv, TypeOK, Evidence
      <3> QED
        BY <3>1 DEF Inv, CallerInv, Ownership
    <2>2. ASSUME NEW c \in Callers, pc[c] = "launched" PROVE c \in attempt
      BY <2>2 DEF Inv, CallerInv, Ownership, Owning
    <2> QED
      BY <2>1, <2>2 DEF Inv, OneOwner
  <1> QED
    BY <1>1, Invariance, PTL

(* A refusal and a dry run leave no evidence and no attempt directory.     *)
THEOREM RefusedLeaveNothing == Spec => []RefusedLeavesNothing
  <1>1. Inv => RefusedLeavesNothing
    BY DEF Inv, CallerInv, Ownership, Permission, Owning, Passed, RefusedLeavesNothing
  <1> QED
    BY <1>1, Invariance, PTL

(* Whatever is wrong all the time, in the project state, the host, the     *)
(* environment, the secrets or the contract itself, is refused before      *)
(* there is evidence: no sequence of changes elsewhere hides it.           *)
THEOREM StaleIsRefused == Spec => []StaleLeavesNoEvidence
  <1>1. Inv => StaleLeavesNoEvidence
    <2> SUFFICES ASSUME Inv, NEW c \in Callers, Evidence(c) # {}
                 PROVE  wrong[c] = {} /\ contract
      BY DEF StaleLeavesNoEvidence
    <2>1. pc[c] \in Owning
      BY DEF Inv, CallerInv, Ownership
    <2>2. pc[c] \in Passed /\ pc[c] # "start"
      BY <2>1 DEF Passed, Owning
    <2>3. contract /\ grants[c]
      BY <2>2 DEF Inv, CallerInv, Permission
    <2>4. /\ "project" \notin wrong[c] /\ "secret" \notin wrong[c]
          /\ Checked \cap wrong[c] = {}
      BY <2>1, <2>2, <2>3 DEF Inv, CallerInv, Before
    <2>5. wrong[c] \subseteq Checked \cup {"project", "secret"}
      BY DEF Inv, TypeInv, TypeOK, Facts, Checked
    <2> QED
      BY <2>3, <2>4, <2>5
  <1> QED
    BY <1>1, Invariance, PTL

(* A started process had each of its identities right at some moment after *)
(* its attempt was created, and got the inherited values it was bound to.  *)
THEOREM LaunchIsBound == Spec => []LaunchedAsBound
  <1>1. Inv => LaunchedAsBound
    BY DEF Inv, CallerInv, Before, Owned, Rechecked, Owning, Passed, LaunchedAsBound
  <1> QED
    BY <1>1, Invariance, PTL

(* Secret values are read for permitted live runs only.                    *)
THEOREM SecretsStayUnread == Spec => []SecretsReadForLiveRuns
  <1>1. Inv => SecretsReadForLiveRuns
    BY DEF Inv, CallerInv, Permission, SecretsReadForLiveRuns
  <1> QED
    BY <1>1, Invariance, PTL

=============================================================================
