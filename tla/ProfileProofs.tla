---------------------------- MODULE ProfileProofs ----------------------------
(***************************************************************************)
(* Theorems about ProfileAuthorization, for any first profile, any set of  *)
(* condition plans and any number of edits.                                *)
(***************************************************************************)
EXTENDS ProfileAuthorization, FiniteSetTheorems, SequenceTheorems, TLAPS

(* The loader has seen the recorded authorization, which is never recorded *)
(* again.                                                                  *)
Authorized == pc \notin {"state", "unauthorized"} => author = "done"

(* What was hashed is what is parsed, unless the file changed in between.  *)
HashedIsParsed ==
    ~swapped =>
        /\ pc = "parse" => profile = state.profile
        /\ pc = "plans" \/ Granted => parsed = state.profile

(* What the last decision compared stays as it was. *)
Decided == Granted => Coherent(parsed, loaded) /\ Loaded = state.children

(* An admitted plan is one of the recorded children. *)
AdmittedIsRecorded == pc = "admitted" => admitted \in state.children

Inv == Authorized /\ HashedIsParsed /\ Decided /\ AdmittedIsRecorded

LEMMA InitialInv == Init => Inv
  BY DEF Init, Inv, Authorized, HashedIsParsed, Decided, AdmittedIsRecorded, Granted

(* No edit reaches what the loader already holds.                          *)
LEMMA EditStep ==
    ASSUME Inv, Edited,
           swapped' = swapped \/ swapped' = (swapped \/ pc = "parse"),
           ~swapped' => profile' = profile \/ pc # "parse"
    PROVE  Inv'
  <1> USE DEF Edited, loadVars
  <1>1. /\ pc' = pc /\ parsed' = parsed /\ loaded' = loaded /\ admitted' = admitted
        /\ author' = author /\ state' = state
    OBVIOUS
  <1>2. Authorized' /\ AdmittedIsRecorded'
    BY <1>1 DEF Inv, Authorized, AdmittedIsRecorded
  <1>3. HashedIsParsed'
    BY <1>1 DEF Inv, HashedIsParsed, Granted
  <1>4. Decided'
    <2>1. Coherent(parsed, loaded)' <=> Coherent(parsed, loaded)
      BY <1>1
    <2> QED
      BY <1>1, <2>1 DEF Inv, Decided, Granted, Loaded
  <1> QED
    BY <1>2, <1>3, <1>4 DEF Inv

LEMMA InvStep == Inv /\ [Next]_vars => Inv'
  <1> SUFFICES ASSUME Inv, [Next]_vars PROVE Inv'
    OBVIOUS
  <1> USE DEF fileVars, loadVars, historyVars
  <1>1. ASSUME NEW p \in Paths, EditPlan(p) PROVE Inv'
    BY <1>1, EditStep DEF EditPlan
  <1>2. CASE EditProfile
    BY <1>2, EditStep DEF EditProfile
  <1>3. ASSUME NEW p \in Paths, NEW q \in Paths, Exchange(p, q) PROVE Inv'
    <2>1. Edited /\ author = "writes" /\ swapped' = swapped
      BY <1>3 DEF Exchange
    <2>2. pc # "parse"
      BY <2>1 DEF Inv, Authorized
    <2> QED
      BY <2>1, <2>2, EditStep
  <1>4. CASE Authorize \/ Record
    <2>1. pc \in {"state", "unauthorized"}
      BY <1>4 DEF Authorize, Record, Inv, Authorized
    <2>2. pc' = pc
      BY <1>4 DEF Authorize, Record
    <2> QED
      BY <2>1, <2>2
      DEF Inv, Authorized, HashedIsParsed, Decided, AdmittedIsRecorded, Granted
  <1>5. CASE ReadState \/ HashProfile \/ ParseProfile \/ LoadPlan
    <2>1. /\ pc' \in {"hash", "parse", "plans", "refused", "unauthorized"}
          /\ author' = author /\ state' = state /\ profile' = profile /\ swapped' = swapped
      BY <1>5 DEF ReadState, HashProfile, ParseProfile, LoadPlan, Goto
    <2>2. Authorized'
      BY <1>5, <2>1 DEF Inv, Authorized, ReadState, HashProfile, ParseProfile, LoadPlan, Goto
    <2>3. HashedIsParsed'
      BY <1>5, <2>1
      DEF Inv, HashedIsParsed, Granted, ReadState, HashProfile, ParseProfile, LoadPlan, Goto
    <2> QED
      BY <2>1, <2>2, <2>3 DEF Inv, Decided, AdmittedIsRecorded, Granted
  <1>6. CASE Decide
    <2>1. /\ pc = "plans" /\ pc' \in {"granted", "refused"}
          /\ author' = author /\ state' = state /\ profile' = profile /\ swapped' = swapped
          /\ parsed' = parsed /\ loaded' = loaded
          /\ pc' = "granted" => Coherent(parsed, loaded) /\ Loaded = state.children
      BY <1>6 DEF Decide, Goto, AllSealed
    <2>2. Coherent(parsed, loaded)' <=> Coherent(parsed, loaded)
      BY <2>1
    <2> QED
      BY <2>1, <2>2
      DEF Inv, Authorized, HashedIsParsed, Decided, AdmittedIsRecorded, Granted, Loaded
  <1>7. ASSUME NEW p \in Paths, Admit(p) PROVE Inv'
    <2>1. /\ pc = "granted" /\ pc' \in {"admitted", "blocked"}
          /\ author' = author /\ state' = state /\ profile' = profile /\ swapped' = swapped
          /\ parsed' = parsed /\ loaded' = loaded
          /\ pc' = "admitted" => admitted' \in state.children
      BY <1>7 DEF Admit, Goto
    <2>2. Coherent(parsed, loaded)' <=> Coherent(parsed, loaded)
      BY <2>1
    <2> QED
      BY <2>1, <2>2
      DEF Inv, Authorized, HashedIsParsed, Decided, AdmittedIsRecorded, Granted, Loaded
  <1>8. CASE UNCHANGED vars
    <2>1. Coherent(parsed, loaded)' <=> Coherent(parsed, loaded)
      BY <1>8 DEF vars
    <2> QED
      BY <1>8, <2>1
      DEF vars, Inv, Authorized, HashedIsParsed, Decided, AdmittedIsRecorded, Granted, Loaded
  <1> QED
    BY <1>1, <1>2, <1>3, <1>4, <1>5, <1>6, <1>7, <1>8 DEF Next, Over

(* Whatever is edited while the files are read, what is granted is what    *)
(* was recorded.                                                           *)
THEOREM GrantIsRecorded == Spec => []GrantedAsRecorded
  <1>1. Inv => GrantedAsRecorded
    BY DEF Inv, HashedIsParsed, Decided, GrantedAsRecorded
  <1> QED
    BY <1>1, InitialInv, InvStep, PTL DEF Spec

-----------------------------------------------------------------------------
(* What the plans say has the form that load_run_plan insists on.          *)

WellFormedPlans ==
    /\ DOMAIN plans = Paths
    /\ \A p \in Paths :
         /\ plans[p] = [body |-> plans[p].body, parent |-> plans[p].parent]
         /\ plans[p].body \in Bodies
    /\ \A p \in DOMAIN loaded : loaded[p] \in Bodies

(* An edit of one field leaves a plan a plan.                              *)
LEMMA EditedBody ==
    ASSUME NEW b \in Bodies, NEW f \in DOMAIN Values, NEW v \in Values[f]
    PROVE  [b EXCEPT ![f] = v] \in Bodies
  <1>1. f \in {"condition", "task", "pair", "order", "fixed", "cap", "fits", "listed", "typed"}
    BY DEF Values
  <1>2. CASE f \in {"condition", "task", "pair", "order"}
    BY <1>2 DEF Bodies, Values
  <1>3. CASE f \in {"fixed", "cap", "fits", "listed", "typed"}
    BY <1>3 DEF Bodies, Values
  <1> QED
    BY <1>1, <1>2, <1>3

LEMMA ReboundBody ==
    ASSUME NEW b \in Bodies, NEW other \in Bodies, NEW k \in {1, 2}
    PROVE  Rebound(b, other, k) \in Bodies
  <1>1. other.task \in {1, 2} /\ other.pair \in {1, 2}
    BY DEF Bodies, Values
  <1> QED
    BY <1>1 DEF Rebound, Bodies, Values

LEMMA WellFormedStep == WellFormedPlans /\ [Next]_vars => WellFormedPlans'
  <1> SUFFICES ASSUME WellFormedPlans, [Next]_vars PROVE WellFormedPlans'
    OBVIOUS
  <1> USE DEF fileVars, loadVars, historyVars, WellFormedPlans
  <1>1. ASSUME NEW p \in Paths, EditPlan(p) PROVE WellFormedPlans'
    <2>1. PICK f \in DOMAIN Values : \E v \in Values[f] :
             plans' = [plans EXCEPT ![p].body[f] = v]
      BY <1>1 DEF EditPlan
    <2>2. PICK v \in Values[f] : plans' = [plans EXCEPT ![p].body[f] = v]
      BY <2>1
    <2>3. [plans[p].body EXCEPT ![f] = v] \in Bodies
      BY EditedBody
    <2>4. plans'[p] = [body |-> [plans[p].body EXCEPT ![f] = v], parent |-> plans[p].parent]
      BY <2>2
    <2> QED
      BY <1>1, <2>2, <2>3, <2>4 DEF EditPlan, Edited
  <1>2. ASSUME NEW p \in Paths, NEW q \in Paths, Exchange(p, q) PROVE WellFormedPlans'
    <2>1. PICK m \in {1, 2}, n \in {1, 2} :
             plans' = [r \in Paths |->
                         IF r = p THEN [plans[r] EXCEPT !.body = Rebound(@, plans[q].body, m)]
                         ELSE IF r = q THEN [plans[r] EXCEPT !.body = Rebound(@, plans[p].body, n)]
                         ELSE plans[r]]
      BY <1>2 DEF Exchange
    <2>2. /\ Rebound(plans[p].body, plans[q].body, m) \in Bodies
          /\ Rebound(plans[q].body, plans[p].body, n) \in Bodies
      BY <2>1, ReboundBody
    <2>3. loaded' = loaded
      BY <1>2 DEF Exchange, Edited
    <2>4. /\ [plans[p] EXCEPT !.body = Rebound(@, plans[q].body, m)]
               = [body |-> Rebound(plans[p].body, plans[q].body, m), parent |-> plans[p].parent]
          /\ [plans[q] EXCEPT !.body = Rebound(@, plans[p].body, n)]
               = [body |-> Rebound(plans[q].body, plans[p].body, n), parent |-> plans[q].parent]
      OBVIOUS
    <2> QED
      BY <2>1, <2>2, <2>3, <2>4
  <1>3. CASE Authorize
    <2>1. \A b \in Bodies : [b EXCEPT !.authorized = TRUE] \in Bodies
      BY DEF Bodies
    <2> QED
      BY <1>3, <2>1 DEF Authorize
  <1>4. CASE LoadPlan
    BY <1>4 DEF LoadPlan, Goto
  <1>5. CASE EditProfile \/ Record \/ ReadState \/ HashProfile \/ ParseProfile \/ Decide
    BY <1>5 DEF EditProfile, Edited, Record, ReadState, HashProfile, ParseProfile, Decide, Goto
  <1>6. ASSUME NEW p \in Paths, Admit(p) PROVE WellFormedPlans'
    BY <1>6 DEF Admit, Goto
  <1>7. CASE UNCHANGED vars
    BY <1>7 DEF vars
  <1> QED
    BY <1>1, <1>2, <1>3, <1>4, <1>5, <1>6, <1>7 DEF Next, Over

(* Every recorded child is bound to one pair of the parsed profile, and    *)
(* says so.                                                                *)
LEMMA BoundToItsPair ==
    ASSUME NEW prof, NEW records, Coherent(prof, records), NEW p \in DOMAIN records
    PROVE  \E i \in DOMAIN prof.pairs : \E b \in prof.pairs[i].plans :
              b.path = p /\ Bound(prof.pairs[i], b, records)
  <1>1. p \in BoundPaths(prof)
    BY DEF Coherent
  <1>2. PICK x \in Bindings(prof) : x[2].path = p
    BY <1>1 DEF BoundPaths
  <1>3. PICK i \in DOMAIN prof.pairs : \E b \in prof.pairs[i].plans : x = <<i, b>>
    BY <1>2 DEF Bindings
  <1>4. PICK b \in prof.pairs[i].plans : x = <<i, b>>
    BY <1>3
  <1>5. Bound(prof.pairs[x[1]], x[2], records)
    BY <1>2 DEF Coherent
  <1> QED
    BY <1>2, <1>4, <1>5

(* An admitted plan and the recorded children of its pair are matched: the *)
(* same task, fixed values and cap, and the orders of their conditions.    *)
THEOREM AdmittedAreMatched == Spec => []AdmittedIsMatched
  <1>1. Init => WellFormedPlans
    BY ProfileAssumption DEF Init, WellFormedPlans
  <1>2. Inv /\ WellFormedPlans => AdmittedIsMatched
    <2> SUFFICES ASSUME Inv, WellFormedPlans, pc = "admitted"
                 PROVE  AdmittedIsMatched
      BY DEF AdmittedIsMatched
    <2>1. Coherent(parsed, loaded) /\ admitted \in Loaded
      BY DEF Inv, Decided, AdmittedIsRecorded, Granted
    <2>2. PICK q \in DOMAIN loaded : admitted = loaded[q]
      BY <2>1 DEF Loaded
    <2>3. PICK i \in DOMAIN parsed.pairs : \E b \in parsed.pairs[i].plans :
             b.path = q /\ Bound(parsed.pairs[i], b, loaded)
      BY <2>1, BoundToItsPair
    <2>4. PICK b \in parsed.pairs[i].plans : b.path = q /\ Bound(parsed.pairs[i], b, loaded)
      BY <2>3
    <2>5. /\ parsed.pairs[i].first \in Conditions
          /\ Matched(parsed.pairs[i], loaded)
          /\ \A j \in DOMAIN parsed.pairs : parsed.pairs[j].id = parsed.pairs[i].id => j = i
      BY <2>1 DEF Coherent, OrderedPairs
    <2>6. /\ admitted.pair = parsed.pairs[i].id /\ admitted.task = parsed.pairs[i].task
          /\ admitted.order = IF admitted.condition = parsed.pairs[i].first THEN 1 ELSE 2
          /\ admitted.condition \in Conditions
      BY <2>2, <2>4 DEF Bound, WellFormedPlans, Bodies, Values
    <2>7. ASSUME NEW p \in DOMAIN loaded, loaded[p].pair = admitted.pair
          PROVE  /\ loaded[p].task = admitted.task
                 /\ loaded[p].fixed = admitted.fixed /\ loaded[p].cap = admitted.cap
                 /\ loaded[p].order = admitted.order <=> loaded[p].condition = admitted.condition
      <3>1. PICK j \in DOMAIN parsed.pairs : \E d \in parsed.pairs[j].plans :
               d.path = p /\ Bound(parsed.pairs[j], d, loaded)
        BY <2>1, BoundToItsPair
      <3>2. PICK d \in parsed.pairs[j].plans : d.path = p /\ Bound(parsed.pairs[j], d, loaded)
        BY <3>1
      <3>3. j = i
        BY <2>5, <2>6, <2>7, <3>2 DEF Bound
      <3>4. /\ loaded[p].task = admitted.task
            /\ loaded[p].fixed = admitted.fixed /\ loaded[p].cap = admitted.cap
        BY <2>2, <2>4, <2>5, <2>6, <3>2, <3>3 DEF Bound, Matched
      <3>5. /\ loaded[p].order = IF loaded[p].condition = parsed.pairs[i].first THEN 1 ELSE 2
            /\ loaded[p].condition \in Conditions
        BY <3>2, <3>3 DEF Bound, WellFormedPlans, Bodies, Values
      <3> QED
        BY <2>5, <2>6, <3>4, <3>5 DEF Conditions
    <2>8. /\ parsed.pairs[i].id = admitted.pair
          /\ admitted.order = 1 <=> parsed.pairs[i].first = admitted.condition
      BY <2>6
    <2> QED
      BY <2>7, <2>8 DEF AdmittedIsMatched
  <1> QED
    BY <1>1, <1>2, WellFormedStep, InitialInv, InvStep, PTL DEF Spec

-----------------------------------------------------------------------------
(* A profile keeps the form its schema gives it.                           *)

(* An edit of one binding makes a binding of it.                           *)
Binding == [path : Paths, condition : Conditions]

LEMMA EditedBinding ==
    ASSUME NEW b \in Binding
    PROVE  /\ \A p \in Paths : [b EXCEPT !.path = p] \in Binding
           /\ [b EXCEPT !.condition = OtherOf(@)] \in Binding
  BY DEF Binding, OtherOf, Conditions

LEMMA EditedProfile ==
    ASSUME NEW prof \in Profiles, NEW new \in Variants(prof)
    PROVE  new \in Profiles /\ new.authorized = prof.authorized
  <1> DEFINE P == prof.pairs
             Pair == [id : Values.pair, task : Values.task, first : Conditions,
                      second : Conditions, plans : SUBSET [path : Paths, condition : Conditions]]
             Recounted ==
               {[prof EXCEPT !.count = n] : n \in {1, 2}}
             Recapped ==
               {[prof EXCEPT !.cap = n] : n \in {3, 4}}
             Restated ==
               {[prof EXCEPT !.eligible = ~@], [prof EXCEPT !.blockers = ~@]}
             Respelled ==
               {[prof EXCEPT !.form = f] : f \in Forms}
             Shortened ==
               {[prof EXCEPT !.paths = RemoveAt(@, i)] : i \in DOMAIN prof.paths}
             Turned ==
               {[prof EXCEPT !.pairs[i].first = OtherOf(@)] : i \in DOMAIN prof.pairs}
             Retasked ==
               {[prof EXCEPT !.pairs[i].task = t] : i \in DOMAIN prof.pairs, t \in {1, 2}}
             Renamed ==
               {[prof EXCEPT !.pairs[i].id = t] : i \in DOMAIN prof.pairs, t \in {1, 2}}
             Repathed ==
               UNION {{[prof EXCEPT !.pairs[i].plans = (@ \ {b}) \cup {[b EXCEPT !.path = p]}] :
                        b \in prof.pairs[i].plans, p \in Paths} : i \in DOMAIN prof.pairs}
             Flipped ==
               UNION {{[prof EXCEPT !.pairs[i].plans =
                        (@ \ {b}) \cup {[b EXCEPT !.condition = OtherOf(@)]}] :
                        b \in prof.pairs[i].plans} : i \in DOMAIN prof.pairs}
  <1>1. /\ prof.paths \in Seq(Paths) /\ P \in Seq(Pair)
        /\ DOMAIN P = 1 .. Len(P) /\ \A i \in DOMAIN P : P[i] \in Pair
    <2>1. prof.paths \in Seq(Paths) /\ P \in Seq(Pair)
      BY DEF Profiles
    <2> QED
      BY <2>1, LenProperties, ElementOfSeq
  <1>2. ASSUME NEW i \in DOMAIN P, NEW e \in Pair
        PROVE  [prof EXCEPT !.pairs[i] = e] \in Profiles
    <2>1. [P EXCEPT ![i] = e] \in Seq(Pair)
      BY <1>1, ExceptSeq
    <2>2. [prof EXCEPT !.pairs[i] = e] = [prof EXCEPT !.pairs = [P EXCEPT ![i] = e]]
      BY DEF Profiles
    <2> QED
      BY <2>1, <2>2 DEF Profiles
  <1>3. CASE new \in Recounted
    BY <1>3 DEF Profiles
  <1>4. CASE new \in Recapped
    BY <1>4 DEF Profiles
  <1>5. CASE new \in Shortened
    <2>1. PICK i \in DOMAIN prof.paths : new = [prof EXCEPT !.paths = RemoveAt(@, i)]
      BY <1>5
    <2>2. RemoveAt(prof.paths, i) \in Seq(Paths)
      <3>1. i \in 1 .. Len(prof.paths) /\ Len(prof.paths) \in Nat
        BY <1>1, LenProperties
      <3>2. RemoveAt(prof.paths, i)
              = SubSeq(prof.paths, 1, i - 1) \o SubSeq(prof.paths, i + 1, Len(prof.paths))
        BY DEF RemoveAt
      <3> QED
        BY <1>1, <3>1, <3>2
    <2> QED
      BY <2>1, <2>2 DEF Profiles
  <1>6. CASE new \in Turned
    <2>1. PICK i \in DOMAIN P : new = [prof EXCEPT !.pairs[i].first = OtherOf(@)]
      BY <1>6
    <2>2. [P[i] EXCEPT !.first = OtherOf(@)] \in Pair
      BY <1>1 DEF OtherOf, Conditions
    <2> QED
      BY <1>2, <2>1, <2>2 DEF Profiles
  <1>7. CASE new \in Retasked
    <2>1. PICK i \in DOMAIN P, t \in {1, 2} : new = [prof EXCEPT !.pairs[i].task = t]
      BY <1>7
    <2>2. [P[i] EXCEPT !.task = t] \in Pair
      BY <1>1 DEF Values
    <2> QED
      BY <1>2, <2>1, <2>2 DEF Profiles
  <1>8. CASE new \in Renamed
    <2>1. PICK i \in DOMAIN P, t \in {1, 2} : new = [prof EXCEPT !.pairs[i].id = t]
      BY <1>8
    <2>2. [P[i] EXCEPT !.id = t] \in Pair
      BY <1>1 DEF Values
    <2> QED
      BY <1>2, <2>1, <2>2 DEF Profiles
  <1>9. ASSUME NEW i \in DOMAIN P, NEW b \in P[i].plans, NEW d \in [path : Paths, condition : Conditions],
               new = [prof EXCEPT !.pairs[i].plans = (@ \ {b}) \cup {d}]
        PROVE  new \in Profiles /\ new.authorized = prof.authorized
    <2>1. [P[i] EXCEPT !.plans = (@ \ {b}) \cup {d}] \in Pair
      BY <1>1
    <2> QED
      BY <1>2, <1>9, <2>1 DEF Profiles
  <1>14. ASSUME NEW i \in DOMAIN P, NEW b \in P[i].plans
         PROVE  b \in Binding
    <2>1. P[i].plans \subseteq Binding
      BY <1>1 DEF Binding
    <2> QED
      BY <2>1
  <1>10. CASE new \in Repathed
    <2> PICK i \in DOMAIN P : \E b \in P[i].plans, p \in Paths :
             new = [prof EXCEPT !.pairs[i].plans = (@ \ {b}) \cup {[b EXCEPT !.path = p]}]
      BY <1>10
    <2>1. PICK b \in P[i].plans, p \in Paths :
             new = [prof EXCEPT !.pairs[i].plans = (@ \ {b}) \cup {[b EXCEPT !.path = p]}]
      OBVIOUS
    <2>2. [b EXCEPT !.path = p] \in [path : Paths, condition : Conditions]
      BY <1>14, EditedBinding DEF Binding
    <2> QED
      BY <1>9, <2>1, <2>2
  <1>11. CASE new \in Restated
    BY <1>11 DEF Profiles
  <1>12. CASE new \in Respelled
    BY <1>12 DEF Profiles
  <1>13. CASE new \in Flipped
    <2> PICK i \in DOMAIN P : \E b \in P[i].plans :
             new = [prof EXCEPT !.pairs[i].plans =
                       (@ \ {b}) \cup {[b EXCEPT !.condition = OtherOf(@)]}]
      BY <1>13
    <2>1. PICK b \in P[i].plans :
             new = [prof EXCEPT !.pairs[i].plans =
                       (@ \ {b}) \cup {[b EXCEPT !.condition = OtherOf(@)]}]
      OBVIOUS
    <2>2. [b EXCEPT !.condition = OtherOf(@)] \in [path : Paths, condition : Conditions]
      BY <1>14, EditedBinding DEF Binding
    <2> QED
      BY <1>9, <2>1, <2>2
  <1> QED
    <2>1. new \in Recounted \cup Recapped \cup Restated \cup Respelled \cup Shortened
                  \cup Turned \cup Retasked \cup Renamed \cup Repathed \cup Flipped
      BY DEF Variants
    <2> HIDE DEF Recounted, Recapped, Restated, Respelled, Shortened, Turned, Retasked, Renamed,
                 Repathed, Flipped
    <2> QED
      BY <1>3, <1>4, <1>5, <1>6, <1>7, <1>8, <1>10, <1>11, <1>12, <1>13, <2>1

(* What the files have in common after an authorization.                   *)
FilesInv ==
    /\ profile \in Profiles /\ SchemaValid(profile)
    /\ author # "writes" => profile.authorized /\ \A p \in Paths : plans[p].body.authorized

LEMMA FilesStep == WellFormedPlans /\ FilesInv /\ [Next]_vars => FilesInv'
  <1> SUFFICES ASSUME WellFormedPlans, FilesInv, [Next]_vars PROVE FilesInv'
    OBVIOUS
  <1> USE DEF fileVars, loadVars, historyVars
  <1>1. ASSUME NEW p \in Paths, EditPlan(p) PROVE FilesInv'
    <2>1. PICK f \in DOMAIN Values : \E v \in Values[f] :
             plans' = [plans EXCEPT ![p].body[f] = v]
      BY <1>1 DEF EditPlan
    <2>2. PICK v \in Values[f] : plans' = [plans EXCEPT ![p].body[f] = v]
      BY <2>1
    <2>3. f # "authorized"
      BY DEF Values
    <2>4. [plans[p].body EXCEPT ![f] = v].authorized = plans[p].body.authorized
      BY <2>3 DEF WellFormedPlans, Bodies
    <2>5. /\ plans'[p].body = [plans[p].body EXCEPT ![f] = v]
          /\ \A q \in Paths : q # p => plans'[q] = plans[q]
      BY <2>2 DEF WellFormedPlans
    <2>6. \A q \in Paths : plans'[q].body.authorized = plans[q].body.authorized
      BY <2>4, <2>5
    <2> QED
      BY <1>1, <2>6 DEF EditPlan, Edited, FilesInv
  <1>2. CASE EditProfile
    BY <1>2, EditedProfile DEF EditProfile, Edited, FilesInv
  <1>3. ASSUME NEW p \in Paths, NEW q \in Paths, Exchange(p, q) PROVE FilesInv'
    <2> DEFINE Pair == [id : Values.pair, task : Values.task, first : Conditions,
                        second : Conditions,
                        plans : SUBSET [path : Paths, condition : Conditions]]
               P == profile.pairs
               At(i, path) == {b \in P[i].plans : b.path = path}
               Moved(path) == [path |-> path, condition |-> plans[path].body.condition]
    <2>1. /\ author = "writes" /\ author' = author /\ SchemaValid(profile')
          /\ profile' = [profile EXCEPT !.pairs[1].plans = (@ \ At(1, p)) \cup {Moved(q)},
                                        !.pairs[2].plans = (@ \ At(2, q)) \cup {Moved(p)}]
      BY <1>3 DEF Exchange, Edited
    <2>2. P \in Seq(Pair) /\ DOMAIN P = 1 .. Len(P) /\ \A i \in DOMAIN P : P[i] \in Pair
      <3>1. P \in Seq(Pair)
        BY DEF FilesInv, Profiles
      <3> QED
        BY <3>1, LenProperties, ElementOfSeq
    <2>3. Moved(p) \in [path : Paths, condition : Conditions]
          /\ Moved(q) \in [path : Paths, condition : Conditions]
      BY DEF WellFormedPlans, Bodies, Values
    <2> DEFINE X == (P[1].plans \ At(1, p)) \cup {Moved(q)}
               Y == (P[2].plans \ At(2, q)) \cup {Moved(p)}
               R == [P EXCEPT ![1].plans = X, ![2].plans = Y]
    <2>4. profile' = [profile EXCEPT !.pairs = R]
      BY <2>1 DEF FilesInv, Profiles
    <2>5. R \in Seq(Pair)
      <3>1. ASSUME NEW i \in DOMAIN P PROVE R[i] \in Pair
        <4>1. CASE i = 1
          BY <2>2, <2>3, <4>1
        <4>2. CASE i = 2
          BY <2>2, <2>3, <4>2
        <4>3. CASE i \notin {1, 2}
          BY <2>2, <4>3
        <4> QED
          BY <4>1, <4>2, <4>3
      <3>2. R = [i \in 1 .. Len(P) |-> R[i]] /\ Len(P) \in Nat
        BY <2>2, LenProperties
      <3> HIDE DEF R, Pair
      <3>3. R \in [1 .. Len(P) -> Pair]
        BY <2>2, <3>1, <3>2
      <3> QED
        BY <3>2, <3>3, SeqDef
    <2> QED
      BY <2>1, <2>4, <2>5 DEF FilesInv, Profiles
  <1>4. CASE Authorize
    <2>1. /\ profile' = [profile EXCEPT !.authorized = TRUE]
          /\ plans' = [p \in Paths |-> [body |-> [plans[p].body EXCEPT !.authorized = TRUE],
                                        parent |-> profile']]
      BY <1>4 DEF Authorize
    <2>2. profile' \in Profiles /\ SchemaValid(profile') /\ profile'.authorized
      BY <2>1 DEF FilesInv, Profiles, SchemaValid
    <2>3. \A p \in Paths : plans'[p].body.authorized
      BY <2>1 DEF WellFormedPlans, Bodies
    <2> QED
      BY <2>2, <2>3 DEF FilesInv
  <1>5. CASE Record
    BY <1>5 DEF Record, FilesInv
  <1>6. CASE ReadState \/ HashProfile \/ ParseProfile \/ LoadPlan \/ Decide
    BY <1>6 DEF ReadState, HashProfile, ParseProfile, LoadPlan, Decide, Goto, FilesInv
  <1>7. ASSUME NEW p \in Paths, Admit(p) PROVE FilesInv'
    BY <1>7 DEF Admit, Goto, FilesInv
  <1>8. CASE UNCHANGED vars
    BY <1>8 DEF vars, FilesInv
  <1> QED
    BY <1>1, <1>2, <1>3, <1>4, <1>5, <1>6, <1>7, <1>8 DEF Next, Over

(* What the repository's checks saw when the authorization was recorded.   *)
Judged(prof, records) ==
    /\ SchemaValid(prof) /\ LabValid(prof, records)
    /\ DOMAIN records = Declared(prof) /\ Declared(prof) \subseteq Paths
    /\ state.profile = prof /\ state.children = {records[p] : p \in DOMAIN records}

OnDisk == [p \in Declared(profile) |-> plans[p].body]

(* It is recorded, and still there while nobody touches the files.         *)
JudgedInv ==
    validated =>
        /\ author = "done"
        /\ \E prof, records : Judged(prof, records)
        /\ ~touched => /\ Judged(profile, OnDisk)
                       /\ \A p \in Declared(profile) : plans[p].parent = profile

LEMMA DeclaredPaths ==
    ASSUME NEW prof \in Profiles
    PROVE  /\ Declared(prof) \subseteq Paths
           /\ IsFiniteSet(Declared(prof)) /\ Cardinality(Declared(prof)) <= Len(prof.paths)
  <1>1. /\ prof.paths \in Seq(Paths) /\ Len(prof.paths) \in Nat
        /\ DOMAIN prof.paths = 1 .. Len(prof.paths)
        /\ \A i \in DOMAIN prof.paths : prof.paths[i] \in Paths
    <2>1. prof.paths \in Seq(Paths)
      BY DEF Profiles
    <2> QED
      BY <2>1, LenProperties, ElementOfSeq
  <1>2. IsFiniteSet(1 .. Len(prof.paths)) /\ Cardinality(1 .. Len(prof.paths)) = Len(prof.paths)
    BY <1>1, FS_Interval
  <1>3. Declared(prof) = {prof.paths[i] : i \in 1 .. Len(prof.paths)}
    BY <1>1 DEF Declared
  <1>4. /\ IsFiniteSet(Declared(prof))
        /\ Cardinality(Declared(prof)) <= Cardinality(1 .. Len(prof.paths))
    <2> DEFINE f == [i \in 1 .. Len(prof.paths) |-> prof.paths[i]]
    <2>1. f \in Surjection(1 .. Len(prof.paths), Declared(prof))
      BY <1>3 DEF Surjection
    <2> QED
      BY <1>2, <2>1, FS_Surjection
  <1> QED
    BY <1>1, <1>2, <1>3, <1>4

LEMMA JudgedStep == WellFormedPlans /\ FilesInv /\ JudgedInv /\ [Next]_vars => JudgedInv'
  <1> SUFFICES ASSUME WellFormedPlans, FilesInv, JudgedInv, [Next]_vars PROVE JudgedInv'
    OBVIOUS
  <1> USE DEF fileVars, loadVars, historyVars
  <1>1. ASSUME UNCHANGED <<state, author, validated>>,
               author = "done" => touched' \/ UNCHANGED <<profile, plans, touched>>
        PROVE  JudgedInv'
    <2> SUFFICES ASSUME validated PROVE JudgedInv'
      BY <1>1 DEF JudgedInv
    <2>1. \E prof, records : Judged(prof, records)'
      BY <1>1 DEF JudgedInv, Judged
    <2>2. CASE touched'
      BY <1>1, <2>1, <2>2 DEF JudgedInv
    <2>3. CASE UNCHANGED <<profile, plans, touched>>
      BY <1>1, <2>1, <2>3 DEF JudgedInv, Judged, OnDisk
    <2> QED
      BY <1>1, <2>2, <2>3 DEF JudgedInv
  <1>2. CASE \/ \E p \in Paths : EditPlan(p)
             \/ EditProfile
             \/ \E p, q \in Paths : Exchange(p, q)
    <2>1. Edited
      BY <1>2 DEF EditPlan, EditProfile, Exchange
    <2> QED
      BY <1>1, <2>1 DEF Edited
  <1>3. CASE Authorize
    <2>1. ~validated' 
      BY <1>3 DEF Authorize, JudgedInv
    <2> QED
      BY <2>1 DEF JudgedInv
  <1>4. CASE Record
    <2> SUFFICES ASSUME validated' PROVE JudgedInv'
      BY DEF JudgedInv
    <2>1. /\ state' = [profile |-> profile, children |-> {plans[p].body : p \in Declared(profile)}]
          /\ LabAccepts /\ author' = "done" /\ profile' = profile /\ plans' = plans
      BY <1>4 DEF Record
    <2>2. /\ LabValid(profile, OnDisk) /\ \A p \in Declared(profile) : plans[p].parent = profile
      BY <2>1 DEF LabAccepts, OnDisk
    <2>3. Judged(profile, OnDisk)'
      <3>1. DOMAIN OnDisk = Declared(profile) /\ Declared(profile) \subseteq Paths
        BY DeclaredPaths DEF OnDisk, FilesInv
      <3>2. state'.children = {OnDisk[p] : p \in Declared(profile)}
        BY <2>1 DEF OnDisk
      <3>3. OnDisk' = OnDisk
        BY <2>1 DEF OnDisk
      <3> QED
        BY <2>1, <2>2, <3>1, <3>2, <3>3 DEF Judged, FilesInv
    <2> QED
      BY <2>1, <2>2, <2>3 DEF JudgedInv
  <1>5. CASE ReadState \/ HashProfile \/ ParseProfile \/ LoadPlan \/ Decide
    BY <1>1, <1>5 DEF ReadState, HashProfile, ParseProfile, LoadPlan, Decide, Goto
  <1>6. ASSUME NEW p \in Paths, Admit(p) PROVE JudgedInv'
    BY <1>1, <1>6 DEF Admit, Goto
  <1>7. CASE UNCHANGED vars
    BY <1>1, <1>7 DEF vars
  <1> QED
    BY <1>2, <1>3, <1>4, <1>5, <1>6, <1>7 DEF Next, Over

-----------------------------------------------------------------------------
(* What the repository's checks accept.                                    *)

\* A pair binds each condition once.
LEMMA OneBinding ==
    ASSUME NEW prof, EachOnce(prof), SchemaValid(prof), NEW i \in DOMAIN prof.pairs,
           NEW b \in prof.pairs[i].plans, NEW d \in prof.pairs[i].plans,
           b.condition = d.condition
    PROVE  b = d
  <1>1. {e.condition : e \in prof.pairs[i].plans} = Conditions
    BY DEF EachOnce
  <1>2. PICK u \in prof.pairs[i].plans, v \in prof.pairs[i].plans :
           u # v /\ prof.pairs[i].plans = {u, v}
    BY DEF SchemaValid
  <1>3. u.condition # v.condition
    BY <1>1, <1>2 DEF Conditions
  <1> QED
    BY <1>2, <1>3

\* Two bindings of one plan, or of two plans that say the same, are one.
LEMMA BoundOnce ==
    ASSUME NEW prof, NEW records, LabValid(prof, records), SchemaValid(prof),
           NEW x \in Bindings(prof), NEW y \in Bindings(prof),
           records[x[2].path] = records[y[2].path]
    PROVE  x = y
  <1>1. PICK i \in DOMAIN prof.pairs : \E b \in prof.pairs[i].plans : x = <<i, b>>
    BY DEF Bindings
  <1>2. PICK b \in prof.pairs[i].plans : x = <<i, b>>
    BY <1>1
  <1>3. PICK j \in DOMAIN prof.pairs : \E d \in prof.pairs[j].plans : y = <<j, d>>
    BY DEF Bindings
  <1>4. PICK d \in prof.pairs[j].plans : y = <<j, d>>
    BY <1>3
  <1>5. Bound(prof.pairs[i], b, records) /\ Bound(prof.pairs[j], d, records)
    BY <1>2, <1>4 DEF LabValid
  <1>6. i = j
    BY <1>2, <1>4, <1>5 DEF Bound, LabValid, OrderedPairs
  <1>7. b.condition = d.condition
    BY <1>2, <1>4, <1>5 DEF Bound
  <1> QED
    BY <1>2, <1>4, <1>6, <1>7, OneBinding DEF LabValid

\* The repository's checks imply the gate's of a profile that is written as the
\* gate reads it, datasets aside.
LEMMA LabValidIsCoherent ==
    ASSUME NEW prof, NEW records, LabValid(prof, records), SchemaValid(prof),
           prof.form = "plain", \A p \in DOMAIN records : records[p].listed
    PROVE  /\ Coherent(prof, records)
           /\ \A p, q \in DOMAIN records : records[p] = records[q] => p = q
  <1>1. \A x \in Bindings(prof) : x[2].path \in DOMAIN records
    BY DEF LabValid, Bound
  <1>2. \A x, y \in Bindings(prof) : x[2].path = y[2].path => x = y
    BY BoundOnce
  <1>3. Coherent(prof, records)
    BY <1>1, <1>2 DEF LabValid, CountedIfInt, Coherent, ReadAsWritten
  <1>4. ASSUME NEW p \in DOMAIN records, NEW q \in DOMAIN records, records[p] = records[q]
        PROVE  p = q
    <2>1. p \in BoundPaths(prof) /\ q \in BoundPaths(prof)
      BY DEF LabValid
    <2>2. PICK x \in Bindings(prof), y \in Bindings(prof) : x[2].path = p /\ y[2].path = q
      BY <2>1 DEF BoundPaths
    <2> QED
      BY <1>4, <2>2, BoundOnce
  <1> QED
    BY <1>3, <1>4

\* A plan of a profile they accept has its partner in the other condition.
LEMMA LabValidHasPartners ==
    ASSUME NEW prof, NEW records, LabValid(prof, records), NEW p \in DOMAIN records
    PROVE  \E q \in DOMAIN records :
              /\ records[q].task = records[p].task /\ records[q].pair = records[p].pair
              /\ records[q].condition = OtherOf(records[p].condition)
              /\ records[q].order = 3 - records[p].order
  <1>1. p \in BoundPaths(prof)
    BY DEF LabValid
  <1>2. PICK x \in Bindings(prof) : x[2].path = p
    BY <1>1 DEF BoundPaths
  <1>3. PICK i \in DOMAIN prof.pairs : \E b \in prof.pairs[i].plans : x = <<i, b>>
    BY <1>2 DEF Bindings
  <1>4. PICK b \in prof.pairs[i].plans : x = <<i, b>>
    BY <1>3
  <1>5. /\ {e.condition : e \in prof.pairs[i].plans} = Conditions
        /\ prof.pairs[i].first \in Conditions
    BY DEF LabValid, EachOnce, OrderedPairs
  <1>6. b.condition \in Conditions /\ OtherOf(b.condition) \in Conditions
    BY <1>5 DEF OtherOf, Conditions
  <1>7. PICK d \in prof.pairs[i].plans : d.condition = OtherOf(b.condition)
    BY <1>5, <1>6
  <1>8. <<i, d>> \in Bindings(prof)
    BY DEF Bindings
  <1>9. Bound(prof.pairs[i], b, records) /\ Bound(prof.pairs[i], d, records)
    BY <1>2, <1>4, <1>8 DEF LabValid
  <1>10. 1 = 3 - 2 /\ 2 = 3 - 1 /\ OtherOf(b.condition) # b.condition
    BY DEF OtherOf
  <1>11. /\ records[d.path].order = 3 - records[p].order
         /\ records[d.path].task = records[p].task /\ records[d.path].pair = records[p].pair
         /\ records[d.path].condition = OtherOf(records[p].condition)
         /\ d.path \in DOMAIN records
    BY <1>2, <1>4, <1>5, <1>6, <1>7, <1>9, <1>10 DEF Bound, Conditions, OtherOf
  <1> QED
    BY <1>11

-----------------------------------------------------------------------------
(* The loader, on files nobody touches after they were recorded.           *)

\* Nothing that was recorded is of a kind that only one of the two gates takes.
TakenAlike ==
    /\ state.profile.eligible /\ state.profile.form = "plain"
    /\ \A body \in state.children : body.typed /\ body.listed

LoaderInv ==
    /\ pc \in {"state", "hash", "parse"} => DOMAIN loaded = {}
    /\ DOMAIN loaded # {} => loaded = [p \in DOMAIN loaded |-> loaded[p]]
    /\ validated /\ ~touched =>
         /\ pc = "plans" =>
              /\ parsed = profile /\ DOMAIN loaded \subseteq Declared(profile)
              /\ \A p \in DOMAIN loaded : loaded[p] = plans[p].body
         /\ pc = "refused" => ~TakenAlike

\* What has been loaded once every declared plan has been.
LEMMA AllLoaded ==
    ASSUME FilesInv, LoaderInv, validated, ~touched, pc = "plans",
           Cardinality(DOMAIN loaded) = Len(parsed.paths)
    PROVE  loaded = OnDisk
  <1>1. /\ IsFiniteSet(Declared(profile)) /\ Cardinality(Declared(profile)) <= Len(profile.paths)
        /\ Len(profile.paths) \in Nat /\ Len(profile.paths) >= 2
    BY DeclaredPaths, LenProperties DEF FilesInv, Profiles, SchemaValid
  <1>2. /\ parsed = profile /\ DOMAIN loaded \subseteq Declared(profile)
        /\ \A p \in DOMAIN loaded : loaded[p] = plans[p].body
    BY DEF LoaderInv
  <1>3. /\ IsFiniteSet(DOMAIN loaded)
        /\ Cardinality(DOMAIN loaded) <= Cardinality(Declared(profile))
        /\ Cardinality(DOMAIN loaded) = Cardinality(Declared(profile))
             => DOMAIN loaded = Declared(profile)
    BY <1>1, <1>2, FS_Subset
  <1>4. Cardinality(DOMAIN loaded) \in Nat /\ Cardinality(Declared(profile)) \in Nat
    BY <1>1, <1>3, FS_CardinalityType
  <1>5. DOMAIN loaded = Declared(profile)
    BY <1>1, <1>2, <1>3, <1>4
  <1>6. DOMAIN loaded # {}
    <2>1. Cardinality(DOMAIN loaded) # 0
      BY <1>1, <1>2
    <2> QED
      BY <2>1, FS_EmptySet
  <1> QED
    BY <1>2, <1>5, <1>6 DEF LoaderInv, OnDisk

LEMMA LoaderStep ==
    WellFormedPlans /\ FilesInv /\ JudgedInv /\ Inv /\ LoaderInv /\ [Next]_vars => LoaderInv'
  <1> SUFFICES ASSUME WellFormedPlans, FilesInv, JudgedInv, Inv, LoaderInv, [Next]_vars
               PROVE  LoaderInv'
    OBVIOUS
  <1> USE DEF fileVars, loadVars, historyVars
  <1>1. ASSUME Edited PROVE LoaderInv'
    BY <1>1 DEF Edited, LoaderInv, JudgedInv
  <1>2. CASE \/ \E p \in Paths : EditPlan(p)
             \/ EditProfile
             \/ \E p, q \in Paths : Exchange(p, q)
    BY <1>1, <1>2 DEF EditPlan, EditProfile, Exchange
  <1>3. CASE Authorize \/ Record
    <2>1. /\ author # "done" /\ UNCHANGED <<pc, loaded, parsed>> /\ pc \notin {"plans", "refused"}
      BY <1>3 DEF Authorize, Record, Inv, Authorized
    <2> QED
      BY <2>1 DEF LoaderInv
  <1>4. CASE ReadState
    BY <1>4 DEF ReadState, Goto, LoaderInv, TakenAlike
  <1>5. CASE HashProfile
    <2>1. validated /\ ~touched => profile = state.profile
      BY DEF JudgedInv, Judged
    <2> QED
      BY <1>5, <2>1 DEF HashProfile, Goto, LoaderInv
  <1>6. CASE ParseProfile
    <2>1. author = "done"
      BY <1>6 DEF ParseProfile, Inv, Authorized
    <2>2. profile.authorized
      BY <2>1 DEF FilesInv
    <2>3. ASSUME validated, ~touched, state.profile.eligible
          PROVE  profile.eligible /\ ~profile.blockers
      <3>1. LabValid(profile, OnDisk) /\ state.profile = profile
        BY <2>3 DEF JudgedInv, Judged
      <3> QED
        BY <2>3, <3>1 DEF LabValid, Ready
    <2> QED
      BY <1>6, <2>2, <2>3 DEF ParseProfile, Goto, LoaderInv, TakenAlike
  <1>7. CASE LoadPlan
    <2> DEFINE next == parsed.paths[Cardinality(DOMAIN loaded) + 1]
               accepted == /\ next \in Paths /\ plans[next].body.typed
                           /\ plans[next].parent = state.profile /\ plans[next].body.authorized
    <2>1. /\ pc = "plans" /\ Cardinality(DOMAIN loaded) < Len(parsed.paths)
          /\ loaded' = IF accepted
                       THEN [p \in DOMAIN loaded \cup {next} |->
                               IF p = next THEN plans[p].body ELSE loaded[p]]
                       ELSE loaded
          /\ pc' = IF accepted THEN "plans" ELSE "refused"
          /\ UNCHANGED <<parsed, profile, plans, state, validated, touched>>
      BY <1>7 DEF LoadPlan, Goto
    <2>2. ASSUME validated, ~touched
          PROVE  /\ next \in Declared(profile)
                 /\ accepted \/ ~TakenAlike
      <3>1. /\ parsed = profile /\ DOMAIN loaded \subseteq Declared(profile)
            /\ IsFiniteSet(Declared(profile)) /\ Declared(profile) \subseteq Paths
        BY <2>1, <2>2, DeclaredPaths DEF LoaderInv, FilesInv
      <3>2. Cardinality(DOMAIN loaded) \in Nat
        BY <3>1, FS_Subset, FS_CardinalityType
      <3>3. DOMAIN profile.paths = 1 .. Len(profile.paths) /\ Len(profile.paths) \in Nat
        <4>1. profile.paths \in Seq(Paths)
          BY DEF FilesInv, Profiles
        <4> QED
          BY <4>1, LenProperties
      <3>4. next \in Declared(profile)
        BY <2>1, <3>1, <3>2, <3>3 DEF Declared
      <3>5. author = "done"
        BY <2>1 DEF Inv, Authorized
      <3>6. plans[next].parent = state.profile
        BY <2>2, <3>4 DEF JudgedInv, Judged
      <3>7. plans[next].body \in state.children
        <4>1. state.children = {OnDisk[p] : p \in Declared(profile)}
          BY <2>2 DEF JudgedInv, Judged
        <4> QED
          BY <3>4, <4>1 DEF OnDisk
      <3> QED
        BY <3>1, <3>4, <3>5, <3>6, <3>7 DEF FilesInv, TakenAlike
    <2> HIDE DEF next
    <2>3. DOMAIN loaded' # {} => loaded' = [p \in DOMAIN loaded' |-> loaded'[p]]
      BY <2>1 DEF LoaderInv
    <2>4. ASSUME validated, ~touched
          PROVE  /\ parsed' = profile' /\ DOMAIN loaded' \subseteq Declared(profile')
                 /\ \A p \in DOMAIN loaded' : loaded'[p] = plans'[p].body
      BY <2>1, <2>2, <2>4 DEF LoaderInv
    <2>5. TakenAlike' <=> TakenAlike
      BY <2>1 DEF TakenAlike
    <2> QED
      BY <2>1, <2>2, <2>3, <2>4, <2>5 DEF LoaderInv
  <1>8. CASE Decide
    <2>1. /\ pc = "plans" /\ Cardinality(DOMAIN loaded) = Len(parsed.paths)
          /\ pc' = IF Coherent(parsed, loaded) /\ AllSealed THEN "granted" ELSE "refused"
          /\ UNCHANGED <<loaded, parsed, profile, plans, state, validated, touched>>
      BY <1>8 DEF Decide, Goto
    <2>2. ASSUME validated, ~touched, TakenAlike
          PROVE  Coherent(parsed, loaded) /\ AllSealed
      <3>1. loaded = OnDisk /\ parsed = profile
        BY <2>1, <2>2, AllLoaded DEF LoaderInv
      <3>2. Judged(profile, loaded)
        BY <2>2, <3>1 DEF JudgedInv
      <3>3. profile.form = "plain" /\ \A p \in DOMAIN loaded : loaded[p].listed
        BY <2>2, <3>2 DEF Judged, TakenAlike
      <3>4. /\ Coherent(profile, loaded)
            /\ \A p, q \in DOMAIN loaded : loaded[p] = loaded[q] => p = q
        BY <3>2, <3>3, LabValidIsCoherent DEF Judged
      <3> QED
        BY <3>1, <3>2, <3>4 DEF AllSealed, Loaded, Judged
    <2>3. TakenAlike' <=> TakenAlike
      BY <2>1 DEF TakenAlike
    <2> QED
      BY <2>1, <2>2, <2>3 DEF LoaderInv
  <1>9. ASSUME NEW p \in Paths, Admit(p) PROVE LoaderInv'
    BY <1>9 DEF Admit, Goto, LoaderInv
  <1>10. CASE UNCHANGED vars
    BY <1>10 DEF vars, LoaderInv, TakenAlike
  <1> QED
    BY <1>2, <1>3, <1>4, <1>5, <1>6, <1>7, <1>8, <1>9, <1>10 DEF Next, Over

LEMMA LoaderIsKept ==
    Spec => [](WellFormedPlans /\ FilesInv /\ JudgedInv /\ Inv /\ LoaderInv)
  <1>1. Init => WellFormedPlans
    BY ProfileAssumption DEF Init, WellFormedPlans
  <1>2. Init => FilesInv /\ JudgedInv /\ LoaderInv
    <2> SUFFICES ASSUME Init PROVE FilesInv /\ JudgedInv /\ LoaderInv
      OBVIOUS
    <2>1. loaded = <<>> /\ DOMAIN <<>> = {}
      BY DEF Init
    <2> QED
      BY <2>1, ProfileAssumption DEF Init, FilesInv, JudgedInv, LoaderInv
  <1> QED
    BY <1>1, <1>2, InitialInv, WellFormedStep, FilesStep, JudgedStep, InvStep, LoaderStep, PTL
       DEF Spec

(* When the repository's checks accepted what was authorized, every plan   *)
(* that is granted has its partner, whatever was edited since.             *)
THEOREM ValidatedIsPaired == Spec => []LabValidIsPaired
  <1>1. JudgedInv /\ Inv => LabValidIsPaired
    <2> SUFFICES ASSUME JudgedInv, Inv, Granted, validated, NEW body \in Loaded
                 PROVE  Partner(body)
      BY DEF LabValidIsPaired
    <2>1. Loaded = state.children
      BY DEF Inv, Decided
    <2>2. PICK prof, records : Judged(prof, records)
      BY DEF JudgedInv
    <2>3. PICK p \in DOMAIN records : body = records[p]
      BY <2>1, <2>2 DEF Judged
    <2>4. PICK q \in DOMAIN records :
            /\ records[q].task = body.task /\ records[q].pair = body.pair
            /\ records[q].condition = OtherOf(body.condition)
            /\ records[q].order = 3 - body.order
      BY <2>2, <2>3, LabValidHasPartners DEF Judged
    <2>5. records[q] \in Loaded
      BY <2>1, <2>2 DEF Judged
    <2> QED
      BY <2>4, <2>5 DEF Loaded, Partner
  <1> QED
    BY <1>1, LoaderIsKept, PTL

(* Apart from what only one of them takes, the two gates agree: what the   *)
(* repository's checks accepted and nobody edited since is refused only    *)
(* for a profile that is not eligible or not written as the gate reads it, *)
(* or a plan that cannot be constructed or has an unlisted dataset.        *)
THEOREM GatesAgree == Spec => []RefusalExplained
  <1>1. LoaderInv => RefusalExplained
    BY DEF LoaderInv, TakenAlike, RefusalExplained
  <1> QED
    BY <1>1, LoaderIsKept, PTL

=============================================================================
