------------------------ MODULE ProfileAuthorization ------------------------
(***************************************************************************)
(* How a run plan becomes executable: an author writes a run profile and   *)
(* its condition plans, an authorization is recorded in                    *)
(* docs/PROJECT_STATE.yaml, load_project_execution_state of                *)
(* giclab.harness.policy reads all of those files one after the other, and *)
(* assert_execution_allowed admits one plan.                               *)
(*                                                                         *)
(* Two gates judge the same files: validate_experiment_run_profiles of     *)
(* giclab.validation in the repository's own checks, before anything is    *)
(* authorized, and _assert_profile_children_coherent when a run is asked   *)
(* for.  A file is its content, so equal digests are equal contents.       *)
(***************************************************************************)
EXTENDS Integers, Sequences, FiniteSets, FiniteSetsExt, SequencesExt

CONSTANTS
    Pilot,      \* the profile as it was first written
    PilotPlans, \* its condition plans, by path
    MaxEdits    \* bound: edits of the files in one behaviour

Conditions == {"reactive", "simulative"}
OtherOf(condition) == IF condition = "reactive" THEN "simulative" ELSE "reactive"

Paths == DOMAIN PilotPlans

(* What a condition plan says, apart from the profile it names: its run    *)
(* (no two plans have the same), condition, task and pairing, the values a *)
(* matched pair must share (fixed), its hard cap, whether experiment,      *)
(* model, dataset revision and task source are the profile's (fits),       *)
(* whether the profile lists its dataset (listed), and whether the         *)
(* constructors behind load_run_plan take what the schema takes (typed): a *)
(* slice that does not increase, say, passes the schema only.              *)
Values ==
    [condition |-> Conditions, task |-> {1, 2}, pair |-> {1, 2}, order |-> {1, 2},
     fixed |-> {"same", "other"}, cap |-> {1, 2}, fits |-> BOOLEAN, listed |-> BOOLEAN,
     typed |-> BOOLEAN]

Bodies ==
    [run : Paths, condition : Values.condition, task : Values.task, pair : Values.pair,
     order : Values.order, fixed : Values.fixed, cap : Values.cap, fits : BOOLEAN, listed : BOOLEAN,
     typed : BOOLEAN, authorized : BOOLEAN]

(* How an author may write a profile that the schema takes in any form: as *)
(* the gate reads it, with pair_count as 2.0, with a plan's path spelled   *)
(* otherwise where it is bound than where it is declared, or with a        *)
(* plan_id that ends in a line break.                                      *)
Forms == {"plain", "float", "respelled", "broken"}

(* What run-profile.schema.json makes of a profile.  Its readiness says    *)
(* whether it may be executed once authorized, and what still blocks that; *)
(* the authorization reference is taken to be one that can be written.     *)
Profiles ==
    [count : Nat, cap : Nat, authorized : BOOLEAN, paths : Seq(Paths),
     eligible : BOOLEAN, blockers : BOOLEAN, form : Forms,
     pairs : Seq([id : Values.pair, task : Values.task, first : Conditions, second : Conditions,
                  plans : SUBSET [path : Paths, condition : Conditions]])]

SchemaValid(prof) ==
    /\ Len(prof.paths) >= 2
    /\ \A i \in DOMAIN prof.pairs :
         \E b, d \in prof.pairs[i].plans : b # d /\ prof.pairs[i].plans = {b, d}

ASSUME ProfileAssumption ==
    /\ Pilot \in Profiles /\ SchemaValid(Pilot)
    /\ \A p \in Paths : PilotPlans[p] \in Bodies
    /\ MaxEdits \in Nat

VARIABLES
    profile,     \* the profile file
    plans,       \* per path: [body, parent], the condition plan file
    author,      \* what the author does next
    state,       \* PROJECT_STATE.yaml: [profile, children], or nothing
    pc,          \* where load_project_execution_state and its caller are
    parsed,      \* the profile it parsed
    loaded,      \* condition_records
    admitted,    \* the plan that was admitted
    (* Recorded for the properties only. *)
    validated,   \* the repository's checks accepted what was authorized
    touched,     \* a file was edited after the authorization
    swapped,     \* the profile was edited between its two reads
    (* Bound. *)
    edits

fileVars == <<profile, plans, state>>
loadVars == <<pc, parsed, loaded, admitted>>
historyVars == <<validated, touched, swapped>>
vars == <<fileVars, author, loadVars, historyVars, edits>>

NoState == [profile |-> Pilot, children |-> {}]

Init ==
    /\ profile = Pilot
    /\ plans = [p \in Paths |-> [body |-> PilotPlans[p], parent |-> Pilot]]
    /\ author = "writes" /\ state = NoState
    /\ pc = "state" /\ parsed = Pilot /\ loaded = <<>>
    /\ admitted = PilotPlans[CHOOSE p \in Paths : TRUE]
    /\ validated = FALSE /\ touched = FALSE /\ swapped = FALSE
    /\ edits = 0

-----------------------------------------------------------------------------
(* What both gates ask of one binding of a pair.                           *)

Bound(pair, binding, records) ==
    /\ binding.path \in DOMAIN records
    /\ LET child == records[binding.path] IN
         /\ child.condition = binding.condition
         /\ child.task = pair.task /\ child.pair = pair.id
         /\ child.order = IF binding.condition = pair.first THEN 1 ELSE 2

(* A declared matched pair drifts outside its condition. *)
Matched(pair, records) ==
    \A b, d \in pair.plans :
        /\ records[b.path].fixed = records[d.path].fixed
        /\ records[b.path].cap = records[d.path].cap

OrderedPairs(prof) ==
    /\ \A i, j \in DOMAIN prof.pairs :
         i # j => prof.pairs[i].id # prof.pairs[j].id /\ prof.pairs[i].task # prof.pairs[j].task
    /\ \A i \in DOMAIN prof.pairs : {prof.pairs[i].first, prof.pairs[i].second} = Conditions

Counted(prof, records) ==
    /\ Cardinality(DOMAIN records) = prof.count * Cardinality(Conditions)
    /\ \A c \in Conditions :
         Cardinality({p \in DOMAIN records : records[p].condition = c}) = prof.count

Bindings(prof) ==
    UNION {{<<i, b>> : b \in prof.pairs[i].plans} : i \in DOMAIN prof.pairs}

BoundPaths(prof) == {x[2].path : x \in Bindings(prof)}

CapsAddUp(prof, records) ==
    prof.cap = MapThenSumSet(LAMBDA p : records[p].cap, DOMAIN records)

(* pair_count is an int, and paths are compared as they are written. *)
ReadAsWritten(prof) == prof.form \notin {"float", "respelled"}

(* Mutant: the plans of a pair are not compared with each other. *)
CoherentUnmatched(prof, records) ==
    /\ ReadAsWritten(prof) /\ Counted(prof, records)
    /\ OrderedPairs(prof)
    /\ \A x \in Bindings(prof) :
         /\ Bound(prof.pairs[x[1]], x[2], records)
         /\ records[x[2].path].fits /\ records[x[2].path].listed
    /\ BoundPaths(prof) = DOMAIN records
    /\ CapsAddUp(prof, records)

(* _assert_profile_children_coherent *)
Coherent(prof, records) ==
    /\ ReadAsWritten(prof) /\ Counted(prof, records)
    /\ OrderedPairs(prof)
    /\ \A x \in Bindings(prof) :
         /\ Bound(prof.pairs[x[1]], x[2], records)
         /\ records[x[2].path].fits /\ records[x[2].path].listed
    /\ \A i \in DOMAIN prof.pairs : Matched(prof.pairs[i], records)
    /\ \A x, y \in Bindings(prof) : x[2].path = y[2].path => x = y
    /\ BoundPaths(prof) = DOMAIN records
    /\ CapsAddUp(prof, records)

(* Mutant: the conditions of a pair's bindings are not looked at. *)
AnyConditions(prof) == TRUE

(* "pair bindings must contain each condition once" *)
EachOnce(prof) ==
    \A i \in DOMAIN prof.pairs : {b.condition : b \in prof.pairs[i].plans} = Conditions

(* Nothing is counted unless pair_count is an int. *)
CountedIfInt(prof, records) ==
    prof.form # "float" => Counted(prof, records) /\ Len(prof.pairs) = prof.count

(* validate_run_profile_readiness, on a profile that is not authorized. *)
Ready(prof) == prof.eligible <=> ~prof.blockers

(* Mutant: the caps are not added up. *)
LabValidUnpriced(prof, records) ==
    /\ Ready(prof)
    /\ \A p \in DOMAIN records : records[p].fits
    /\ CountedIfInt(prof, records)
    /\ OrderedPairs(prof)
    /\ EachOnce(prof)
    /\ \A x \in Bindings(prof) : Bound(prof.pairs[x[1]], x[2], records)
    /\ \A i \in DOMAIN prof.pairs : Matched(prof.pairs[i], records)
    /\ BoundPaths(prof) = DOMAIN records

(* What validate_experiment_run_profiles asks of the declared plans: it    *)
(* knows paths by where they lead, and plans by their schema only.         *)
LabValid(prof, records) ==
    /\ Ready(prof)
    /\ \A p \in DOMAIN records : records[p].fits
    /\ CountedIfInt(prof, records)
    /\ OrderedPairs(prof)
    /\ EachOnce(prof)
    /\ \A x \in Bindings(prof) : Bound(prof.pairs[x[1]], x[2], records)
    /\ \A i \in DOMAIN prof.pairs : Matched(prof.pairs[i], records)
    /\ BoundPaths(prof) = DOMAIN records
    /\ CapsAddUp(prof, records)

-----------------------------------------------------------------------------
(* The author: edits, and the authorization, written file by file.         *)

Edited ==
    /\ edits < MaxEdits
    /\ edits' = edits + 1
    /\ touched' = (touched \/ author = "done")
    /\ UNCHANGED <<author, state, loadVars, validated>>

EditPlan(p) ==
    /\ Edited
    /\ \E f \in DOMAIN Values : \E v \in Values[f] :
         /\ v # plans[p].body[f]
         /\ plans' = [plans EXCEPT ![p].body[f] = v]
    /\ UNCHANGED <<profile, swapped>>

(* What one edit makes of a profile that the schema still accepts: each    *)
(* pair binds two different plans or conditions.                           *)
Variants(prof) ==
    {[prof EXCEPT !.count = n] : n \in {1, 2}}
    \cup {[prof EXCEPT !.cap = n] : n \in {3, 4}}
    \cup {[prof EXCEPT !.eligible = ~@], [prof EXCEPT !.blockers = ~@]}
    \cup {[prof EXCEPT !.form = f] : f \in Forms}
    \cup {[prof EXCEPT !.paths = RemoveAt(@, i)] : i \in DOMAIN prof.paths}
    \cup {[prof EXCEPT !.pairs[i].first = OtherOf(@)] : i \in DOMAIN prof.pairs}
    \cup {[prof EXCEPT !.pairs[i].task = t] : i \in DOMAIN prof.pairs, t \in {1, 2}}
    \cup {[prof EXCEPT !.pairs[i].id = t] : i \in DOMAIN prof.pairs, t \in {1, 2}}
    \cup (UNION {{[prof EXCEPT !.pairs[i].plans = (@ \ {b}) \cup {[b EXCEPT !.path = p]}] :
                     b \in prof.pairs[i].plans, p \in Paths} : i \in DOMAIN prof.pairs})
    \cup (UNION {{[prof EXCEPT !.pairs[i].plans =
                     (@ \ {b}) \cup {[b EXCEPT !.condition = OtherOf(@)]}] :
                     b \in prof.pairs[i].plans} : i \in DOMAIN prof.pairs})

EditProfile ==
    /\ Edited
    /\ \E new \in Variants(profile) :
         new # profile /\ SchemaValid(new) /\ profile' = new
    /\ swapped' = (swapped \/ pc = "parse")
    /\ UNCHANGED plans

Rebound(body, other, order) ==
    [body EXCEPT !.task = other.task, !.pair = other.pair, !.order = order]

(* Two plans change places: profile and both files are rewritten together. *)
Exchange(p, q) ==
    LET At(i, path) == {b \in profile.pairs[i].plans : b.path = path}
        Moved(i, path) == [path |-> path, condition |-> plans[path].body.condition]
    IN  /\ Edited /\ author = "writes"
        /\ At(1, p) # {} /\ At(2, q) # {}
        /\ profile' = [profile EXCEPT !.pairs[1].plans = (@ \ At(1, p)) \cup {Moved(1, q)},
                                      !.pairs[2].plans = (@ \ At(2, q)) \cup {Moved(2, p)}]
        /\ SchemaValid(profile')
        /\ \E m, n \in {1, 2} :
             plans' = [r \in Paths |->
                         IF r = p THEN [plans[r] EXCEPT !.body = Rebound(@, plans[q].body, m)]
                         ELSE IF r = q THEN [plans[r] EXCEPT !.body = Rebound(@, plans[p].body, n)]
                         ELSE plans[r]]
        /\ UNCHANGED swapped

(* The profile's and the plans' authorization fields are set, and the      *)
(* plans name the profile's digest ...                                     *)
Authorize ==
    /\ author = "writes"
    /\ profile' = [profile EXCEPT !.authorized = TRUE]
    /\ plans' = [p \in Paths |-> [body |-> [plans[p].body EXCEPT !.authorized = TRUE],
                                  parent |-> profile']]
    /\ author' = "records"
    /\ UNCHANGED <<state, loadVars, historyVars, edits>>

Declared(prof) == {prof.paths[i] : i \in DOMAIN prof.paths}

(* The repository's checks accept the files, authorization fields aside    *)
(* (they want every plan of the repository unauthorized).                  *)
LabAccepts ==
    /\ \A p \in Declared(profile) : plans[p].parent = profile
    /\ LabValid(profile, [p \in Declared(profile) |-> plans[p].body])

(* ... then PROJECT_STATE.yaml records the digests of what is there. *)
Record ==
    /\ author = "records"
    /\ state' = [profile |-> profile, children |-> {plans[p].body : p \in Declared(profile)}]
    /\ validated' = LabAccepts
    /\ author' = "done"
    /\ UNCHANGED <<profile, plans, loadVars, touched, swapped, edits>>

-----------------------------------------------------------------------------
(* load_project_execution_state                                            *)

Goto(label) == pc' = label /\ UNCHANGED <<fileVars, author, historyVars, edits>>

(* A project without an authorized profile loads, but admits no plan; the  *)
(* plan_id of an authorized one must match _PLAN_ID to the end.            *)
ReadState ==
    /\ pc = "state"
    /\ Goto(IF author # "done" THEN "unauthorized"
            ELSE IF state.profile.form = "broken" THEN "refused" ELSE "hash")
    /\ UNCHANGED <<parsed, loaded, admitted>>

(* Mutant: the digest is not compared. *)
HashAnything ==
    /\ pc = "hash"
    /\ Goto("parse")
    /\ UNCHANGED <<parsed, loaded, admitted>>

(* hashlib.sha256(profile_path.read_bytes()) *)
HashProfile ==
    /\ pc = "hash"
    /\ Goto(IF profile = state.profile THEN "parse" ELSE "refused")
    /\ UNCHANGED <<parsed, loaded, admitted>>

(* load_yaml reads the file again; then schema, readiness, authorization. *)
ParseProfile ==
    /\ pc = "parse"
    /\ parsed' = profile
    /\ Goto(IF profile.eligible /\ ~profile.blockers /\ profile.authorized
            THEN "plans" ELSE "refused")
    /\ UNCHANGED <<loaded, admitted>>

(* The condition plans are loaded in the order of the parsed profile; each *)
(* must be there, pass load_run_plan, be authorized and name the digest    *)
(* that was recorded.                                                      *)
LoadPlan ==
    LET next == parsed.paths[Cardinality(DOMAIN loaded) + 1]
        accepted == /\ next \in Paths /\ plans[next].body.typed
                    /\ plans[next].parent = state.profile /\ plans[next].body.authorized
    IN  /\ pc = "plans" /\ Cardinality(DOMAIN loaded) < Len(parsed.paths)
        /\ loaded' = IF accepted
                     THEN [p \in DOMAIN loaded \cup {next} |->
                              IF p = next THEN plans[p].body ELSE loaded[p]]
                     ELSE loaded
        /\ Goto(IF accepted THEN "plans" ELSE "refused")
        /\ UNCHANGED <<parsed, admitted>>

Loaded == {loaded[p] : p \in DOMAIN loaded}

(* The declared children are the recorded ones, each of them once. *)
AllSealed ==
    /\ \A p, q \in DOMAIN loaded : loaded[p] = loaded[q] => p = q
    /\ Loaded = state.children

Decide ==
    /\ pc = "plans" /\ Cardinality(DOMAIN loaded) = Len(parsed.paths)
    /\ Goto(IF Coherent(parsed, loaded) /\ AllSealed THEN "granted" ELSE "refused")
    /\ UNCHANGED <<parsed, loaded, admitted>>

(* execution_blockers, for the plan a caller read from one of the files.   *)
Admit(p) ==
    /\ pc = "granted"
    /\ admitted' = plans[p].body
    /\ Goto(IF /\ plans[p].body.typed
               /\ plans[p].parent = state.profile
               /\ plans[p].body.authorized
               /\ plans[p].body \in state.children
            THEN "admitted" ELSE "blocked")
    /\ UNCHANGED <<parsed, loaded>>

Over == pc \in {"admitted", "blocked", "refused", "unauthorized"}
        /\ author = "done" /\ UNCHANGED vars

Next ==
    \/ \E p \in Paths : EditPlan(p)
    \/ EditProfile
    \/ \E p, q \in Paths : Exchange(p, q)
    \/ Authorize \/ Record
    \/ ReadState \/ HashProfile \/ ParseProfile \/ LoadPlan \/ Decide
    \/ \E p \in Paths : Admit(p)
    \/ Over

Spec == Init /\ [][Next]_vars

-----------------------------------------------------------------------------
(* Properties.                                                             *)

Granted == pc \in {"granted", "admitted", "blocked"}

(* Whatever is edited while the files are read one after the other, what   *)
(* is granted is what was recorded: exactly the recorded children, and,    *)
(* unless the profile changed between being hashed and being parsed, a     *)
(* recorded profile they are coherent with.                                *)
GrantedAsRecorded ==
    Granted =>
        /\ Loaded = state.children
        /\ ~swapped => Coherent(state.profile, loaded)

(* An admitted plan shares with every child of its pair all that a matched *)
(* pair must share, and its place in the order is that of its condition.   *)
AdmittedIsMatched ==
    pc = "admitted" =>
        /\ \A p \in DOMAIN loaded :
             loaded[p].pair = admitted.pair =>
                 /\ loaded[p].task = admitted.task
                 /\ loaded[p].fixed = admitted.fixed /\ loaded[p].cap = admitted.cap
                 /\ loaded[p].order = admitted.order <=> loaded[p].condition = admitted.condition
        /\ \E i \in DOMAIN parsed.pairs :
             /\ parsed.pairs[i].id = admitted.pair
             /\ admitted.order = 1 <=> parsed.pairs[i].first = admitted.condition

Partner(body) ==
    \E p \in DOMAIN loaded :
        /\ loaded[p].task = body.task /\ loaded[p].pair = body.pair
        /\ loaded[p].condition = OtherOf(body.condition) /\ loaded[p].order = 3 - body.order

(* "Each condition runs once per task": an admitted plan has its partner.  *)
EachConditionOncePerTask == pc = "admitted" => Partner(admitted)

(* It has when the repository's checks accepted what was authorized.       *)
LabValidIsPaired == Granted /\ validated => \A body \in Loaded : Partner(body)

(* Where the two gates differ: files that the repository's checks accepted *)
(* and nobody edited since are refused only when the profile is not        *)
(* eligible, which those checks allow and want of the pilot, when it is    *)
(* written otherwise than the gate reads it, or when a plan is one that    *)
(* load_run_plan cannot construct or is for a dataset the profile does not *)
(* list, which those checks never look at.                                 *)
RefusalExplained ==
    pc = "refused" /\ validated /\ ~touched =>
        \/ ~state.profile.eligible
        \/ state.profile.form # "plain"
        \/ \E body \in state.children : ~body.typed \/ ~body.listed

=============================================================================
