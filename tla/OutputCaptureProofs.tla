------------------------- MODULE OutputCaptureProofs -------------------------
(***************************************************************************)
(* The safety properties of OutputCapture, proved for every quota, read    *)
(* size, pipe capacity, credential and marker length, and for every set of *)
(* disk faults.                                                            *)
(***************************************************************************)
EXTENDS OutputCapture, TLAPS

(* What _OutputQuota.take grants is part of what was asked for and fits.   *)
LEMMA GrantFits ==
    ASSUME NEW n \in Nat, used \in Nat
    PROVE  /\ Granted(n) \in Nat /\ Granted(n) <= n
           /\ used <= MaxOutput => used + Granted(n) <= MaxOutput
           /\ used <= MaxOutput /\ Granted(n) # n => used + Granted(n) = MaxOutput
  BY CaptureAssumption DEF Granted, Room, Smaller

(* Two naturals have a natural product. *)
LEMMA Products == ASSUME NEW a \in Nat, NEW b \in Nat PROVE a * b \in Nat
  BY SMT

-----------------------------------------------------------------------------
LEMMA TypeInit == Init => TypeOK
  <1> SUFFICES ASSUME Init PROVE TypeOK
    OBVIOUS
  <1>1. Zero \in [Pipes -> Nat]
    BY DEF Zero
  <1>2. /\ reader \in [Pipes -> {"unstarted", "read", "take", "write", "landing", "kill", "flush",
                                  "abort", "done"}]
        /\ short \in [Pipes -> BOOLEAN] /\ final \in [Pipes -> BOOLEAN]
    BY DEF Init
  <1> QED
    BY <1>1, <1>2 DEF Init, TypeOK

(* One read: k bytes leave the pipe, m credentials are replaced, keep      *)
(* bytes stay in the redactor and the others are passed on.                *)
LEMMA ReadEffect ==
    ASSUME TypeOK, NEW p \in Pipes, Read(p)
    PROVE  \E k \in 1 .. pipe[p], m \in Nat, keep \in Nat :
             LET rest == held[p] + k - m * SecretLen IN
             /\ rest \in Nat /\ keep <= rest
             /\ held' = [held EXCEPT ![p] = keep]
             /\ chunk' = [chunk EXCEPT ![p] = rest + m * MarkLen - keep]
             /\ pipe' = [pipe EXCEPT ![p] = @ - k]
             /\ redactions' = [redactions EXCEPT ![p] = @ + m]
  <1>1. PICK k \in 1 .. Smaller(ReadMax, pipe[p]) : \E m \in 0 .. (held[p] + k) :
          LET rest == held[p] + k - m * SecretLen IN
             /\ rest >= 0
             /\ \E t \in 0 .. rest :
                  /\ held' = [held EXCEPT ![p] = Smaller(t, Keep)]
                  /\ chunk' = [chunk EXCEPT ![p] = rest + m * MarkLen - Smaller(t, Keep)]
             /\ pipe' = [pipe EXCEPT ![p] = @ - k]
             /\ redactions' = [redactions EXCEPT ![p] = @ + m]
    BY Zenon DEF Read
  <1>2. PICK m \in 0 .. (held[p] + k) :
          LET rest == held[p] + k - m * SecretLen IN
             /\ rest >= 0
             /\ \E t \in 0 .. rest :
                  /\ held' = [held EXCEPT ![p] = Smaller(t, Keep)]
                  /\ chunk' = [chunk EXCEPT ![p] = rest + m * MarkLen - Smaller(t, Keep)]
             /\ pipe' = [pipe EXCEPT ![p] = @ - k]
             /\ redactions' = [redactions EXCEPT ![p] = @ + m]
    BY <1>1
  <1> DEFINE rest == held[p] + k - m * SecretLen
  <1>3. k \in 1 .. pipe[p] /\ m \in Nat /\ held[p] \in Nat
    BY CaptureAssumption DEF TypeOK, Smaller
  <1>4. rest \in Nat
    <2>1. m * SecretLen \in Nat
      BY <1>3, Products, CaptureAssumption
    <2> QED
      BY <1>2, <1>3, <2>1
  <1>5. PICK t \in 0 .. rest :
          /\ held' = [held EXCEPT ![p] = Smaller(t, Keep)]
          /\ chunk' = [chunk EXCEPT ![p] = rest + m * MarkLen - Smaller(t, Keep)]
    BY <1>2
  <1>6. Smaller(t, Keep) \in Nat /\ Smaller(t, Keep) <= rest
    BY <1>4, CaptureAssumption DEF Smaller, Keep
  <1> DEFINE keep == Smaller(t, Keep)
  <1>7. /\ rest \in Nat /\ keep <= rest
        /\ held' = [held EXCEPT ![p] = keep]
        /\ chunk' = [chunk EXCEPT ![p] = rest + m * MarkLen - keep]
        /\ pipe' = [pipe EXCEPT ![p] = @ - k]
        /\ redactions' = [redactions EXCEPT ![p] = @ + m]
    BY <1>2, <1>4, <1>5, <1>6
  <1>8. keep \in Nat
    BY <1>6
  <1> HIDE DEF keep
  <1> QED
    BY <1>3, <1>7, <1>8

LEMMA TypeRead ==
    ASSUME TypeOK, NEW p \in Pipes, Read(p) PROVE TypeOK'
  <1>1. PICK k \in 1 .. pipe[p], m \in Nat, keep \in Nat :
             LET rest == held[p] + k - m * SecretLen IN
             /\ rest \in Nat /\ keep <= rest
             /\ held' = [held EXCEPT ![p] = keep]
             /\ chunk' = [chunk EXCEPT ![p] = rest + m * MarkLen - keep]
             /\ pipe' = [pipe EXCEPT ![p] = @ - k]
             /\ redactions' = [redactions EXCEPT ![p] = @ + m]
    BY ReadEffect
  <1> DEFINE rest == held[p] + k - m * SecretLen
  <1>2. rest + m * MarkLen - keep \in Nat /\ pipe[p] - k \in Nat
    <2>1. m * MarkLen \in Nat
      BY Products, CaptureAssumption
    <2>2. rest \in Nat /\ keep <= rest /\ pipe[p] \in Nat
      BY <1>1 DEF TypeOK
    <2> HIDE DEF rest
    <2> QED
      BY <2>1, <2>2
  <1>3. /\ held' \in [Pipes -> Nat] /\ chunk' \in [Pipes -> Nat]
        /\ pipe' \in [Pipes -> Nat] /\ redactions' \in [Pipes -> Nat]
    BY <1>1, <1>2 DEF TypeOK
  <1> QED
    BY <1>3 DEF TypeOK, Read, ownerVars, quotaVars, diskVars, killVars

LEMMA TypeTake ==
    ASSUME TypeOK, NEW p \in Pipes, Take(p) PROVE TypeOK'
  <1> DEFINE grant == Granted(chunk[p])
  <1>1. chunk[p] \in Nat /\ used \in Nat
    BY DEF TypeOK
  <1>2. grant \in Nat /\ chunk[p] - grant \in Nat
    BY <1>1, GrantFits
  <1> HIDE DEF grant
  <1>3. /\ used' = used + grant
        /\ accepted' = [accepted EXCEPT ![p] = grant]
        /\ dropped' = [dropped EXCEPT ![p] = @ + (chunk[p] - grant)]
        /\ short' = [short EXCEPT ![p] = (grant # chunk[p])]
        /\ exceeded' = (exceeded \/ grant # chunk[p])
        /\ chunk' = [chunk EXCEPT ![p] = 0]
        /\ reader' = [reader EXCEPT ![p] = "write"]
        /\ UNCHANGED <<ownerVars, held, final, errors, diskVars, killVars, alive, inputVars>>
    BY DEF Take, grant
  <1> QED
    BY <1>1, <1>2, <1>3 DEF TypeOK, ownerVars, diskVars, killVars, inputVars

LEMMA TypeTerminate ==
    ASSUME TypeOK, TerminateGroup PROVE terminated' \in BOOLEAN /\ doomed' \subseteq Group
  BY DEF TypeOK, TerminateGroup, KillGroup, killVars

(* A reader's step that counts nothing: only where it is, and whether the  *)
(* group was killed, change.                                               *)
LEMMA TypeOfTheRest ==
    ASSUME TypeOK,
           UNCHANGED <<ownerVars, held, chunk, accepted, final, errors, quotaVars, diskVars,
                       alive, inputVars>>,
           reader' \in [Pipes -> {"unstarted", "read", "take", "write", "landing", "kill", "flush",
                                  "abort", "done"}],
           short' \in [Pipes -> BOOLEAN], terminated' \in BOOLEAN, doomed' \subseteq Group
    PROVE  TypeOK'
  <1> USE DEF ownerVars, quotaVars, diskVars, inputVars
  <1>1. /\ owner' \in {"launch", "callback", "second", "wait", "expire", "reap", "terminate",
                       "join", "verdict", "cleanup", "close", "over"}
        /\ outcome' \in {"none", "launch-error", "result", "raised"}
        /\ timedOut' \in BOOLEAN /\ closed' \in BOOLEAN
    BY DEF TypeOK
  <1>2. /\ held' \in [Pipes -> Nat] /\ chunk' \in [Pipes -> Nat]
        /\ accepted' \in [Pipes -> Nat]
        /\ final' \in [Pipes -> BOOLEAN] /\ errors' \subseteq Pipes
    BY DEF TypeOK
  <1>3. /\ used' \in Nat /\ exceeded' \in BOOLEAN /\ dropped' \in [Pipes -> Nat]
        /\ file' \in [Pipes -> Nat] /\ lost' \in [Pipes -> Nat]
    BY DEF TypeOK
  <1>4. /\ alive' \subseteq Processes
        /\ pipe' \in [Pipes -> Nat] /\ written' \in [Pipes -> Nat]
        /\ redactions' \in [Pipes -> Nat]
    BY DEF TypeOK
  <1> QED
    BY <1>1, <1>2, <1>3, <1>4 DEF TypeOK

(* Every action keeps the types: the arithmetic of the redactor and of the *)
(* quota stays within the naturals.                                        *)
LEMMA TypeStep == TypeOK /\ [Next]_vars => TypeOK'
  <1> SUFFICES ASSUME TypeOK, [Next]_vars PROVE TypeOK'
    OBVIOUS
  <1> USE DEF ownerVars, readerVars, quotaVars, diskVars, killVars, inputVars
  <1>1. CASE Owner
    <2>1. CASE LaunchFails \/ Launch \/ StartReader \/ StartSecondReader \/ StartFails
      BY <2>1 DEF LaunchFails, Launch, StartReader, StartSecondReader, StartFails, TypeOK,
                  Processes, Group
    <2>2. CASE LeaderReaped \/ TimeoutExpires \/ ReapAfterTimeout
      BY <2>2 DEF LeaderReaped, TimeoutExpires, ReapAfterTimeout, TypeOK
    <2>3. CASE KillAfterTimeout \/ KillAfterWait \/ Cleanup
      BY <2>3, TypeTerminate DEF KillAfterTimeout, KillAfterWait, Cleanup, TypeOK
    <2>4. CASE Joined \/ JoinExpires \/ Verdict \/ CloseLogs
      BY <2>4 DEF Joined, JoinExpires, Verdict, CloseLogs, TypeOK
    <2> QED
      BY <1>1, <2>1, <2>2, <2>3, <2>4 DEF Owner
  <1>2. ASSUME NEW p \in Pipes, Thread(p) PROVE TypeOK'
    <2>1. CASE EndsReading(p)
      BY <2>1 DEF EndsReading, Released, TypeOK
    <2>2. CASE SkipWrite(p) \/ BeginWrite(p) \/ Land(p)
      BY <2>2 DEF SkipWrite, BeginWrite, Land, AfterWrite, TypeOK
    <2>3. CASE Fail(p)
      BY <2>3 DEF Fail, TypeOK
    <2>4. CASE Flush(p) \/ KillOnQuota(p) \/ KillOnError(p)
      <3>1. reader' \in [Pipes -> {"unstarted", "read", "take", "write", "landing", "kill", "flush",
                                   "abort", "done"}]
        BY <2>4 DEF Flush, KillOnQuota, KillOnError, TypeOK
      <3>2. short' \in [Pipes -> BOOLEAN]
        BY <2>4 DEF Flush, KillOnQuota, KillOnError, TypeOK
      <3>3. terminated' \in BOOLEAN /\ doomed' \subseteq Group
        <4>1. CASE Flush(p)
          BY <4>1 DEF Flush, TypeOK
        <4>2. CASE TerminateGroup
          BY <4>2, TypeTerminate
        <4> QED
          BY <2>4, <4>1, <4>2 DEF KillOnQuota, KillOnError
      <3>4. UNCHANGED <<ownerVars, held, chunk, accepted, final, errors, quotaVars, diskVars,
                        alive, inputVars>>
        BY <2>4 DEF Flush, KillOnQuota, KillOnError
      <3> QED
        BY <3>1, <3>2, <3>3, <3>4, TypeOfTheRest
    <2> QED
      BY <1>2, <2>1, <2>2, <2>3, <2>4, TypeRead, TypeTake DEF Thread, Reader, HungUp, EndOfFile
  <1>3. CASE Environment
    <2>1. ASSUME NEW w \in Processes, NEW p \in Pipes, WriteByte(w, p) PROVE TypeOK'
      BY <2>1 DEF WriteByte, TypeOK
    <2>2. ASSUME NEW w \in Processes, NEW child \in Processes,
                 Fork(w, child) \/ Exit(w) \/ Die(w)
          PROVE  TypeOK'
      BY <2>2 DEF Fork, Exit, Die, TypeOK
    <2> QED
      BY <1>3, <2>1, <2>2 DEF Environment
  <1>4. CASE UNCHANGED vars
    BY <1>4 DEF vars, TypeOK
  <1> QED
    BY <1>1, <1>2, <1>3, <1>4 DEF Next, Ended

(* Type correctness: every count the capture keeps stays a natural number. *)
THEOREM TypeCorrect == Spec => []TypeOK
  BY TypeInit, TypeStep, PTL DEF Spec
-----------------------------------------------------------------------------
(* The inductive invariant, by the part of the state it is about.          *)

(* Where the owner is tells what has been started, killed and reaped.      *)
OwnerPhases ==
    /\ owner = "launch" => alive = {}
    /\ owner \in {"launch", "callback"} =>
          ~terminated /\ \A p \in Pipes : reader[p] = "unstarted"
    /\ owner = "second" => reader["stderr"] = "unstarted"
    /\ owner \notin {"cleanup", "close", "over"} => outcome = "none"
    /\ owner \in {"expire", "reap"} => timedOut
    /\ owner \in {"terminate", "join", "verdict"} => "leader" \notin alive
    /\ owner = "cleanup" => outcome = "raised" \/ "leader" \notin alive
    /\ owner = "close" => terminated
    /\ owner = "over" => closed /\ "leader" \notin alive /\ (terminated \/ alive = {})

(* A killed group stays killed: only a running member can fork.            *)
GroupDoomed == terminated => alive \cap Group \subseteq doomed

(* Where a thread is tells what it holds.                                  *)
ReaderPhase(p) ==
    /\ p \in errors => reader[p] \in {"abort", "done"}
    /\ reader[p] = "abort" => p \in errors
    /\ accepted[p] # 0 => reader[p] \in {"write", "landing"} \/ p \in errors
    /\ chunk[p] # 0 => reader[p] = "take"
    /\ final[p] => pipe[p] = 0 /\ held[p] = 0
    /\ final[p] => reader[p] \notin {"unstarted", "read"}
    /\ reader[p] = "flush" => final[p]
    /\ reader[p] = "done" => final[p] \/ p \in errors

(* A refusal fills the quota, and its thread goes straight to the kill.    *)
Refusal(p) ==
    /\ reader[p] = "kill" => short[p]
    /\ short[p] => exceeded
    /\ dropped[p] > 0 => used = MaxOutput
    /\ dropped[p] > 0 /\ ~terminated =>
          (reader[p] \in {"write", "landing"} /\ short[p]) \/ reader[p] \in {"kill", "abort"}

(* What a thread wrote, believes to have written or is about to write.     *)
Logged(p) == file[p] + accepted[p] + lost[p]

(* The quota is what both threads logged, and knows whether it refused     *)
(* anything.                                                               *)
Accounts ==
    /\ used <= MaxOutput
    /\ used = Logged("stdout") + Logged("stderr")
    /\ exceeded <=> Both(dropped) > 0

(* Every byte of a pipe is somewhere.                                      *)
Conserved(p) ==
    pipe[p] + held[p] + chunk[p] + accepted[p] + file[p] + lost[p] + dropped[p]
        = written[p] + (MarkLen - SecretLen) * redactions[p]

(* A result is final, and the leader is killed for a reason.               *)
Results ==
    /\ outcome = "result" => errors = {} /\ \A p \in Pipes : reader[p] = "done"
    /\ "leader" \in doomed => timedOut \/ exceeded \/ errors # {} \/ outcome = "raised"

Inv ==
    /\ TypeOK /\ OwnerPhases /\ GroupDoomed /\ Accounts /\ Results
    /\ \A p \in Pipes : ReaderPhase(p) /\ Refusal(p) /\ Conserved(p)

LEMMA InitialInv == Init => Inv
  <1> SUFFICES ASSUME Init PROVE Inv
    OBVIOUS
  <1>1. TypeOK
    BY TypeInit
  <1>2. /\ OwnerPhases /\ GroupDoomed /\ Results
    BY DEF Init, OwnerPhases, GroupDoomed, Results
  <1>3. Accounts
    BY CaptureAssumption DEF Init, Zero, Accounts, Logged, Both, Pipes
  <1>4. ASSUME NEW p \in Pipes PROVE ReaderPhase(p) /\ Refusal(p) /\ Conserved(p)
    BY CaptureAssumption DEF Init, Zero, ReaderPhase, Refusal, Conserved
  <1> QED
    BY <1>1, <1>2, <1>3, <1>4 DEF Inv

(* The terminator kills the whole group, once and for all.                 *)
LEMMA Terminated ==
    ASSUME TypeOK, GroupDoomed, TerminateGroup
    PROVE  /\ terminated'
           /\ alive \cap Group \subseteq doomed'
           /\ "leader" \notin alive => ("leader" \in doomed' => "leader" \in doomed)
  BY DEF TypeOK, GroupDoomed, TerminateGroup, KillGroup, killVars

LEMMA PhasesStep == Inv /\ [Next]_vars => OwnerPhases'
  <1> SUFFICES ASSUME Inv, [Next]_vars PROVE OwnerPhases'
    OBVIOUS
  <1> USE DEF ownerVars, readerVars, quotaVars, diskVars, killVars, inputVars, Inv, OwnerPhases
  <1>1. CASE Owner
    <2>1. CASE LaunchFails \/ Launch \/ StartReader \/ StartSecondReader \/ StartFails
      <3>1. reader \in [Pipes -> {"unstarted", "read", "take", "write", "landing", "kill",
                                  "flush", "abort", "done"}]
        BY DEF TypeOK
      <3> QED
        BY <2>1, <3>1 DEF LaunchFails, Launch, StartReader, StartSecondReader, StartFails, Pipes
    <2>2. CASE LeaderReaped \/ TimeoutExpires \/ ReapAfterTimeout
      BY <2>2 DEF LeaderReaped, TimeoutExpires, ReapAfterTimeout
    <2>3. CASE KillAfterTimeout \/ KillAfterWait \/ Cleanup
      BY <2>3, Terminated DEF KillAfterTimeout, KillAfterWait, Cleanup
    <2>4. CASE Joined \/ JoinExpires \/ Verdict \/ CloseLogs
      BY <2>4 DEF Joined, JoinExpires, Verdict, CloseLogs
    <2> QED
      BY <1>1, <2>1, <2>2, <2>3, <2>4 DEF Owner
  <1>2. ASSUME NEW p \in Pipes, Thread(p) PROVE OwnerPhases'
    <2>1. UNCHANGED <<owner, outcome, timedOut, closed, alive>>
      BY <1>2 DEF Thread, Reader, HungUp, EndOfFile, Read, EndsReading, Take, SkipWrite,
                  BeginWrite, Land, Fail, KillOnQuota, Flush, KillOnError
    <2>2. terminated => terminated'
      BY <1>2, Terminated
      DEF Thread, Reader, HungUp, EndOfFile, Read, EndsReading, Take, SkipWrite, BeginWrite,
          Land, Fail, KillOnQuota, Flush, KillOnError
    <2>3. /\ reader[p] # "unstarted"
          /\ \E where : reader' = [reader EXCEPT ![p] = where]
      BY <1>2 DEF Thread, Reader, HungUp, EndOfFile, Read, EndsReading, Take, SkipWrite,
                  BeginWrite, Land, Fail, KillOnQuota, Flush, KillOnError
    <2>4. \A q \in Pipes : reader[q] = "unstarted" => reader'[q] = "unstarted"
      BY <2>3 DEF TypeOK
    <2> QED
      BY <2>1, <2>2, <2>3, <2>4 DEF Pipes
  <1>3. CASE Environment
    <2>1. UNCHANGED <<owner, outcome, timedOut, closed, terminated, reader>>
      BY <1>3 DEF Environment, WriteByte, Fork, Exit, Die
    <2>2. /\ alive = {} => alive' = {}
          /\ "leader" \notin alive => "leader" \notin alive'
      BY <1>3 DEF Environment, WriteByte, Fork, Exit, Die, Running
    <2> QED
      BY <2>1, <2>2
  <1>4. CASE UNCHANGED vars
    BY <1>4 DEF vars
  <1> QED
    BY <1>1, <1>2, <1>3, <1>4 DEF Next, Ended

LEMMA DoomedStep == Inv /\ [Next]_vars => GroupDoomed'
  <1> SUFFICES ASSUME Inv, [Next]_vars PROVE GroupDoomed'
    OBVIOUS
  <1> USE DEF ownerVars, readerVars, quotaVars, diskVars, killVars, inputVars, Inv, GroupDoomed
  <1>1. CASE Owner
    <2>1. CASE KillAfterTimeout \/ KillAfterWait \/ Cleanup
      BY <2>1, Terminated DEF KillAfterTimeout, KillAfterWait, Cleanup
    <2>2. CASE Launch
      BY <2>2 DEF Launch, OwnerPhases
    <2>3. CASE \/ \/ LaunchFails \/ StartReader \/ StartSecondReader \/ StartFails
               \/ LeaderReaped \/ TimeoutExpires
               \/ ReapAfterTimeout \/ Joined \/ JoinExpires \/ Verdict \/ CloseLogs
      BY <2>3 DEF LaunchFails, StartReader, StartSecondReader, StartFails, LeaderReaped,
                  TimeoutExpires,
                  ReapAfterTimeout, Joined, JoinExpires, Verdict, CloseLogs
    <2> QED
      BY <1>1, <2>1, <2>2, <2>3 DEF Owner
  <1>2. ASSUME NEW p \in Pipes, Thread(p) PROVE GroupDoomed'
    <2>1. CASE KillOnQuota(p) \/ KillOnError(p)
      BY <2>1, Terminated DEF KillOnQuota, KillOnError
    <2>2. CASE \/ Read(p) \/ EndsReading(p) \/ Take(p) \/ SkipWrite(p) \/ BeginWrite(p)
               \/ Land(p) \/ Fail(p) \/ Flush(p)
      BY <2>2 DEF Read, EndsReading, Take, SkipWrite, BeginWrite, Land, Fail, Flush
    <2> QED
      BY <1>2, <2>1, <2>2 DEF Thread, Reader, HungUp, EndOfFile
  <1>3. CASE Environment
    BY <1>3 DEF Environment, WriteByte, Fork, Exit, Die, Running
  <1>4. CASE UNCHANGED vars
    BY <1>4 DEF vars
  <1> QED
    BY <1>1, <1>2, <1>3, <1>4 DEF Next, Ended

(* No step touches what belongs to the thread of the other pipe.           *)
LEMMA OtherReader ==
    ASSUME TypeOK, NEW p \in Pipes, NEW q \in Pipes \ {p}, Thread(p)
    PROVE  /\ UNCHANGED <<reader[q], held[q], chunk[q], accepted[q], short[q], final[q],
                           file[q], lost[q], dropped[q], pipe[q], written[q], redactions[q]>>
           /\ q \in errors' <=> q \in errors
           /\ alive' = alive
  <1> USE DEF ownerVars, readerVars, quotaVars, diskVars, killVars, inputVars, TypeOK
  <1>1. CASE Read(p) \/ EndsReading(p) \/ Take(p)
    BY <1>1 DEF Read, EndsReading, Take
  <1>2. CASE \/ SkipWrite(p) \/ BeginWrite(p) \/ Land(p) \/ Fail(p) \/ KillOnQuota(p)
             \/ Flush(p) \/ KillOnError(p)
    BY <1>2 DEF SkipWrite, BeginWrite, Land, Fail, KillOnQuota, Flush, KillOnError
  <1> QED
    BY <1>1, <1>2 DEF Thread, Reader, HungUp, EndOfFile

LEMMA ReaderPhaseStep ==
    Inv /\ [Next]_vars => \A q \in Pipes : ReaderPhase(q)'
  <1> SUFFICES ASSUME Inv, [Next]_vars, NEW q \in Pipes PROVE ReaderPhase(q)'
    OBVIOUS
  <1> USE DEF ownerVars, readerVars, quotaVars, diskVars, killVars, inputVars, ReaderPhase
  <1>0. TypeOK /\ ReaderPhase(q)
    BY DEF Inv
  <1>1. CASE Owner
    <2>1. CASE Launch \/ StartReader \/ StartSecondReader
      BY <1>0, <2>1 DEF Launch, StartReader, StartSecondReader, Inv, OwnerPhases, TypeOK
    <2>2. CASE \/ LaunchFails \/ StartFails \/ LeaderReaped \/ TimeoutExpires
               \/ KillAfterTimeout \/ ReapAfterTimeout \/ KillAfterWait \/ Joined
               \/ JoinExpires \/ Verdict \/ Cleanup \/ CloseLogs
      BY <1>0, <2>2
      DEF LaunchFails, StartFails, LeaderReaped, TimeoutExpires, KillAfterTimeout,
          ReapAfterTimeout, KillAfterWait, Joined, JoinExpires, Verdict, Cleanup, CloseLogs
    <2> QED
      BY <1>1, <2>1, <2>2 DEF Owner
  <1>2. ASSUME NEW p \in Pipes, Thread(p), p # q PROVE ReaderPhase(q)'
    BY <1>0, <1>2, OtherReader
  <1>3. CASE Thread(q)
    <2>1. CASE Read(q) \/ EndsReading(q)
      BY <1>0, <2>1 DEF Read, EndsReading, TypeOK
    <2>2. CASE Take(q) \/ SkipWrite(q) \/ BeginWrite(q) \/ Land(q)
      BY <1>0, <2>2 DEF Take, SkipWrite, BeginWrite, Land, AfterWrite, TypeOK
    <2>3. CASE Fail(q) \/ KillOnQuota(q)
      BY <1>0, <2>3 DEF Fail, KillOnQuota, TypeOK
    <2>4. CASE Flush(q) \/ KillOnError(q)
      BY <1>0, <2>4 DEF Flush, KillOnError, TypeOK
    <2> QED
      BY <1>3, <2>1, <2>2, <2>3, <2>4 DEF Thread, Reader, HungUp, EndOfFile
  <1>4. CASE Environment
    <2>1. ASSUME NEW w \in Processes, NEW p \in Pipes, WriteByte(w, p) PROVE ReaderPhase(q)'
      BY <1>0, <2>1 DEF WriteByte, Running, TypeOK
    <2>2. ASSUME NEW w \in Processes, NEW child \in Processes,
                 Fork(w, child) \/ Exit(w) \/ Die(w)
          PROVE  ReaderPhase(q)'
      BY <1>0, <2>2 DEF Fork, Exit, Die, Running
    <2> QED
      BY <1>4, <2>1, <2>2 DEF Environment
  <1>5. CASE UNCHANGED vars
    BY <1>0, <1>5 DEF vars
  <1> QED
    BY <1>1, <1>2, <1>3, <1>4, <1>5 DEF Next, Ended

LEMMA RefusalStep ==
    Inv /\ [Next]_vars => \A q \in Pipes : Refusal(q)'
  <1> SUFFICES ASSUME Inv, [Next]_vars, NEW q \in Pipes PROVE Refusal(q)'
    OBVIOUS
  <1> USE DEF ownerVars, readerVars, quotaVars, diskVars, killVars, inputVars, Refusal
  <1>0. TypeOK /\ Refusal(q) /\ GroupDoomed /\ used <= MaxOutput
    BY DEF Inv, Accounts
  <1>1. CASE Owner
    <2>1. CASE StartReader \/ StartSecondReader
      BY <1>0, <2>1 DEF StartReader, StartSecondReader, Inv, OwnerPhases, TypeOK
    <2>2. CASE KillAfterTimeout \/ KillAfterWait \/ Cleanup
      BY <1>0, <2>2, Terminated DEF KillAfterTimeout, KillAfterWait, Cleanup
    <2>3. CASE \/ LaunchFails \/ Launch \/ StartFails \/ LeaderReaped \/ TimeoutExpires
               \/ ReapAfterTimeout \/ Joined \/ JoinExpires \/ Verdict \/ CloseLogs
      BY <1>0, <2>3
      DEF LaunchFails, Launch, StartFails, LeaderReaped, TimeoutExpires, ReapAfterTimeout,
          Joined, JoinExpires, Verdict, CloseLogs
    <2> QED
      BY <1>1, <2>1, <2>2, <2>3 DEF Owner
  <1>2. ASSUME NEW p \in Pipes, Take(p) PROVE Refusal(q)'
    <2> DEFINE grant == Granted(chunk[p])
    <2>1. chunk[p] \in Nat /\ used \in Nat /\ used <= MaxOutput
      BY <1>0 DEF TypeOK
    <2>2. /\ grant \in Nat /\ grant <= chunk[p]
          /\ used + grant <= MaxOutput
          /\ grant # chunk[p] => used + grant = MaxOutput
      BY <2>1, GrantFits
    <2>3. /\ used' = used + grant
          /\ dropped' = [dropped EXCEPT ![p] = @ + (chunk[p] - grant)]
          /\ short' = [short EXCEPT ![p] = (grant # chunk[p])]
          /\ exceeded' = (exceeded \/ grant # chunk[p])
          /\ reader[p] = "take" /\ reader' = [reader EXCEPT ![p] = "write"]
          /\ UNCHANGED terminated
      BY <1>2 DEF Take
    <2> HIDE DEF grant
    <2>4. short' \in [Pipes -> BOOLEAN] /\ grant \in Nat /\ MaxOutput \in Nat
      BY <1>0, <2>2, <2>3, CaptureAssumption DEF TypeOK
    <2>5. CASE p = q
      <3>1. /\ reader[q] = "take" /\ reader'[q] = "write"
            /\ dropped'[q] = dropped[q] + (chunk[q] - grant) /\ dropped[q] \in Nat
        BY <1>0, <2>3, <2>5 DEF TypeOK
      <3>2. grant # chunk[q] => short'[q]
        BY <1>0, <2>3, <2>5 DEF TypeOK
      <3>3. short'[q] => grant # chunk[q]
        BY <1>0, <2>3, <2>5 DEF TypeOK
      <3>4. dropped'[q] > 0 => used' = MaxOutput
        BY <1>0, <2>1, <2>2, <2>3, <2>4, <2>5, <3>1
      <3>5. dropped'[q] > 0 /\ ~terminated' => short'[q]
        BY <1>0, <2>1, <2>2, <2>3, <2>5, <3>1, <3>2
      <3> QED
        BY <2>3, <2>5, <3>1, <3>3, <3>4, <3>5
    <2>6. CASE p # q
      BY <1>0, <2>1, <2>2, <2>3, <2>4, <2>6 DEF TypeOK
    <2> QED
      BY <2>5, <2>6
  <1>3. ASSUME NEW p \in Pipes, Thread(p), ~Take(p) PROVE Refusal(q)'
    <2>1. CASE KillOnQuota(p) \/ KillOnError(p)
      BY <1>0, <2>1, Terminated DEF KillOnQuota, KillOnError, TypeOK
    <2>2. CASE Read(p) \/ EndsReading(p) \/ Flush(p)
      BY <1>0, <2>2 DEF Read, EndsReading, Flush, TypeOK
    <2>3. CASE SkipWrite(p) \/ BeginWrite(p) \/ Land(p)
      BY <1>0, <2>3 DEF SkipWrite, BeginWrite, Land, AfterWrite, TypeOK
    <2>4. CASE Fail(p)
      BY <1>0, <2>4 DEF Fail, TypeOK
    <2> QED
      BY <1>3, <2>1, <2>2, <2>3, <2>4 DEF Thread, Reader, HungUp, EndOfFile
  <1>4. CASE Environment
    BY <1>0, <1>4 DEF Environment, WriteByte, Fork, Exit, Die
  <1>5. CASE UNCHANGED vars
    BY <1>0, <1>5 DEF vars
  <1> QED
    BY <1>1, <1>2, <1>3, <1>4, <1>5 DEF Next, Ended

LEMMA LoggedBoth ==
    ASSUME TypeOK
    PROVE  Both(file) + Both(accepted) + Both(lost) = Logged("stdout") + Logged("stderr")
  BY DEF TypeOK, Both, Logged, Pipes

LEMMA AccountsStep == Inv /\ [Next]_vars => Accounts'
  <1> SUFFICES ASSUME Inv, [Next]_vars PROVE Accounts'
    OBVIOUS
  <1> USE DEF ownerVars, readerVars, quotaVars, diskVars, killVars, inputVars, Accounts, Logged,
              Both
  <1>0. TypeOK /\ Accounts
    BY DEF Inv
  <1>1. CASE Owner
    <2>1. UNCHANGED <<used, exceeded, dropped, file, lost, accepted>>
      BY <1>1
      DEF Owner, LaunchFails, Launch, StartReader, StartSecondReader, StartFails, LeaderReaped,
          TimeoutExpires,
          KillAfterTimeout, ReapAfterTimeout, KillAfterWait, Joined, JoinExpires, Verdict,
          Cleanup, CloseLogs
    <2> QED
      BY <1>0, <2>1
  <1>2. ASSUME NEW p \in Pipes, Take(p) PROVE Accounts'
    <2> DEFINE grant == Granted(chunk[p])
    <2>1. chunk[p] \in Nat /\ used \in Nat /\ used <= MaxOutput
      BY <1>0 DEF TypeOK
    <2>2. /\ grant \in Nat /\ grant <= chunk[p]
          /\ used + grant <= MaxOutput
      BY <2>1, GrantFits
    <2>3. /\ used' = used + grant
          /\ dropped' = [dropped EXCEPT ![p] = @ + (chunk[p] - grant)]
          /\ accepted' = [accepted EXCEPT ![p] = grant]
          /\ exceeded' = (exceeded \/ grant # chunk[p])
          /\ UNCHANGED <<file, lost>>
      BY <1>2 DEF Take
    <2>4. accepted[p] = 0
      BY <1>2 DEF Take, Inv, ReaderPhase
    <2> HIDE DEF grant
    <2>5. used' = Logged("stdout")' + Logged("stderr")'
      BY <1>0, <2>1, <2>2, <2>3, <2>4 DEF TypeOK, Pipes
    <2>6. Both(dropped)' = Both(dropped) + (chunk[p] - grant) /\ Both(dropped) \in Nat
      BY <1>0, <2>1, <2>2, <2>3 DEF TypeOK, Pipes
    <2>7. exceeded' <=> Both(dropped)' > 0
      <3>1. exceeded' <=> exceeded \/ grant # chunk[p]
        BY <1>0, <2>3 DEF TypeOK
      <3>2. Both(dropped)' > 0 <=> Both(dropped) > 0 \/ grant # chunk[p]
        <4> HIDE DEF Both
        <4> QED
          BY <2>1, <2>2, <2>6
      <3> QED
        BY <1>0, <3>1, <3>2 DEF Accounts
    <2> QED
      BY <2>2, <2>3, <2>5, <2>7
  <1>3. ASSUME NEW p \in Pipes, Land(p) PROVE Accounts'
    <2>1. PICK n \in 1 .. accepted[p] :
            /\ file' = [file EXCEPT ![p] = @ + n]
            /\ lost' = [lost EXCEPT ![p] = @ + (accepted[p] - n)]
      BY <1>3 DEF Land
    <2>2. /\ accepted' = [accepted EXCEPT ![p] = 0]
          /\ UNCHANGED <<used, exceeded, dropped>>
      BY <1>3 DEF Land
    <2>3. \A q \in Pipes : Logged(q)' = Logged(q)
      BY <1>0, <2>1, <2>2 DEF TypeOK
    <2>4. Logged("stdout")' = Logged("stdout") /\ Logged("stderr")' = Logged("stderr")
      BY <2>3 DEF Pipes
    <2> HIDE DEF Logged
    <2> QED
      BY <1>0, <2>2, <2>4
  <1>4. ASSUME NEW p \in Pipes, Thread(p), ~Take(p), ~Land(p) PROVE Accounts'
    <2>1. UNCHANGED <<used, exceeded, dropped, file, lost, accepted>>
      BY <1>4 DEF Thread, Reader, HungUp, EndOfFile, Read, EndsReading, SkipWrite,
                  BeginWrite, Fail, KillOnQuota, Flush, KillOnError
    <2> QED
      BY <1>0, <2>1
  <1>5. CASE Environment \/ UNCHANGED vars
    <2>1. UNCHANGED <<used, exceeded, dropped, file, lost, accepted>>
      BY <1>5 DEF Environment, WriteByte, Fork, Exit, Die, vars
    <2> QED
      BY <1>0, <2>1
  <1> QED
    BY <1>1, <1>2, <1>3, <1>4, <1>5 DEF Next, Ended

LEMMA ResultsStep == Inv /\ [Next]_vars => Results'
  <1> SUFFICES ASSUME Inv, [Next]_vars PROVE Results'
    OBVIOUS
  <1> USE DEF ownerVars, readerVars, quotaVars, diskVars, killVars, inputVars, Results
  <1>0. TypeOK /\ Results /\ OwnerPhases /\ GroupDoomed
    BY DEF Inv
  <1>1. CASE Owner
    <2>1. CASE LaunchFails \/ Launch \/ StartReader \/ StartSecondReader \/ StartFails
      BY <1>0, <2>1 DEF LaunchFails, Launch, StartReader, StartSecondReader, StartFails, OwnerPhases
    <2>2. CASE LeaderReaped \/ TimeoutExpires \/ ReapAfterTimeout \/ Joined \/ JoinExpires
      BY <1>0, <2>2 DEF LeaderReaped, TimeoutExpires, ReapAfterTimeout, Joined, JoinExpires
    <2>3. CASE KillAfterTimeout
      <3>1. OwnerPhases /\ owner = "expire" /\ UNCHANGED <<outcome, timedOut, reader, errors>>
        BY <1>0, <2>3 DEF KillAfterTimeout
      <3>2. outcome' = "none"
        BY <3>1 DEF OwnerPhases
      <3>3. timedOut'
        BY <3>1 DEF OwnerPhases
      <3> QED
        BY <3>2, <3>3
    <2>4. CASE KillAfterWait \/ Cleanup
      <3>1. "leader" \notin alive \/ outcome = "raised"
        BY <1>0, <2>4 DEF KillAfterWait, Cleanup, OwnerPhases
      <3>2. TerminateGroup /\ UNCHANGED <<outcome, timedOut, reader, errors, exceeded>>
        BY <2>4 DEF KillAfterWait, Cleanup
      <3> QED
        BY <1>0, <3>1, <3>2, Terminated
    <2>5. CASE Verdict \/ CloseLogs
      BY <1>0, <2>5 DEF Verdict, Captured, CloseLogs, OwnerPhases
    <2> QED
      BY <1>1, <2>1, <2>2, <2>3, <2>4, <2>5 DEF Owner
  <1>2. ASSUME NEW p \in Pipes, Thread(p) PROVE Results'
    <2>1. reader[p] # "done" /\ UNCHANGED <<outcome, timedOut>>
      BY <1>2 DEF Thread, Reader, HungUp, EndOfFile, Read, EndsReading, Take, SkipWrite,
                  BeginWrite, Land, Fail, KillOnQuota, Flush, KillOnError
    <2>2. outcome' # "result"
      BY <1>0, <2>1
    <2>3. CASE KillOnQuota(p)
      BY <2>2, <2>3 DEF KillOnQuota, Inv, Refusal
    <2>4. CASE KillOnError(p)
      BY <2>2, <2>4 DEF KillOnError, Inv, ReaderPhase
    <2>5. CASE \/ Read(p) \/ EndsReading(p) \/ Take(p) \/ SkipWrite(p) \/ BeginWrite(p)
               \/ Land(p) \/ Fail(p) \/ Flush(p)
      BY <1>0, <2>2, <2>5 DEF Read, EndsReading, Take, SkipWrite, BeginWrite, Land, Fail, Flush
    <2> QED
      BY <1>2, <2>3, <2>4, <2>5 DEF Thread, Reader, HungUp, EndOfFile
  <1>3. CASE Environment
    BY <1>0, <1>3 DEF Environment, WriteByte, Fork, Exit, Die
  <1>4. CASE UNCHANGED vars
    BY <1>0, <1>4 DEF vars
  <1> QED
    BY <1>1, <1>2, <1>3, <1>4 DEF Next, Ended

(* Replacing m more credentials by markers changes the length by m times   *)
(* the difference.                                                         *)
LEMMA Distributes ==
    ASSUME NEW m \in Nat, NEW r \in Nat
    PROVE  (MarkLen - SecretLen) * (r + m)
              = (MarkLen - SecretLen) * r + m * MarkLen - m * SecretLen
  BY CaptureAssumption, SMT

LEMMA ConservedStep ==
    Inv /\ [Next]_vars => \A q \in Pipes : Conserved(q)'
  <1> SUFFICES ASSUME Inv, [Next]_vars, NEW q \in Pipes PROVE Conserved(q)'
    OBVIOUS
  <1> USE DEF ownerVars, readerVars, quotaVars, diskVars, killVars, inputVars, Conserved
  <1>0. TypeOK /\ Conserved(q) /\ ReaderPhase(q)
    BY DEF Inv
  <1>1. CASE Owner
    <2>1. UNCHANGED <<pipe, held, chunk, accepted, file, lost, dropped, written, redactions>>
      BY <1>1
      DEF Owner, LaunchFails, Launch, StartReader, StartSecondReader, StartFails, LeaderReaped,
          TimeoutExpires,
          KillAfterTimeout, ReapAfterTimeout, KillAfterWait, Joined, JoinExpires, Verdict,
          Cleanup, CloseLogs
    <2> QED
      BY <1>0, <2>1
  <1>2. ASSUME NEW p \in Pipes, Thread(p), p # q PROVE Conserved(q)'
    BY <1>0, <1>2, OtherReader
  <1>3. CASE Read(q)
    <2>1. PICK k \in 1 .. pipe[q], m \in Nat, keep \in Nat :
             LET rest == held[q] + k - m * SecretLen IN
             /\ rest \in Nat /\ keep <= rest
             /\ held' = [held EXCEPT ![q] = keep]
             /\ chunk' = [chunk EXCEPT ![q] = rest + m * MarkLen - keep]
             /\ pipe' = [pipe EXCEPT ![q] = @ - k]
             /\ redactions' = [redactions EXCEPT ![q] = @ + m]
      BY <1>0, <1>3, ReadEffect
    <2> DEFINE passed == held[q] + k - m * SecretLen + m * MarkLen - keep
    <2>2. /\ held'[q] = keep /\ chunk'[q] = passed
          /\ pipe'[q] = pipe[q] - k /\ redactions'[q] = redactions[q] + m
      BY <1>0, <2>1 DEF TypeOK
    <2>3. chunk[q] = 0
      BY <1>0, <1>3 DEF Read, ReaderPhase
    <2>4. UNCHANGED <<accepted, file, lost, dropped, written>>
      BY <1>3 DEF Read
    <2>5. /\ k \in Nat /\ m \in Nat /\ keep \in Nat
          /\ held[q] \in Nat /\ redactions[q] \in Nat /\ pipe[q] \in Nat
          /\ accepted[q] \in Nat /\ file[q] \in Nat /\ lost[q] \in Nat
          /\ dropped[q] \in Nat /\ written[q] \in Nat
      BY <1>0, <2>1 DEF TypeOK
    <2>6. /\ passed \in Int
          /\ (MarkLen - SecretLen) * redactions[q] \in Int
          /\ (MarkLen - SecretLen) * (redactions[q] + m) \in Int
      <3>1. /\ m * SecretLen \in Nat /\ m * MarkLen \in Nat
        BY Products, CaptureAssumption
      <3>2. MarkLen - SecretLen \in Int
        BY CaptureAssumption
      <3> QED
        BY <2>5, <3>1, <3>2
    <2>7. keep + passed - k + (MarkLen - SecretLen) * redactions[q]
             = held[q] + (MarkLen - SecretLen) * (redactions[q] + m)
      <3> DEFINE secrets == m * SecretLen
                 marks == m * MarkLen
                 before == (MarkLen - SecretLen) * redactions[q]
                 after == (MarkLen - SecretLen) * (redactions[q] + m)
      <3>1. after = before + marks - secrets
        BY <2>5, Distributes
      <3>2. passed = held[q] + k - secrets + marks - keep
        OBVIOUS
      <3>3. secrets \in Nat /\ marks \in Nat
        BY <2>5, Products, CaptureAssumption
      <3>4. before \in Int /\ after \in Int
        BY <2>6
      <3> HIDE DEF secrets, marks, before, after, passed
      <3>5. keep + passed - k + before = held[q] + after
        BY <2>5, <3>1, <3>2, <3>3, <3>4
      <3> QED
        BY <3>5 DEF before, after
    <2>8. pipe'[q] + held'[q] + chunk'[q] + accepted[q] + file[q] + lost[q] + dropped[q]
             = written[q] + (MarkLen - SecretLen) * (redactions[q] + m)
      <3> DEFINE before == (MarkLen - SecretLen) * redactions[q]
                 after == (MarkLen - SecretLen) * (redactions[q] + m)
      <3>1. pipe[q] + held[q] + accepted[q] + file[q] + lost[q] + dropped[q]
               = written[q] + before
        BY <1>0, <2>3, <2>5, <2>6
      <3>2. keep + passed - k + before = held[q] + after
        BY <2>7
      <3>3. before \in Int /\ after \in Int /\ passed \in Int
        BY <2>6
      <3> HIDE DEF before, after, passed
      <3>4. pipe'[q] + held'[q] + chunk'[q] + accepted[q] + file[q] + lost[q] + dropped[q]
               = written[q] + after
        <4>1. pipe'[q] = pipe[q] - k /\ held'[q] = keep /\ chunk'[q] = passed
          BY <2>2
        <4> DEFINE logged == accepted[q] + file[q] + lost[q] + dropped[q]
        <4>2. logged \in Int
          BY <2>5
        <4>3. pipe[q] + held[q] + logged = written[q] + before
          BY <2>5, <3>1, <3>3
        <4> HIDE DEF logged
        <4>4. (pipe[q] - k) + keep + passed + logged = written[q] + after
          BY <2>5, <3>2, <3>3, <4>2, <4>3
        <4>5. (pipe[q] - k) + keep + passed + accepted[q] + file[q] + lost[q] + dropped[q]
                 = (pipe[q] - k) + keep + passed + logged
          BY <2>5, <3>3 DEF logged
        <4> QED
          BY <4>1, <4>4, <4>5
      <3> QED
        BY <3>4 DEF after
    <2> QED
      BY <2>2, <2>4, <2>8
  <1>4. CASE EndsReading(q) \/ Take(q) \/ SkipWrite(q) \/ BeginWrite(q) \/ Land(q)
    <2>1. UNCHANGED <<pipe, written, redactions>>
      BY <1>4 DEF EndsReading, Take, SkipWrite, BeginWrite, Land
    <2>2. held'[q] + chunk'[q] + accepted'[q] + file'[q] + lost'[q] + dropped'[q]
             = held[q] + chunk[q] + accepted[q] + file[q] + lost[q] + dropped[q]
      <3>1. CASE EndsReading(q)
        BY <1>0, <3>1 DEF EndsReading, Released, ReaderPhase, TypeOK
      <3>2. CASE Take(q)
        <4>1. Granted(chunk[q]) \in Nat
          BY <1>0, GrantFits DEF TypeOK
        <4>2. accepted[q] = 0
          BY <1>0, <3>2 DEF Take, Inv, ReaderPhase
        <4> QED
          BY <1>0, <3>2, <4>1, <4>2 DEF Take, TypeOK
      <3>3. CASE SkipWrite(q) \/ BeginWrite(q) \/ Land(q)
        BY <1>0, <3>3 DEF SkipWrite, BeginWrite, Land, TypeOK
      <3> QED
        BY <1>4, <3>1, <3>2, <3>3
    <2>3. /\ pipe[q] \in Nat /\ held[q] \in Nat /\ chunk[q] \in Nat /\ accepted[q] \in Nat
          /\ file[q] \in Nat /\ lost[q] \in Nat /\ dropped[q] \in Nat
      BY <1>0 DEF TypeOK
    <2>4. TypeOK'
      BY <1>0, TypeStep
    <2>5. /\ held'[q] \in Nat /\ chunk'[q] \in Nat /\ accepted'[q] \in Nat
          /\ file'[q] \in Nat /\ lost'[q] \in Nat /\ dropped'[q] \in Nat
      BY <2>4 DEF TypeOK
    <2> QED
      BY <1>0, <2>1, <2>2, <2>3, <2>5
  <1>6. CASE Fail(q) \/ KillOnQuota(q) \/ Flush(q) \/ KillOnError(q)
    <2>1. UNCHANGED <<pipe, held, chunk, accepted, file, lost, dropped, written, redactions>>
      BY <1>6 DEF Fail, KillOnQuota, Flush, KillOnError
    <2> QED
      BY <1>0, <2>1
  <1>7. CASE Environment
    <2>1. ASSUME NEW w \in Processes, NEW p \in Pipes, WriteByte(w, p) PROVE Conserved(q)'
      <3>1. /\ pipe' = [pipe EXCEPT ![p] = @ + 1] /\ written' = [written EXCEPT ![p] = @ + 1]
            /\ UNCHANGED <<held, chunk, accepted, file, lost, dropped, redactions>>
        BY <2>1 DEF WriteByte
      <3>3. /\ pipe[q] \in Nat /\ pipe'[q] \in Nat /\ written[q] \in Nat
            /\ written'[q] \in Nat
        BY <1>0, <3>1 DEF TypeOK
      <3>4. /\ held[q] \in Nat /\ chunk[q] \in Nat /\ accepted[q] \in Nat
            /\ file[q] \in Nat /\ lost[q] \in Nat /\ dropped[q] \in Nat
        BY <1>0 DEF TypeOK
      <3>5. (MarkLen - SecretLen) * redactions[q] \in Int
        BY <1>0, CaptureAssumption DEF TypeOK
      <3> DEFINE markers == (MarkLen - SecretLen) * redactions[q]
      <3>6. markers \in Int
        BY <3>5
      <3>7. pipe[q] + held[q] + chunk[q] + accepted[q] + file[q] + lost[q] + dropped[q]
               = written[q] + markers
        BY <1>0
      <3> HIDE DEF markers
      <3>8. pipe'[q] + held[q] + chunk[q] + accepted[q] + file[q] + lost[q] + dropped[q]
               = written'[q] + markers
        <4>1. CASE p = q
          BY <1>0, <3>1, <3>3, <3>4, <3>6, <3>7, <4>1 DEF TypeOK
        <4>2. CASE p # q
          BY <1>0, <3>1, <3>7, <4>2 DEF TypeOK
        <4> QED
          BY <4>1, <4>2
      <3> QED
        BY <3>1, <3>8 DEF markers
    <2>2. ASSUME NEW w \in Processes, NEW child \in Processes,
                 Fork(w, child) \/ Exit(w) \/ Die(w)
          PROVE  Conserved(q)'
      BY <1>0, <2>2 DEF Fork, Exit, Die
    <2> QED
      BY <1>7, <2>1, <2>2 DEF Environment
  <1>8. CASE UNCHANGED vars
    BY <1>0, <1>8 DEF vars
  <1> QED
    BY <1>1, <1>2, <1>3, <1>4, <1>6, <1>7, <1>8 DEF Next, Ended, Thread, Reader, HungUp, EndOfFile

LEMMA InvStep == Inv /\ [Next]_vars => Inv'
  BY TypeStep, PhasesStep, DoomedStep, ReaderPhaseStep, RefusalStep, AccountsStep, ResultsStep,
     ConservedStep DEF Inv

(* The strengthening holds in every reachable state, whatever the budget,  *)
(* the read size, the pipe capacity and the credential's length.           *)
THEOREM Invariance == Spec => []Inv
  BY InitialInv, InvStep, PTL DEF Spec

-----------------------------------------------------------------------------

(* The evidence never outgrows max_output_bytes, and the shared quota is   *)
(* exactly what the two capture threads wrote or are about to write.       *)
THEOREM QuotaKept == Spec => []WithinQuota
  <1>1. Inv => WithinQuota
    <2> SUFFICES ASSUME Inv PROVE WithinQuota
      OBVIOUS
    <2>1. Both(file) + Both(accepted) + Both(lost) = Logged("stdout") + Logged("stderr")
      BY LoggedBoth DEF Inv
    <2> QED
      BY <2>1 DEF Inv, Accounts, WithinQuota
  <1> QED
    BY <1>1, Invariance, PTL

(* In a result nothing is still granted and unwritten.                     *)
LEMMA ResultSettled ==
    ASSUME Inv, outcome = "result", NEW p \in Pipes
    PROVE  reader[p] = "done" /\ final[p] /\ accepted[p] = 0 /\ chunk[p] = 0
  BY DEF Inv, Results, ReaderPhase

(* The output_bytes and output_budget_exceeded of a _ProcessResult agree   *)
(* with the two logs it is returned with.                                  *)
THEOREM ResultsMatch == Spec => []ResultMatchesLogs
  <1>1. Inv => ResultMatchesLogs
    <2> SUFFICES ASSUME Inv, outcome = "result"
                 PROVE  /\ \A p \in Pipes : reader[p] = "done" /\ accepted[p] = 0
                        /\ used = Both(file) + Both(lost)
                        /\ exceeded <=> Both(dropped) > 0
      BY DEF ResultMatchesLogs
    <2>1. \A p \in Pipes : reader[p] = "done" /\ accepted[p] = 0
      BY ResultSettled
    <2>2. used = Both(file) + Both(accepted) + Both(lost)
      BY LoggedBoth DEF Inv, Accounts
    <2>3. Both(accepted) = 0
      BY <2>1 DEF Both, Pipes
    <2>4. Both(file) \in Nat /\ Both(lost) \in Nat
      BY DEF Inv, TypeOK, Both, Pipes
    <2> QED
      BY <2>1, <2>2, <2>3, <2>4 DEF Inv, Accounts
  <1> QED
    BY <1>1, Invariance, PTL

(* A result misses nothing of what the command wrote but what the quota    *)
(* refused, a short write lost, or the redactor replaced.                  *)
THEOREM NothingMissing == Spec => []NothingElseLost
  <1>1. Inv => NothingElseLost
    <2> SUFFICES ASSUME Inv, outcome = "result", NEW p \in Pipes
                 PROVE  file[p] + lost[p] + dropped[p]
                           = written[p] + (MarkLen - SecretLen) * redactions[p]
      BY DEF NothingElseLost
    <2>1. accepted[p] = 0 /\ chunk[p] = 0 /\ pipe[p] = 0 /\ held[p] = 0
      BY ResultSettled DEF Inv, ReaderPhase
    <2>2. file[p] \in Nat /\ lost[p] \in Nat /\ dropped[p] \in Nat
      BY DEF Inv, TypeOK
    <2>3. 0 + 0 + 0 + 0 + file[p] + lost[p] + dropped[p]
             = written[p] + (MarkLen - SecretLen) * redactions[p]
      BY <2>1 DEF Inv, Conserved
    <2> QED
      BY <2>2, <2>3
  <1> QED
    BY <1>1, Invariance, PTL

(* A capture thread that was refused bytes signals the group before it     *)
(* reads again or ends.                                                    *)
THEOREM RefusalStops == Spec => []RefusalStopsGroup
  <1>1. Inv => RefusalStopsGroup
    BY DEF Inv, Refusal, RefusalStopsGroup
  <1> QED
    BY <1>1, Invariance, PTL

(* However _run_process is left, its leader has ended and the rest of the  *)
(* process group has been sent SIGKILL.                                    *)
THEOREM GroupIsGone == Spec => []NoSurvivors
  <1>1. Inv => NoSurvivors
    BY DEF Inv, OwnerPhases, GroupDoomed, NoSurvivors
  <1> QED
    BY <1>1, Invariance, PTL

(* A result with neither a timeout nor a quota stop has the leader's own   *)
(* return code.                                                            *)
THEOREM ExitIsTheLeaders == Spec => []OwnExitReported
  <1>1. Inv => OwnExitReported
    BY DEF Inv, Results, OwnExitReported
  <1> QED
    BY <1>1, Invariance, PTL

(* A stream that lost bytes to the quota is granted none of its later      *)
(* ones: what it is granted is a prefix of its redacted output.            *)
THEOREM PrefixGranted == Spec => GrantsArePrefix
  <1>1. Inv /\ [Next]_vars =>
          [\A p \in Pipes : dropped[p] > 0 /\ accepted[p] = 0 => accepted'[p] = 0]_vars
    <2> SUFFICES ASSUME Inv, [Next]_vars, NEW q \in Pipes, dropped[q] > 0, accepted[q] = 0
                 PROVE  accepted'[q] = 0
      OBVIOUS
    <2> USE DEF readerVars
    <2>1. used = MaxOutput /\ TypeOK
      BY DEF Inv, Refusal
    <2>2. CASE Owner
      BY <2>2
      DEF Owner, LaunchFails, Launch, StartReader, StartSecondReader, StartFails, LeaderReaped,
          TimeoutExpires,
          KillAfterTimeout, ReapAfterTimeout, KillAfterWait, Joined, JoinExpires, Verdict,
          Cleanup, CloseLogs
    <2>3. ASSUME NEW p \in Pipes, Take(p) PROVE accepted'[q] = 0
      <3>1. Room = 0
        BY <2>1, CaptureAssumption DEF Room
      <3>2. chunk[p] \in Nat /\ accepted \in [Pipes -> Nat]
        BY <2>1 DEF TypeOK
      <3>3. Granted(chunk[p]) = 0
        BY <3>1, <3>2 DEF Granted, Smaller
      <3> QED
        BY <2>3, <3>2, <3>3 DEF Take
    <2>4. ASSUME NEW p \in Pipes, Land(p) PROVE accepted'[q] = 0
      BY <2>1, <2>4 DEF Land, TypeOK
    <2>5. ASSUME NEW p \in Pipes, Thread(p), ~Take(p), ~Land(p) PROVE accepted'[q] = 0
      BY <2>5 DEF Thread, Reader, HungUp, EndOfFile, Read, EndsReading, SkipWrite,
                  BeginWrite, Fail, KillOnQuota, Flush, KillOnError
    <2>6. CASE Environment
      BY <2>6 DEF Environment, WriteByte, Fork, Exit, Die
    <2>7. CASE UNCHANGED vars
      BY <2>7 DEF vars
    <2> QED
      BY <2>2, <2>3, <2>4, <2>5, <2>6, <2>7 DEF Next, Ended
  <1> QED
    BY <1>1, Invariance, PTL DEF Spec, GrantsArePrefix

=============================================================================
