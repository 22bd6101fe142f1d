---------------------------- MODULE OutputCapture ----------------------------
(***************************************************************************)
(* One launched command of giclab.harness.executor, from Popen to the      *)
(* return (or raise) of LocalRunExecutor._run_process: the owner thread,   *)
(* the two daemon threads that run _capture_pipe, the byte quota they      *)
(* share, the process-group terminator all three call, and the processes   *)
(* of the command itself.                                                  *)
(*                                                                         *)
(* Bytes are counted, never spelled.  Processes, pipes and the disk are    *)
(* outside the program: their actions are the environment's.               *)
(***************************************************************************)
EXTENDS Integers

CONSTANTS
    MaxOutput,      \* plan.budget.max_output_bytes
    ReadMax,        \* the 64 KiB one os.read returns at most
    PipeCapacity,   \* bytes the operating system buffers in one pipe
    SecretLen,      \* length of the one injected credential, 0 for none
    MarkLen,        \* length of the redaction marker that replaces it
    DiskFaults,     \* subset of {"error", "short"} the disk may produce
    MaxWritten      \* bound: bytes the command writes

ASSUME CaptureAssumption ==
    /\ MaxOutput \in Nat \ {0}
    /\ ReadMax \in Nat \ {0}
    /\ PipeCapacity \in Nat \ {0}
    /\ SecretLen \in Nat
    /\ MarkLen \in Nat
    /\ DiskFaults \subseteq {"error", "short"}
    /\ MaxWritten \in Nat

Pipes == {"stdout", "stderr"}

(* The leader and its descendants in the new session's process group, and  *)
(* a descendant that moved to a session of its own.                        *)
Group == {"leader", "member"}
Processes == Group \cup {"escapee"}

VARIABLES
    owner,        \* where the thread inside _run_process is
    outcome,      \* what _run_process is about to hand to its caller
    timedOut,     \* the local timed_out
    closed,       \* stdout_handle and stderr_handle are closed
    reader,       \* per pipe: where its _capture_pipe thread is
    held,         \* per pipe: bytes in the redactor's buffer
    chunk,        \* per pipe: redacted bytes passed to write
    accepted,     \* per pipe: bytes the quota granted, not yet written
    short,        \* per pipe: the quota granted less than the chunk
    final,        \* per pipe: end of file was read
    errors,       \* pipes whose thread appended to capture_errors
    used,         \* quota.used
    exceeded,     \* quota.exceeded
    terminated,   \* terminate_group._terminated
    file,         \* per pipe: bytes in the log on disk
    alive,        \* processes of the command that have not exited
    doomed,       \* processes SIGKILL was sent to
    pipe,         \* per pipe: bytes written and not yet read
    (* Recorded for the properties only. *)
    written,      \* per pipe: bytes the command wrote
    redactions,   \* per pipe: credentials replaced
    dropped,      \* per pipe: bytes the quota refused
    lost          \* per pipe: bytes a short write left out

ownerVars  == <<owner, outcome, timedOut, closed>>
readerVars == <<reader, held, chunk, accepted, short, final, errors>>
quotaVars  == <<used, exceeded, dropped>>
diskVars   == <<file, lost>>
killVars   == <<terminated, doomed>>
inputVars  == <<pipe, written, redactions>>
vars == <<ownerVars, readerVars, quotaVars, diskVars, killVars, alive, inputVars>>

Smaller(a, b) == IF a < b THEN a ELSE b

Zero == [p \in Pipes |-> 0]

Init ==
    /\ owner = "launch" /\ outcome = "none" /\ timedOut = FALSE /\ closed = FALSE
    /\ reader = [p \in Pipes |-> "unstarted"]
    /\ held = Zero /\ chunk = Zero /\ accepted = Zero
    /\ short = [p \in Pipes |-> FALSE] /\ final = [p \in Pipes |-> FALSE]
    /\ errors = {}
    /\ used = 0 /\ exceeded = FALSE /\ dropped = Zero
    /\ file = Zero /\ lost = Zero
    /\ terminated = FALSE /\ doomed = {}
    /\ alive = {}
    /\ pipe = Zero /\ written = Zero /\ redactions = Zero

-----------------------------------------------------------------------------
(* The command: what its processes may do, outside the program.            *)

Running(w) == w \in alive \ doomed

(* A process writes one byte to a pipe it has not closed; it blocks while  *)
(* the pipe is full, and gets EPIPE once the thread has closed its end.    *)
WriteByte(w, p) ==
    /\ Running(w)
    /\ ~final[p] /\ reader[p] # "done"
    /\ pipe[p] < PipeCapacity
    /\ written["stdout"] + written["stderr"] < MaxWritten
    /\ pipe' = [pipe EXCEPT ![p] = @ + 1]
    /\ written' = [written EXCEPT ![p] = @ + 1]
    /\ UNCHANGED <<ownerVars, readerVars, quotaVars, diskVars, killVars, alive, redactions>>

Fork(w, child) ==
    /\ Running(w) /\ w \in Group
    /\ child \in Processes \ ({"leader"} \cup alive)
    /\ alive' = alive \cup {child}
    /\ UNCHANGED <<ownerVars, readerVars, quotaVars, diskVars, killVars, inputVars>>

Exit(w) ==
    /\ Running(w)
    /\ alive' = alive \ {w}
    /\ UNCHANGED <<ownerVars, readerVars, quotaVars, diskVars, killVars, inputVars>>

(* SIGKILL takes effect some time after killpg returned. *)
Die(w) ==
    /\ w \in alive \cap doomed
    /\ alive' = alive \ {w}
    /\ UNCHANGED <<ownerVars, readerVars, quotaVars, diskVars, killVars, inputVars>>

-----------------------------------------------------------------------------
(* The first call of _ProcessGroupTerminator, under its lock, signals the  *)
(* group; a group that has already ended is not an error.                  *)
KillGroup(targets) ==
    /\ terminated' = TRUE
    /\ doomed' = doomed \cup (alive \cap targets)

(* Mutant: the leader alone is killed. *)
TerminateLeader == IF terminated THEN UNCHANGED killVars ELSE KillGroup({"leader"})

(* _ProcessGroupTerminator.__call__: later calls do nothing. *)
TerminateGroup == IF terminated THEN UNCHANGED killVars ELSE KillGroup(Group)

-----------------------------------------------------------------------------
(* The owner thread.                                                       *)

(* The identity recheck or Popen itself fails: nothing was started, and    *)
(* the finally clause only closes the logs.                                *)
LaunchFails ==
    /\ owner = "launch"
    /\ owner' = "over" /\ outcome' = "launch-error" /\ closed' = TRUE
    /\ UNCHANGED <<timedOut, readerVars, quotaVars, diskVars, killVars, alive, inputVars>>

Launch ==
    /\ owner = "launch"
    /\ owner' = "callback"
    /\ alive' = {"leader"}
    /\ UNCHANGED <<outcome, timedOut, closed, readerVars, quotaVars, diskVars, killVars,
                   inputVars>>

(* started_callback() records COMMAND_STARTED, and the first thread starts. *)
StartReader ==
    /\ owner = "callback"
    /\ owner' = "second"
    /\ reader' = [reader EXCEPT !["stdout"] = "read"]
    /\ UNCHANGED <<outcome, timedOut, closed, held, chunk, accepted, short, final, errors,
                   quotaVars, diskVars, killVars, alive, inputVars>>

StartSecondReader ==
    /\ owner = "second"
    /\ owner' = "wait"
    /\ reader' = [reader EXCEPT !["stderr"] = "read"]
    /\ UNCHANGED <<outcome, timedOut, closed, held, chunk, accepted, short, final, errors,
                   quotaVars, diskVars, killVars, alive, inputVars>>

(* The callback's append fails, or a thread cannot be started: the         *)
(* exception leaves _run_process, with the first thread already reading.   *)
StartFails ==
    /\ owner \in {"callback", "second"}
    /\ owner' = "cleanup" /\ outcome' = "raised"
    /\ UNCHANGED <<timedOut, closed, readerVars, quotaVars, diskVars, killVars, alive,
                   inputVars>>

(* Mutant: the leader is polled, not waited for. *)
LeaderPolled ==
    /\ owner = "wait" /\ owner' = "terminate"
    /\ UNCHANGED <<outcome, timedOut, closed, readerVars, quotaVars, diskVars, killVars, alive,
                   inputVars>>

(* process.wait(timeout): the leader is reaped... *)
LeaderReaped ==
    /\ owner = "wait"
    /\ "leader" \notin alive
    /\ owner' = "terminate"
    /\ UNCHANGED <<outcome, timedOut, closed, readerVars, quotaVars, diskVars, killVars, alive,
                   inputVars>>

(* ... or TimeoutExpired while it still runs. *)
TimeoutExpires ==
    /\ owner = "wait"
    /\ "leader" \in alive
    /\ timedOut' = TRUE
    /\ owner' = "expire"
    /\ UNCHANGED <<outcome, closed, readerVars, quotaVars, diskVars, killVars, alive, inputVars>>

KillAfterTimeout ==
    /\ owner = "expire"
    /\ TerminateGroup
    /\ owner' = "reap"
    /\ UNCHANGED <<outcome, timedOut, closed, readerVars, quotaVars, diskVars, alive, inputVars>>

ReapAfterTimeout ==
    /\ owner = "reap"
    /\ "leader" \notin alive
    /\ owner' = "terminate"
    /\ UNCHANGED <<outcome, timedOut, closed, readerVars, quotaVars, diskVars, killVars, alive,
                   inputVars>>

KillAfterWait ==
    /\ owner = "terminate"
    /\ TerminateGroup
    /\ owner' = "join"
    /\ UNCHANGED <<outcome, timedOut, closed, readerVars, quotaVars, diskVars, alive, inputVars>>

(* Both joins return because both threads ended... *)
Joined ==
    /\ owner = "join"
    /\ \A p \in Pipes : reader[p] = "done"
    /\ owner' = "verdict"
    /\ UNCHANGED <<outcome, timedOut, closed, readerVars, quotaVars, diskVars, killVars, alive,
                   inputVars>>

(* Mutant: join() without a timeout. *)
NeverGivesUp(p) == FALSE

(* thread.join(timeout=5) returns although the thread is still alive. *)
GivesUp(p) == reader[p] # "done"

(* ... or a five-second join gave up; the thread may still end before the  *)
(* owner looks at it.                                                      *)
JoinExpires ==
    /\ owner = "join"
    /\ \E p \in Pipes : GivesUp(p)
    /\ owner' = "verdict"
    /\ UNCHANGED <<outcome, timedOut, closed, readerVars, quotaVars, diskVars, killVars, alive,
                   inputVars>>

(* Mutant: only the errors are looked at, not whether the threads live. *)
NoErrorSoFar == errors = {}

(* Neither thread is alive and neither appended to capture_errors. *)
Captured == (\A p \in Pipes : reader[p] = "done") /\ errors = {}

Verdict ==
    /\ owner = "verdict"
    /\ outcome' = IF Captured THEN "result" ELSE "raised"
    /\ owner' = "cleanup"
    /\ UNCHANGED <<timedOut, closed, readerVars, quotaVars, diskVars, killVars, alive, inputVars>>

(* The finally clause: terminate, wait for the leader, close both logs.    *)
Cleanup ==
    /\ owner = "cleanup"
    /\ TerminateGroup
    /\ owner' = "close"
    /\ UNCHANGED <<outcome, timedOut, closed, readerVars, quotaVars, diskVars, alive, inputVars>>

CloseLogs ==
    /\ owner = "close" /\ owner' = "over"
    /\ "leader" \notin alive
    /\ closed' = TRUE
    /\ UNCHANGED <<outcome, timedOut, readerVars, quotaVars, diskVars, killVars, alive, inputVars>>

Owner ==
    \/ LaunchFails \/ Launch \/ StartReader \/ StartSecondReader \/ StartFails
    \/ LeaderReaped \/ TimeoutExpires \/ KillAfterTimeout \/ ReapAfterTimeout
    \/ KillAfterWait \/ Joined \/ JoinExpires \/ Verdict \/ Cleanup \/ CloseLogs

-----------------------------------------------------------------------------
(* One _capture_pipe thread.                                               *)

(* Bytes the redactor keeps back because they may begin a credential.      *)
Keep == IF SecretLen = 0 THEN 0 ELSE SecretLen - 1

(* os.read returns k bytes; _StreamingRedactor.feed replaces m credentials *)
(* in what it has buffered and keeps back the end of the t bytes that      *)
(* follow the last of them.                                                *)
Read(p) ==
    /\ reader[p] = "read"
    /\ \E k \in 1 .. Smaller(ReadMax, pipe[p]) :
         \E m \in 0 .. (held[p] + k) :
           LET rest == held[p] + k - m * SecretLen IN
             /\ SecretLen = 0 => m = 0
             /\ rest >= 0
             /\ \E t \in 0 .. rest :
                  /\ m = 0 => t = rest
                  /\ held' = [held EXCEPT ![p] = Smaller(t, Keep)]
                  /\ chunk' = [chunk EXCEPT ![p] = rest + m * MarkLen - Smaller(t, Keep)]
             /\ pipe' = [pipe EXCEPT ![p] = @ - k]
             /\ redactions' = [redactions EXCEPT ![p] = @ + m]
    /\ reader' = [reader EXCEPT ![p] = "take"]
    /\ UNCHANGED <<ownerVars, accepted, short, final, errors, quotaVars, diskVars, killVars,
                   alive, written>>

(* Mutant: the loop ends without redactor.finish(). *)
NothingReleased(p) == 0

(* redactor.finish() *)
Released(p) == held[p]

(* os.read returns b"": redactor.finish() releases what was kept back,     *)
(* which is too short for a credential.                                    *)
EndsReading(p) ==
    /\ reader[p] = "read"
    /\ pipe[p] = 0
    /\ final' = [final EXCEPT ![p] = TRUE]
    /\ chunk' = [chunk EXCEPT ![p] = Released(p)]
    /\ held' = [held EXCEPT ![p] = 0]
    /\ reader' = [reader EXCEPT ![p] = "take"]
    /\ UNCHANGED <<ownerVars, accepted, short, errors, quotaVars, diskVars, killVars, alive,
                   inputVars>>

(* Every process that held the pipe has ended...                           *)
EndOfFile(p) == alive = {} /\ EndsReading(p)

(* ... or they closed it and run on, which nothing obliges them to.        *)
HungUp(p) == alive # {} /\ EndsReading(p)

Room == IF used < MaxOutput THEN MaxOutput - used ELSE 0

(* Mutants: nothing is sliced; the counter takes the room, not the slice;  *)
(* a chunk that does not fit is refused whole.                             *)
GrantAll(n)    == n
GrantRoom(n)   == Room
GrantAllOrNone(n) == IF n <= Room THEN n ELSE 0

(* The slice of an n-byte chunk that the quota accepts. *)
Granted(n) == Smaller(n, Room)

(* _OutputQuota.take, under the quota's lock. *)
Take(p) ==
    LET grant == Granted(chunk[p])
    IN  /\ reader[p] = "take"
        /\ used' = used + grant
        /\ accepted' = [accepted EXCEPT ![p] = grant]
        /\ dropped' = [dropped EXCEPT ![p] = @ + (chunk[p] - grant)]
        /\ short' = [short EXCEPT ![p] = (grant # chunk[p])]
        /\ exceeded' = (exceeded \/ grant # chunk[p])
        /\ chunk' = [chunk EXCEPT ![p] = 0]
        /\ reader' = [reader EXCEPT ![p] = "write"]
        /\ UNCHANGED <<ownerVars, held, final, errors, diskVars, killVars, alive, inputVars>>

(* Mutant: a short grant does not stop the command. *)
AfterWriteReadOn(p) == IF final[p] THEN "flush" ELSE "read"

AfterWrite(p) ==
    CASE short[p] -> "kill"
      [] ~short[p] /\ final[p] -> "flush"
      [] OTHER -> "read"

(* Nothing was granted: output.write is not called.                        *)
SkipWrite(p) ==
    /\ reader[p] = "write" /\ accepted[p] = 0
    /\ reader' = [reader EXCEPT ![p] = AfterWrite(p)]
    /\ UNCHANGED <<ownerVars, held, chunk, accepted, short, final, errors, quotaVars, diskVars,
                   killVars, alive, inputVars>>

(* output.write(accepted) finds the log open and enters write(2), which    *)
(* runs while the owner may give the thread up and close the log.          *)
BeginWrite(p) ==
    /\ reader[p] = "write" /\ accepted[p] > 0
    /\ ~closed
    /\ reader' = [reader EXCEPT ![p] = "landing"]
    /\ UNCHANGED <<ownerVars, held, chunk, accepted, short, final, errors, quotaVars, diskVars,
                   killVars, alive, inputVars>>

(* The log is unbuffered and the return value of write is ignored, so a    *)
(* short write passes unnoticed.                                           *)
Land(p) ==
    /\ reader[p] = "landing"
    /\ \E n \in 1 .. accepted[p] :
         /\ "short" \notin DiskFaults => n = accepted[p]
         /\ file' = [file EXCEPT ![p] = @ + n]
         /\ lost' = [lost EXCEPT ![p] = @ + (accepted[p] - n)]
    /\ accepted' = [accepted EXCEPT ![p] = 0]
    /\ reader' = [reader EXCEPT ![p] = AfterWrite(p)]
    /\ UNCHANGED <<ownerVars, held, chunk, short, final, errors, quotaVars, killVars, alive,
                   inputVars>>

(* The write, the flush or the fsync raises: the owner has given up on     *)
(* this thread and closed the log, or the disk refuses.                    *)
Fail(p) ==
    /\ \/ reader[p] = "write" /\ accepted[p] > 0 /\ closed
       \/ reader[p] = "landing" /\ "error" \in DiskFaults
       \/ reader[p] = "flush" /\ (closed \/ "error" \in DiskFaults)
    /\ errors' = errors \cup {p}
    /\ reader' = [reader EXCEPT ![p] = "abort"]
    /\ UNCHANGED <<ownerVars, held, chunk, accepted, short, final, quotaVars, diskVars,
                   killVars, alive, inputVars>>

KillOnQuota(p) ==
    /\ reader[p] = "kill"
    /\ TerminateGroup
    /\ short' = [short EXCEPT ![p] = FALSE]
    /\ reader' = [reader EXCEPT ![p] = IF final[p] THEN "flush" ELSE "read"]
    /\ UNCHANGED <<ownerVars, held, chunk, accepted, final, errors, quotaVars, diskVars,
                   alive, inputVars>>

Flush(p) ==
    /\ reader[p] = "flush"
    /\ ~closed
    /\ reader' = [reader EXCEPT ![p] = "done"]
    /\ UNCHANGED <<ownerVars, held, chunk, accepted, short, final, errors, quotaVars, diskVars,
                   killVars, alive, inputVars>>

(* except BaseException: the error is kept, the group is killed, and the   *)
(* pipe is closed.                                                         *)
KillOnError(p) ==
    /\ reader[p] = "abort"
    /\ TerminateGroup
    /\ reader' = [reader EXCEPT ![p] = "done"]
    /\ UNCHANGED <<ownerVars, held, chunk, accepted, short, final, errors, quotaVars, diskVars,
                   alive, inputVars>>

Reader(p) ==
    \/ Read(p) \/ EndOfFile(p) \/ Take(p) \/ SkipWrite(p) \/ BeginWrite(p) \/ Land(p)
    \/ Fail(p) \/ KillOnQuota(p) \/ Flush(p) \/ KillOnError(p)

(* What a thread does by itself, and the end of its pipe that it waits for. *)
Thread(p) == Reader(p) \/ HungUp(p)

-----------------------------------------------------------------------------
Environment ==
    \/ \E w \in Processes, p \in Pipes : WriteByte(w, p)
    \/ \E w, child \in Processes : Fork(w, child)
    \/ \E w \in Processes : Exit(w) \/ Die(w)

ReaderIdle(p) == reader[p] \in {"unstarted", "done"}

(* Everything has ended: the only state in which nothing is left to do.    *)
Ended ==
    /\ owner = "over" /\ alive = {}
    /\ \A p \in Pipes : ReaderIdle(p)
    /\ UNCHANGED vars

Next == Owner \/ (\E p \in Pipes : Thread(p)) \/ Environment \/ Ended

(* Threads are scheduled, timeouts pass and SIGKILL is delivered; nothing  *)
(* obliges the command to write or to exit.                                *)
Fairness ==
    /\ WF_vars(Owner)
    /\ \A p \in Pipes : WF_vars(Reader(p))
    /\ \A w \in Processes : WF_vars(Die(w))

Spec == Init /\ [][Next]_vars /\ Fairness

-----------------------------------------------------------------------------
(* Properties.                                                             *)

TypeOK ==
    /\ owner \in {"launch", "callback", "second", "wait", "expire", "reap", "terminate", "join",
                  "verdict", "cleanup", "close", "over"}
    /\ outcome \in {"none", "launch-error", "result", "raised"}
    /\ timedOut \in BOOLEAN /\ closed \in BOOLEAN
    /\ reader \in [Pipes -> {"unstarted", "read", "take", "write", "landing", "kill", "flush",
                             "abort", "done"}]
    /\ held \in [Pipes -> Nat] /\ chunk \in [Pipes -> Nat] /\ accepted \in [Pipes -> Nat]
    /\ short \in [Pipes -> BOOLEAN] /\ final \in [Pipes -> BOOLEAN]
    /\ errors \subseteq Pipes
    /\ used \in Nat /\ exceeded \in BOOLEAN /\ dropped \in [Pipes -> Nat]
    /\ file \in [Pipes -> Nat] /\ lost \in [Pipes -> Nat]
    /\ terminated \in BOOLEAN /\ doomed \subseteq Group
    /\ alive \subseteq Processes
    /\ pipe \in [Pipes -> Nat] /\ written \in [Pipes -> Nat] /\ redactions \in [Pipes -> Nat]

Both(f) == f["stdout"] + f["stderr"]

(* Whatever the two threads interleave, the shared quota is exactly what   *)
(* they wrote, are about to write, or believe they wrote, and the evidence *)
(* never outgrows max_output_bytes.                                        *)
WithinQuota ==
    /\ used <= MaxOutput
    /\ used = Both(file) + Both(accepted) + Both(lost)

(* A _ProcessResult is final: both threads have ended, its output_bytes is *)
(* what the logs hold (short writes aside), and output_budget_exceeded     *)
(* says whether anything was refused.                                      *)
ResultMatchesLogs ==
    outcome = "result" =>
        /\ \A p \in Pipes : reader[p] = "done" /\ accepted[p] = 0
        /\ used = Both(file) + Both(lost)
        /\ exceeded <=> Both(dropped) > 0

(* Nothing the command wrote is missing from a result, except what the     *)
(* quota refused or a short write lost, and credentials became markers.    *)
NothingElseLost ==
    outcome = "result" =>
        \A p \in Pipes :
            file[p] + lost[p] + dropped[p] = written[p] + (MarkLen - SecretLen) * redactions[p]

(* A thread whose bytes were refused does not go back to the pipe, and     *)
(* does not end, before the group has been signalled.                      *)
RefusalStopsGroup ==
    \A p \in Pipes :
        dropped[p] > 0 /\ reader[p] \in {"read", "flush", "done"} => terminated

(* When _run_process is left, by return or by an exception at any point,   *)
(* the leader has ended and SIGKILL is on its way to all of its group.     *)
NoSurvivors ==
    owner = "over" => "leader" \notin alive /\ alive \cap Group \subseteq doomed

(* A result that reports neither a timeout nor a quota stop carries the    *)
(* return code the leader chose: the harness did not kill it.              *)
OwnExitReported ==
    outcome = "result" /\ ~timedOut /\ ~exceeded => "leader" \notin doomed

(* What a stream is granted is a prefix of its redacted output: once bytes *)
(* of it were refused, nothing later of it is granted, whatever room the   *)
(* other thread's counting leaves.  (The log holds that prefix but for     *)
(* what short writes left out: those are holes, and nobody notices them.)  *)
GrantsArePrefix ==
    [][\A p \in Pipes : dropped[p] > 0 /\ accepted[p] = 0 => accepted'[p] = 0]_vars

(* The owner leaves _run_process, whatever the command and the threads do. *)
OwnerLeaves == <>(owner = "over")

(* A capture thread outlives the call only while a process that left the   *)
(* session keeps the pipe open.                                            *)
ReadersEnd == (owner = "over" /\ alive \subseteq Group) ~> (\A p \in Pipes : ReaderIdle(p))

=============================================================================
