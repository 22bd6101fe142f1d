------------------------------- MODULE Redaction -------------------------------
(***************************************************************************)
(* What _StreamingRedactor (src/giclab/harness/executor.py:219-261) makes   *)
(* of the bytes of one pipe.  OutputCapture counts bytes; here they are     *)
(* letters, credentials are words over the letters, and the pipe hands its  *)
(* input over in chunks of any size.                                        *)
(*                                                                          *)
(* The output keeps apart the bytes that were read, which are letters, and  *)
(* the places of replacements, each one symbol that is no letter, whatever  *)
(* its bytes are.  What the bytes of a replacement may spell together with  *)
(* released ones is therefore not looked at: the constructor refuses only a *)
(* credential inside the replacement (executor.py:224), and "]abc" appears  *)
(* in the "[REDACTED]abc" that is made of "hunter2abc".                     *)
(***************************************************************************)
EXTENDS Naturals, Sequences, FiniteSetsExt

CONSTANTS
    Letters,    \* what a byte may be
    Marker,     \* where a replacement stands in the output
    SecretSets, \* the sets of credentials to try, each a set of nonempty words
    MaxInput    \* bound: letters the command writes to the pipe

\* The constructor drops empty credentials.  That the marker is no letter only tells places
\* of the output apart; it says nothing about the bytes of the replacement.
ASSUME RedactionAssumption ==
    /\ Marker \notin Letters
    /\ \A S \in SecretSets : IsFiniteSet(S) /\ S \subseteq Seq(Letters) \ {<<>>}

VARIABLES
    secrets,    \* self.secrets
    input,      \* all that was read from the pipe so far
    buffer,     \* self.buffer
    output,     \* all that feed and finish returned so far
    redactions, \* self.redactions
    finished    \* finish() was called
redactorVars == <<secrets, input, buffer, output, redactions, finished>>

OccursAt(s, i, word) == i + Len(word) - 1 <= Len(s) /\ SubSeq(s, i, i + Len(word) - 1) = word
MaximumSecretLength == IF secrets = {} THEN 1 ELSE Max({Len(w) : w \in secrets})

Matches(s) == {m \in (1..Len(s)) \X secrets : OccursAt(s, m[1], m[2])}

\* The leftmost match; of those, the longest.
NextMatch(s) ==
    CHOOSE m \in Matches(s) : \A n \in Matches(s) :
        m[1] < n[1] \/ (m[1] = n[1] /\ Len(m[2]) >= Len(n[2]))

\* The loop of _drain: what it appends to its output, what it leaves in the buffer.
Replaced[s \in Seq(Letters)] ==
    IF Matches(s) = {} THEN [out |-> <<>>, rest |-> s, count |-> 0]
    ELSE LET match == NextMatch(s)
             later == Replaced[SubSeq(s, match[1] + Len(match[2]), Len(s))]
         IN  [out   |-> SubSeq(s, 1, match[1] - 1) \o <<Marker>> \o later.out,
              rest  |-> later.rest,
              count |-> later.count + 1]

\* Mutant: one byte too few is held back.
RetainedShort == IF MaximumSecretLength > 1 THEN MaximumSecretLength - 2 ELSE 0

Retained == MaximumSecretLength - 1
SafeLength(s) == IF Len(s) > Retained THEN Len(s) - Retained ELSE 0

-----------------------------------------------------------------------------
RedactorInit ==
    /\ secrets \in SecretSets
    /\ input = <<>> /\ buffer = <<>> /\ output = <<>>
    /\ redactions = 0 /\ finished = FALSE

\* The redactor of a pipe that was closed without a byte, for a command without secrets.
RedactorUnused ==
    /\ secrets = {} /\ input = <<>> /\ buffer = <<>> /\ output = <<>>
    /\ redactions = 0 /\ finished = TRUE

\* os.read returned a chunk; feed() releases all that can no longer be part of a match.
Feed(chunk) ==
    LET drained == Replaced[buffer \o chunk]
        safe    == SafeLength(drained.rest)
    IN  /\ ~finished
        /\ input' = input \o chunk
        /\ output' = output \o drained.out \o SubSeq(drained.rest, 1, safe)
        /\ buffer' = SubSeq(drained.rest, safe + 1, Len(drained.rest))
        /\ redactions' = redactions + drained.count
        /\ UNCHANGED <<secrets, finished>>

\* End of file: what is still held is released.
Finish ==
    LET drained == Replaced[buffer]
    IN  /\ ~finished
        /\ finished' = TRUE
        /\ output' = output \o drained.out \o drained.rest
        /\ buffer' = <<>>
        /\ redactions' = redactions + drained.count
        /\ UNCHANGED <<secrets, input>>

Chunks == UNION {[1..n -> Letters] : n \in 1..(MaxInput - Len(input))}
Redact == Finish \/ \E chunk \in Chunks : Feed(chunk)

-----------------------------------------------------------------------------
(* Properties.                                                              *)

\* No credential is a part of another one.
FactorFree ==
    \A v, w \in secrets : v # w => \A i \in 1..Len(w) : ~OccursAt(w, i, v)

\* No run of released bytes between two replacements contains a credential.
NoCredentialBetween ==
    \A w \in secrets, i \in 1..Len(output) : ~OccursAt(output, i, w)

\* The whole input, redacted in one piece.
OneShot == LET whole == Replaced[input]
           IN  [output |-> whole.out \o whole.rest, redactions |-> whole.count]

\* Redaction does not depend on where the pipe cuts its input (executor.py:220, "across
\* arbitrary pipe chunk boundaries"): no credential is released in bytes that were read, but
\* for one that is spelled with bytes of a replacement, which the scan of the sealed logs has
\* to find; less is held back than the longest credential; and the result is that of the
\* whole input.  The last holds if no credential is a part of another one: else the shorter
\* one is replaced before the rest of the longer one has been read.
RedactionExact ==
    /\ NoCredentialBetween
    /\ Len(buffer) < MaximumSecretLength
    /\ finished /\ FactorFree =>
          OneShot = [output |-> output, redactions |-> redactions]
=============================================================================
