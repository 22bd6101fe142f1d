---------------------------- MODULE LedgerProofs ----------------------------
(***************************************************************************)
(* What a run attempt leaves behind.                                       *)
(*                                                                         *)
(* On any disk: an attempt sealed without a broken line has a record for   *)
(* every file (SealsAreComplete).                                          *)
(*                                                                         *)
(* On a disk that does not fail: a run attempt is a ledger, events in      *)
(* sequence, then one record for every retained file, then the seal        *)
(* (AttemptIsALedger); what it tells is what happened (CompletedMeansClean,*)
(* AcceptedMatches), and the offline validator accepts it                  *)
(* (SealsPassTheValidator).                                                *)
(***************************************************************************)
EXTENDS SessionProofs

-----------------------------------------------------------------------------
(* The listing of retained files names each file once.                     *)

OncePerIndex(s) == \A i, j \in DOMAIN s : s[i] = s[j] => i = j

LEMMA PathsAreDistinct == OncePerIndex(PathOrder)
  <1>1. /\ CoreOrder \in Seq(Files) /\ RawPaths \in Seq(Files)
        /\ RawPaths \in Seq(RawFiles) /\ CoreOrder \in Seq(CoreFiles)
    <2>1. RawPaths \in Seq(RawFiles)
      BY SessionAssumption, LenProperties, SeqDef DEF RawFiles
    <2> QED
      BY <2>1, CoreFilesAre, SeqMonotonic DEF Files
  <1>2. Len(CoreOrder) = 4 /\ Len(RawPaths) \in Nat /\ DOMAIN RawPaths = 1 .. Len(RawPaths)
    BY <1>1, LenProperties DEF CoreOrder
  <1>3. \A i, j \in 1 .. 4 : CoreOrder[i] = CoreOrder[j] => i = j
    <2>1. /\ CoreOrder[1] = "command.json" /\ CoreOrder[2] = "run-plan.json"
          /\ CoreOrder[3] = "stderr.log" /\ CoreOrder[4] = "stdout.log"
      BY DEF CoreOrder
    <2> QED
      BY <2>1
  <1>4. \A i, j \in 1 .. Len(RawPaths) : RawPaths[i] = RawPaths[j] => i = j
    BY <1>2, SessionAssumption
  <1>5. /\ Len(PathOrder) = 4 + Len(RawPaths)
        /\ DOMAIN PathOrder = 1 .. (4 + Len(RawPaths))
        /\ \A i \in 1 .. (4 + Len(RawPaths)) :
             PathOrder[i] = IF i <= 4 THEN CoreOrder[i] ELSE RawPaths[i - 4]
    <2>1. /\ PathOrder \in Seq(Files) /\ Len(PathOrder) = 4 + Len(RawPaths)
          /\ \A i \in 1 .. (4 + Len(RawPaths)) :
               PathOrder[i] = IF i <= 4 THEN CoreOrder[i] ELSE RawPaths[i - 4]
      <3>1. /\ PathOrder \in Seq(Files) /\ Len(PathOrder) = Len(CoreOrder) + Len(RawPaths)
            /\ \A i \in 1 .. (Len(CoreOrder) + Len(RawPaths)) :
                 PathOrder[i] = IF i <= Len(CoreOrder) THEN CoreOrder[i]
                                ELSE RawPaths[i - Len(CoreOrder)]
        BY <1>1, ConcatProperties DEF PathOrder
      <3> QED
        BY <1>2, <3>1
    <2> QED
      BY <2>1, LenProperties
  <1>6. /\ \A i \in 1 .. 4 : CoreOrder[i] \in CoreFiles
        /\ \A i \in 1 .. Len(RawPaths) : RawPaths[i] \in RawFiles
    BY <1>1, <1>2, ElementOfSeq
  <1>7. ASSUME NEW i \in 1 .. (4 + Len(RawPaths)), NEW j \in 1 .. (4 + Len(RawPaths)),
               PathOrder[i] = PathOrder[j]
        PROVE  i = j
    <2>1. CASE i <= 4 /\ j <= 4
      BY <1>2, <1>3, <1>5, <1>7, <2>1
    <2>2. CASE i > 4 /\ j > 4
      <3>1. i - 4 \in 1 .. Len(RawPaths) /\ j - 4 \in 1 .. Len(RawPaths)
        BY <1>2, <2>2
      <3>2. PathOrder[i] = RawPaths[i - 4] /\ PathOrder[j] = RawPaths[j - 4]
        BY <1>5, <2>2
      <3>3. i - 4 = j - 4
        BY <1>4, <1>7, <3>1, <3>2
      <3> QED
        BY <1>2, <3>3
    <2>3. ASSUME NEW k \in 1 .. (4 + Len(RawPaths)), NEW l \in 1 .. (4 + Len(RawPaths)),
                 k <= 4, l > 4
          PROVE  PathOrder[k] # PathOrder[l]
      <3>1. k \in 1 .. 4 /\ l - 4 \in 1 .. Len(RawPaths)
        BY <1>2, <2>3
      <3>2. PathOrder[k] = CoreOrder[k] /\ PathOrder[l] = RawPaths[l - 4]
        BY <1>5, <2>3
      <3> QED
        BY <1>6, <3>1, <3>2, CoreFilesAre
    <2> QED
      BY <1>2, <1>7, <2>1, <2>2, <2>3
  <1> QED
    BY <1>5, <1>7 DEF OncePerIndex

LEMMA ListingIsDistinct == OncePerIndex(RetainedInOrder)
  <1> DEFINE T(n) == RetainedUpTo[n]
             Good(n) == /\ T(n) \in Seq(retained) /\ OncePerIndex(T(n))
                        /\ \A i \in DOMAIN T(n) : \E j \in 1 .. n : T(n)[i] = PathOrder[j]
             S == {n \in Nat : n <= Len(PathOrder) => Good(n)}
  <1>1. 0 \in S
    <2>1. T(0) = <<>>
      BY RetainedUpToLists, PathsAreSequences DEF Listed
    <2>2. T(0) \in Seq(retained) /\ DOMAIN T(0) = 1 .. 0
      BY <2>1, EmptySeq, LenProperties
    <2> HIDE DEF T
    <2> QED
      BY <2>2 DEF OncePerIndex
  <1>2. ASSUME NEW n \in Nat, n \in S PROVE n + 1 \in S
    <2> SUFFICES ASSUME n + 1 <= Len(PathOrder) PROVE Good(n + 1)
      OBVIOUS
    <2>1. Good(n)
      BY <1>2, PathsAreSequences
    <2>2. T(n + 1) = IF PathOrder[n + 1] \in retained THEN Append(T(n), PathOrder[n + 1])
                     ELSE T(n)
      <3>1. T(n + 1) = Listed(RetainedUpTo, n + 1) /\ n + 1 # 0 /\ (n + 1) - 1 = n
        BY RetainedUpToLists, PathsAreSequences
      <3> QED
        BY <3>1 DEF Listed
    <2> HIDE DEF T
    <2>3. CASE PathOrder[n + 1] \notin retained
      BY <2>1, <2>2, <2>3
    <2>4. CASE PathOrder[n + 1] \in retained
      <3> DEFINE l == Len(T(n))
      <3>1. l \in Nat /\ DOMAIN T(n) = 1 .. l
        BY <2>1, LenProperties
      <3>2. /\ T(n + 1) \in Seq(retained) /\ DOMAIN T(n + 1) = 1 .. (l + 1)
            /\ \A i \in 1 .. l : T(n + 1)[i] = T(n)[i]
            /\ T(n + 1)[l + 1] = PathOrder[n + 1]
        <4>1. T(n) \in Seq(retained) /\ T(n + 1) = Append(T(n), PathOrder[n + 1])
          BY <2>1, <2>2, <2>4
        <4> HIDE DEF l
        <4>2. /\ T(n + 1) \in Seq(retained)
              /\ \A i \in 1 .. Len(T(n)) : T(n + 1)[i] = T(n)[i]
              /\ T(n + 1)[Len(T(n)) + 1] = PathOrder[n + 1]
              /\ Len(T(n + 1)) = Len(T(n)) + 1
          BY <2>4, <4>1, AppendProperties
        <4>3. DOMAIN T(n + 1) = 1 .. Len(T(n + 1))
          BY <4>2, LenProperties
        <4> QED
          BY <4>2, <4>3 DEF l
      <3>3. \A i \in 1 .. l : T(n)[i] # PathOrder[n + 1]
        <4> SUFFICES ASSUME NEW i \in 1 .. l PROVE T(n)[i] # PathOrder[n + 1]
          OBVIOUS
        <4>1. PICK j \in 1 .. n : T(n)[i] = PathOrder[j]
          BY <2>1, <3>1
        <4>2. j \in DOMAIN PathOrder /\ n + 1 \in DOMAIN PathOrder /\ j # n + 1
          BY PathsAreSequences, LenProperties
        <4> QED
          BY <4>1, <4>2, PathsAreDistinct DEF OncePerIndex
      <3> HIDE DEF l
      <3>4. OncePerIndex(T(n + 1))
        <4> SUFFICES ASSUME NEW i \in 1 .. (l + 1), NEW j \in 1 .. (l + 1),
                            T(n + 1)[i] = T(n + 1)[j]
                     PROVE  i = j
          BY <3>2 DEF OncePerIndex
        <4>1. (i \in 1 .. l \/ i = l + 1) /\ (j \in 1 .. l \/ j = l + 1)
          BY <3>1
        <4> QED
          BY <2>1, <3>1, <3>2, <3>3, <4>1 DEF OncePerIndex
      <3>5. \A i \in DOMAIN T(n + 1) : \E j \in 1 .. (n + 1) : T(n + 1)[i] = PathOrder[j]
        <4> SUFFICES ASSUME NEW i \in 1 .. (l + 1)
                     PROVE  \E j \in 1 .. (n + 1) : T(n + 1)[i] = PathOrder[j]
          BY <3>2
        <4>1. CASE i = l + 1
          <5>1. n + 1 \in 1 .. (n + 1)
            OBVIOUS
          <5> QED
            BY <3>2, <4>1, <5>1
        <4>2. CASE i # l + 1
          <5>1. i \in 1 .. l
            BY <3>1, <4>2
          <5>2. PICK j \in 1 .. n : T(n)[i] = PathOrder[j]
            BY <2>1, <3>1, <5>1
          <5>3. j \in 1 .. (n + 1)
            OBVIOUS
          <5> QED
            BY <3>2, <5>1, <5>2, <5>3
        <4> QED
          BY <4>1, <4>2
      <3> QED
        BY <3>2, <3>4, <3>5
    <2> QED
      BY <2>3, <2>4
  <1> HIDE DEF S
  <1>3. Nat \subseteq S
    BY <1>1, <1>2, SetInduction
  <1> QED
    BY <1>3, PathsAreSequences DEF S, RetainedInOrder

LEMMA PathsAreFiles == \A f \in Files : \E k \in 1 .. Len(PathOrder) : PathOrder[k] = f
  <1>1. /\ CoreOrder \in Seq(Files) /\ RawPaths \in Seq(Files)
        /\ Len(CoreOrder) = 4 /\ Len(RawPaths) \in Nat /\ DOMAIN RawPaths = 1 .. Len(RawPaths)
        /\ DOMAIN CoreOrder = 1 .. 4
    <2>1. RawPaths \in Seq(RawFiles)
      BY SessionAssumption, LenProperties, SeqDef DEF RawFiles
    <2> QED
      BY <2>1, CoreFilesAre, SeqMonotonic, LenProperties DEF Files, CoreOrder
  <1>2. /\ Len(PathOrder) = 4 + Len(RawPaths)
        /\ \A i \in 1 .. (4 + Len(RawPaths)) :
             PathOrder[i] = IF i <= 4 THEN CoreOrder[i] ELSE RawPaths[i - 4]
    <2>1. /\ Len(PathOrder) = Len(CoreOrder) + Len(RawPaths)
          /\ \A i \in 1 .. (Len(CoreOrder) + Len(RawPaths)) :
               PathOrder[i] = IF i <= Len(CoreOrder) THEN CoreOrder[i]
                              ELSE RawPaths[i - Len(CoreOrder)]
      BY <1>1, ConcatProperties DEF PathOrder
    <2> QED
      BY <1>1, <2>1
  <1>4. ASSUME NEW f \in CoreFiles PROVE \E k \in 1 .. Len(PathOrder) : PathOrder[k] = f
    <2>1. PICK k \in 1 .. 4 : CoreOrder[k] = f
      BY <1>1 DEF CoreFiles
    <2>2. k \in 1 .. (4 + Len(RawPaths)) /\ PathOrder[k] = CoreOrder[k]
      BY <1>1, <1>2
    <2> QED
      BY <1>2, <2>1, <2>2
  <1>5. ASSUME NEW f \in RawFiles PROVE \E k \in 1 .. Len(PathOrder) : PathOrder[k] = f
    <2>1. PICK k \in 1 .. Len(RawPaths) : RawPaths[k] = f
      BY <1>1 DEF RawFiles
    <2>2. k + 4 \in 1 .. (4 + Len(RawPaths)) /\ ~ (k + 4 <= 4) /\ (k + 4) - 4 = k
      BY <1>1
    <2>3. PathOrder[k + 4] = RawPaths[k]
      BY <1>2, <2>2
    <2> QED
      BY <1>2, <2>1, <2>2, <2>3
  <1> QED
    BY <1>4, <1>5 DEF Files

\* Nothing retained is left out of the listing.
LEMMA ListingIsComplete ==
    ASSUME retained \subseteq Files
    PROVE  \A f \in retained : \E i \in DOMAIN RetainedInOrder : RetainedInOrder[i] = f
  <1> DEFINE T(n) == RetainedUpTo[n]
             Good(n) ==
               /\ T(n) \in Seq(retained)
               /\ \A k \in 1 .. n : PathOrder[k] \in retained =>
                    \E i \in DOMAIN T(n) : T(n)[i] = PathOrder[k]
             S == {n \in Nat : n <= Len(PathOrder) => Good(n)}
  <1>1. 0 \in S
    <2>1. T(0) = <<>>
      BY RetainedUpToLists, PathsAreSequences DEF Listed
    <2>2. T(0) \in Seq(retained)
      BY <2>1, EmptySeq
    <2> HIDE DEF T
    <2> QED
      BY <2>2
  <1>2. ASSUME NEW n \in Nat, n \in S PROVE n + 1 \in S
    <2> SUFFICES ASSUME n + 1 <= Len(PathOrder) PROVE Good(n + 1)
      OBVIOUS
    <2>1. Good(n)
      BY <1>2, PathsAreSequences
    <2>2. T(n + 1) = IF PathOrder[n + 1] \in retained THEN Append(T(n), PathOrder[n + 1])
                     ELSE T(n)
      <3>1. T(n + 1) = Listed(RetainedUpTo, n + 1) /\ n + 1 # 0 /\ (n + 1) - 1 = n
        BY RetainedUpToLists, PathsAreSequences
      <3> QED
        BY <3>1 DEF Listed
    <2> HIDE DEF T
    <2> DEFINE l == Len(T(n))
    <2>4. l \in Nat /\ DOMAIN T(n) = 1 .. l
      BY <2>1, LenProperties
    <2>5. CASE PathOrder[n + 1] \notin retained
      <3>1. T(n + 1) = T(n)
        BY <2>2, <2>5
      <3>2. ASSUME NEW k \in 1 .. (n + 1), PathOrder[k] \in retained
            PROVE  \E i \in DOMAIN T(n) : T(n)[i] = PathOrder[k]
        <4>1. k \in 1 .. n
          BY <2>5, <3>2
        <4> QED
          BY <2>1, <3>2, <4>1
      <3> QED
        BY <2>1, <3>1, <3>2
    <2>6. CASE PathOrder[n + 1] \in retained
      <3>1. /\ T(n + 1) \in Seq(retained) /\ DOMAIN T(n + 1) = 1 .. (l + 1)
            /\ Len(T(n + 1)) = l + 1
            /\ \A i \in 1 .. l : T(n + 1)[i] = T(n)[i]
            /\ T(n + 1)[l + 1] = PathOrder[n + 1]
        BY <2>1, <2>2, <2>4, <2>6, AppendProperties, LenProperties
      <3> HIDE DEF l
      <3>2. ASSUME NEW k \in 1 .. (n + 1), PathOrder[k] \in retained
            PROVE  \E i \in DOMAIN T(n + 1) : T(n + 1)[i] = PathOrder[k]
        <4>1. CASE k = n + 1
          <5>1. l + 1 \in 1 .. (l + 1)
            BY <2>4
          <5> QED
            BY <3>1, <4>1, <5>1
        <4>2. CASE k # n + 1
          <5>1. k \in 1 .. n
            BY <4>2
          <5>2. PICK i \in 1 .. l : T(n)[i] = PathOrder[k]
            BY <2>1, <2>4, <3>2, <5>1
          <5>3. i \in 1 .. (l + 1)
            BY <2>4
          <5> QED
            BY <3>1, <5>2, <5>3
        <4> QED
          BY <4>1, <4>2
      <3> QED
        BY <2>4, <3>1, <3>2
    <2> QED
      BY <2>5, <2>6
  <1> HIDE DEF S
  <1>3. Nat \subseteq S
    BY <1>1, <1>2, SetInduction
  <1>4. Good(Len(PathOrder))
    <2>1. Len(PathOrder) \in Nat /\ Len(PathOrder) <= Len(PathOrder)
      BY PathsAreSequences
    <2>2. Len(PathOrder) \in S
      BY <1>3, <2>1
    <2> HIDE DEF T, Good
    <2> QED
      BY <2>1, <2>2 DEF S
  <1>5. RetainedInOrder = T(Len(PathOrder))
    BY DEF RetainedInOrder
  <1> HIDE DEF T
  <1> SUFFICES ASSUME NEW f \in retained
               PROVE  \E i \in DOMAIN RetainedInOrder : RetainedInOrder[i] = f
    OBVIOUS
  <1>6. PICK k \in 1 .. Len(PathOrder) : PathOrder[k] = f
    BY PathsAreFiles
  <1> QED
    BY <1>4, <1>5, <1>6

-----------------------------------------------------------------------------
(* What a seal leaves, whatever the disk does and whoever tries again.     *)

(* The harness's own files are retained from the start, and projected use  *)
(* is closed when a seal begins.                                           *)
ReadyInv ==
    /\ CoreFiles \subseteq retained
    /\ Closing /\ HasUsage => attested

(* A manifest that was never created has no records, and a seal that is to *)
(* record anything has found none.                                         *)
CreatedInv ==
    /\ ~created => manifest = <<>> /\ "manifest" \notin torn
    /\ pc = "hash" => ~created

(* Nobody holds a session with nothing in its stream, unless the very line *)
(* is broken.                                                              *)
BegunInv ==
    \/ EventStream \in torn \/ stream # <<>>
    \/ ~attached /\ ~sealed /\ pc = "open" /\ todo # <<>>
    \/ ~attached /\ ~sealed /\ pc \in {"lost", "ended"}

LEMMA ReadyHolds == SealInv /\ ReadyInv /\ [Next]_vars => ReadyInv'
  <1> SUFFICES ASSUME SealInv, ReadyInv, [Next]_vars PROVE ReadyInv'
    OBVIOUS
  <1>1. (CoreFiles \subseteq retained)'
    BY RetainedGrows DEF ReadyInv, CoreFiles
  <1>2. Closing' /\ HasUsage => attested'
    BY ClosingSteps DEF ReadyInv, SealAnnounce, SealReady, sessionVars
  <1> QED
    BY <1>1, <1>2 DEF ReadyInv, HasUsage

LEMMA CreatedHolds == ControlInv /\ CreatedInv /\ [Next]_vars => CreatedInv'
  <1> SUFFICES ASSUME ControlInv, CreatedInv, [Next]_vars PROVE CreatedInv'
    OBVIOUS
  <1> USE DEF CreatedInv, diskVars
  <1>1. CASE Emit \/ EmitShort
    <2>1. "manifest" # EventStream
      BY DEF EventStream
    <2> QED
      BY <1>1, <2>1 DEF Emit, EmitShort
  <1>2. CASE EmitLeak \/ EmitRefused \/ EmitUnsynced
    BY <1>2 DEF EmitLeak, EmitRefused, EmitUnsynced, Raise
  <1>3. CASE Launch \/ CaptureFails
    BY <1>3 DEF Launch, CaptureFails, Raise
  <1>4. CASE Construct \/ Normalized
    BY <1>4 DEF Construct, Normalized, Attest
  <1>5. CASE \E r \in AdapterResults : ClaimRefused(r) \/ ApplyNormalization(r)
    BY <1>5 DEF ClaimRefused, ApplyNormalization
  <1>6. CASE RequestSeal \/ SealRefused \/ SealRejected
    BY <1>6 DEF RequestSeal, SealRefused, SealRejected, Raise
  <1>7. CASE SealAnnounce
    <2>1. ~created
      BY <1>7 DEF SealAnnounce, SealReady, UnownedEntries
    <2> QED
      BY <1>7, <2>1 DEF SealAnnounce
  <1>8. CASE HashStream \/ Sealed
    BY <1>8 DEF HashStream, Sealed
  <1>9. CASE RecordArtifact \/ RecordRefused \/ RecordUnsynced \/ RecordShort
    <2>1. pc = "record" /\ pc' # "hash"
      BY <1>9 DEF ControlInv, RecordArtifact, RecordRefused, RecordUnsynced, RecordShort, Raise
    <2>2. CASE RecordRefused
      <3>1. UNCHANGED <<manifest, torn>> /\ (created' = created \/ created' = TRUE)
        BY <2>2, Zenon DEF RecordRefused
      <3> QED
        BY <2>1, <3>1
    <2>3. CASE RecordArtifact \/ RecordUnsynced \/ RecordShort
      <3>1. created'
        BY <2>3 DEF RecordArtifact, RecordUnsynced, RecordShort
      <3> QED
        BY <2>1, <3>1
    <2> QED
      BY <1>9, <2>2, <2>3
  <1>10. CASE \E f \in RawFiles : LeaveFile(f) \/ RemoveFile(f)
    BY <1>10 DEF LeaveFile, RemoveFile
  <1>11. CASE HostEnds \/ Ended \/ UNCHANGED vars
    BY <1>11 DEF HostEnds, Ended, vars
  <1> QED
    BY <1>1, <1>2, <1>3, <1>4, <1>5, <1>6, <1>7, <1>8, <1>9, <1>10, <1>11 DEF Next

LEMMA BegunHolds ==
    TypeOK /\ LogsInv /\ SealInv /\ BegunInv /\ [Next]_vars => BegunInv'
  <1> SUFFICES ASSUME TypeOK, LogsInv, SealInv, BegunInv, [Next]_vars PROVE BegunInv'
    OBVIOUS
  <1>1. CASE EventStream \in torn \/ stream # <<>>
    <2>1. CASE EventStream \in torn
      BY <2>1, StepAppends DEF BegunInv
    <2>2. CASE stream # <<>> /\ UNCHANGED stream
      BY <2>2 DEF BegunInv
    <2>3. CASE todo # <<>> /\ stream' = Append(stream, Stamped(Head(todo)))
      <3>1. Stamped(Head(todo)) \in Events
        BY <2>3, HeadTailProperties, StampedIsAnEvent DEF LogsInv, TypeOK
      <3>2. stream' \in Seq(Events) /\ Len(stream') = Len(stream) + 1 /\ Len(stream) \in Nat
        BY <2>3, <3>1, AppendProperties, LenProperties DEF LogsInv
      <3>3. stream' # <<>>
        BY <3>2, EmptySeq
      <3> QED
        BY <3>3 DEF BegunInv
    <2> QED
      BY <1>1, <2>1, <2>2, <2>3, StepAppends
  <1>2. CASE ~attached /\ ~sealed /\ pc = "open" /\ todo # <<>>
    <2> USE DEF sessionVars, sealVars
    <2>1. CASE Emit \/ EmitUnsynced
      <3>1. stream' = Append(stream, Stamped(Head(todo)))
        BY <2>1 DEF Emit, EmitUnsynced
      <3>2. Stamped(Head(todo)) \in Events
        BY <1>2, HeadTailProperties, StampedIsAnEvent DEF LogsInv, TypeOK
      <3>3. stream' \in Seq(Events) /\ Len(stream') = Len(stream) + 1 /\ Len(stream) \in Nat
        BY <3>1, <3>2, AppendProperties, LenProperties DEF LogsInv
      <3>4. stream' # <<>>
        BY <3>3, EmptySeq
      <3> QED
        BY <3>4 DEF BegunInv
    <2>2. CASE EmitShort
      BY <2>2 DEF EmitShort, BegunInv
    <2>3. CASE EmitLeak \/ EmitRefused
      BY <1>2, <2>3 DEF EmitLeak, EmitRefused, Raise, BegunInv
    <2>4. CASE \/ Launch \/ CaptureFails \/ Construct \/ Normalized \/ RequestSeal
               \/ SealRefused \/ SealRejected \/ SealAnnounce \/ HashStream \/ Sealed
      BY <1>2, <2>4 DEF Launch, CaptureFails, Construct, Normalized, RequestSeal, SealRefused,
         SealRejected, SealAnnounce, HashStream, Sealed, Idle
    <2>5. CASE \E r \in AdapterResults : ClaimRefused(r) \/ ApplyNormalization(r)
      BY <1>2, <2>5 DEF ClaimRefused, ApplyNormalization, Applying, Idle
    <2>6. CASE RecordArtifact
      BY <1>2, <2>6 DEF RecordArtifact, BegunInv
    <2>7. CASE RecordShort
      BY <1>2, <2>7 DEF RecordShort, BegunInv
    <2>8. CASE RecordRefused \/ RecordUnsynced
      BY <1>2, <2>8 DEF RecordRefused, RecordUnsynced, Raise, BegunInv
    <2>9. CASE \/ \E f \in RawFiles : LeaveFile(f) \/ RemoveFile(f)
               \/ HostEnds \/ Ended \/ UNCHANGED vars
      BY <1>2, <2>9 DEF LeaveFile, RemoveFile, HostEnds, Ended, vars, BegunInv
    <2> QED
      BY <2>1, <2>2, <2>3, <2>4, <2>5, <2>6, <2>7, <2>8, <2>9 DEF Next
  <1>3. CASE ~attached /\ ~sealed /\ pc \in {"lost", "ended"}
    <2> USE DEF sessionVars, sealVars
    <2>1. CASE Emit \/ EmitLeak \/ EmitRefused \/ EmitUnsynced \/ EmitShort
      BY <1>3, <2>1 DEF Emit, EmitLeak, EmitRefused, EmitUnsynced, EmitShort, Raise, BegunInv
    <2>2. CASE \/ Launch \/ CaptureFails \/ Construct \/ Normalized \/ RequestSeal
               \/ SealRefused \/ SealRejected \/ SealAnnounce \/ HashStream \/ Sealed
      BY <1>3, <2>2 DEF Launch, CaptureFails, Construct, Normalized, RequestSeal, SealRefused,
         SealRejected, SealAnnounce, HashStream, Sealed, Idle
    <2>3. CASE \E r \in AdapterResults : ClaimRefused(r) \/ ApplyNormalization(r)
      BY <1>3, <2>3 DEF ClaimRefused, ApplyNormalization, Applying, Idle
    <2>4. CASE RecordArtifact \/ RecordRefused \/ RecordUnsynced \/ RecordShort
      BY <1>3, <2>4 DEF RecordArtifact, RecordRefused, RecordUnsynced, RecordShort, Raise,
         BegunInv
    <2>5. CASE \/ \E f \in RawFiles : LeaveFile(f) \/ RemoveFile(f)
               \/ HostEnds \/ Ended \/ UNCHANGED vars
      BY <1>3, <2>5 DEF LeaveFile, RemoveFile, HostEnds, Ended, vars, BegunInv
    <2> QED
      BY <2>1, <2>2, <2>3, <2>4, <2>5 DEF Next
  <1> QED
    BY <1>1, <1>2, <1>3 DEF BegunInv

\* Moving the head of one sequence to the end of another changes nothing as a whole.
LEMMA MovedHead ==
    ASSUME NEW S, NEW a \in Seq(S), NEW b \in Seq(S), b # <<>>
    PROVE  Append(a, Head(b)) \o Tail(b) = a \o b
  <1> DEFINE m == Len(a)
             n == Len(b)
             T == Tail(b)
             A == Append(a, Head(b))
  <1>1. m \in Nat /\ n \in Nat /\ n > 0
    BY LenProperties, EmptySeq
  <1>2. /\ Head(b) \in S /\ Head(b) = b[1] /\ T \in Seq(S) /\ Len(T) = n - 1
        /\ \A i \in 1 .. (n - 1) : T[i] = b[i + 1]
    <2>1. /\ Head(b) \in S /\ T \in Seq(S) /\ Len(T) = n - 1
          /\ \A i \in 1 .. Len(T) : T[i] = b[i + 1]
      BY HeadTailProperties
    <2>2. Head(b) = b[1]
      OBVIOUS
    <2> QED
      BY <2>1, <2>2
  <1>3. /\ A \in Seq(S) /\ Len(A) = m + 1 /\ A[m + 1] = Head(b)
        /\ \A i \in 1 .. m : A[i] = a[i]
    BY <1>2, AppendProperties
  <1> HIDE DEF T, A
  <1>4. /\ a \o b \in Seq(S) /\ Len(a \o b) = m + n
        /\ \A i \in 1 .. (m + n) : (a \o b)[i] = IF i <= m THEN a[i] ELSE b[i - m]
    BY ConcatProperties
  <1>5. /\ A \o T \in Seq(S) /\ Len(A \o T) = m + n
        /\ \A i \in 1 .. (m + n) :
             (A \o T)[i] = IF i <= m + 1 THEN A[i] ELSE T[i - (m + 1)]
    <2>1. (m + 1) + (n - 1) = m + n
      BY <1>1
    <2>2. /\ A \o T \in Seq(S) /\ Len(A \o T) = Len(A) + Len(T)
          /\ \A i \in 1 .. (Len(A) + Len(T)) :
               (A \o T)[i] = IF i <= Len(A) THEN A[i] ELSE T[i - Len(A)]
      BY <1>2, <1>3, ConcatProperties
    <2> QED
      BY <1>2, <1>3, <2>1, <2>2
  <1> HIDE DEF m, n
  <1>6. ASSUME NEW i \in 1 .. (m + n) PROVE (A \o T)[i] = (a \o b)[i]
    <2>1. CASE i <= m
      <3>1. i \in 1 .. m /\ i <= m + 1
        BY <1>1, <2>1
      <3> QED
        BY <1>3, <1>4, <1>5, <2>1, <3>1
    <2>2. CASE i = m + 1
      <3>1. ~ (i <= m) /\ i <= m + 1 /\ i - m = 1
        BY <1>1, <2>2
      <3> QED
        BY <1>2, <1>3, <1>4, <1>5, <2>2, <3>1
    <2>3. CASE i > m + 1
      <3>1. /\ i - (m + 1) \in 1 .. (n - 1) /\ (i - (m + 1)) + 1 = i - m
            /\ ~ (i <= m + 1) /\ ~ (i <= m)
        BY <1>1, <2>3
      <3> QED
        BY <1>2, <1>4, <1>5, <3>1
    <2>4. i <= m \/ i = m + 1 \/ i > m + 1
      BY <1>1
    <2> QED
      BY <2>1, <2>2, <2>3, <2>4
  <1> QED
    BY <1>4, <1>5, <1>6, SeqEqual DEF T, A

Whole == manifest \o pending

(* A listing of everything the attempt owns and of what it holds, that     *)
(* ends with the event stream as long as it is.                            *)
Covers(log) ==
    /\ log # <<>> /\ log[Len(log)] = StreamRecord
    /\ {log[i].path : i \in DOMAIN log} = Owned
    /\ \A i \in DOMAIN log : log[i].content = ContentOf(log[i].path)

(* What was recorded is the beginning of such a listing, also when the     *)
(* session was tried again after a fault: a seal with a manifest on disk   *)
(* never comes to record anything.                                         *)
RecordInv ==
    "manifest" \notin torn => /\ pc = "record" => Covers(Whole)
                              /\ sealed => Covers(manifest)

(* No file is recorded twice.                                              *)
DistinctInv == \A i, j \in DOMAIN manifest : manifest[i].path = manifest[j].path => i = j

\* What a seal is about to record covers what the attempt owns.
LEMMA SealCovers ==
    ASSUME TypeOK, LogsInv
    PROVE  Covers(Listing \o <<StreamRecord>>)
  <1> DEFINE n == Len(RetainedInOrder)
             log == Listing \o <<StreamRecord>>
  <1>1. /\ n \in Nat
        /\ \A i \in 1 .. n : RetainedInOrder[i] \in retained /\ RetainedInOrder[i] \in Files
        /\ \A f \in retained : \E i \in 1 .. n : RetainedInOrder[i] = f
    <2>1. RetainedInOrder \in Seq(retained) /\ retained \subseteq Files
      BY ListingIsRetained DEF TypeOK, Files
    <2>2. /\ n \in Nat /\ DOMAIN RetainedInOrder = 1 .. n
          /\ \A i \in 1 .. n : RetainedInOrder[i] \in retained
      BY <2>1, LenProperties, ElementOfSeq
    <2>3. \A f \in retained : \E i \in DOMAIN RetainedInOrder : RetainedInOrder[i] = f
      BY <2>1, ListingIsComplete
    <2> HIDE DEF n
    <2> QED
      BY <2>1, <2>2, <2>3
  <1>2. Listing \in Seq(Records) /\ Len(Listing) = n
    <2>1. \A i \in 1 .. n : Record(RetainedInOrder[i], 0, ContentOf(RetainedInOrder[i])) \in Records
      BY <1>1, RecordIsTyped
    <2> QED
      BY <1>1, <2>1, SeqDef, LenProperties DEF Listing
  <1>3. /\ StreamRecord \in Records /\ StreamRecord.path = EventStream
        /\ StreamRecord.content = ContentOf(EventStream)
    <2>1. EventStream \notin RawFiles
      BY SessionAssumption
    <2> QED
      BY <2>1, StreamRecordIsTyped DEF StreamRecord, Record, ContentOf
  <1>4. \A i \in 1 .. n : /\ Listing[i].path = RetainedInOrder[i]
                          /\ Listing[i].content = ContentOf(RetainedInOrder[i])
    BY DEF Record, Listing
  <1> HIDE DEF n
  <1>5. /\ log \in Seq(Records) /\ Len(log) = n + 1
        /\ \A i \in 1 .. n : log[i] = Listing[i]
        /\ log[n + 1] = StreamRecord
    <2>1. /\ <<StreamRecord>> \in Seq(Records) /\ Len(<<StreamRecord>>) = 1
          /\ <<StreamRecord>>[1] = StreamRecord
      BY <1>3
    <2> QED
      BY <1>1, <1>2, <2>1, ConcatProperties
  <1> HIDE DEF log
  <1>6. DOMAIN log = 1 .. (n + 1) /\ log # <<>>
    BY <1>1, <1>5, LenProperties, EmptySeq
  <1>7. ASSUME NEW i \in 1 .. (n + 1)
        PROVE  log[i].path \in Owned /\ log[i].content = ContentOf(log[i].path)
    <2>1. CASE i \in 1 .. n
      BY <1>1, <1>4, <1>5, <2>1 DEF Owned
    <2>2. CASE i = n + 1
      BY <1>3, <1>5, <2>2 DEF Owned
    <2> QED
      BY <1>1, <2>1, <2>2
  <1>8. ASSUME NEW f \in Owned PROVE \E i \in 1 .. (n + 1) : log[i].path = f
    <2>1. CASE f = EventStream
      <3>1. n + 1 \in 1 .. (n + 1)
        BY <1>1
      <3> QED
        BY <1>3, <1>5, <2>1, <3>1
    <2>2. CASE f \in retained
      <3>1. PICK i \in 1 .. n : RetainedInOrder[i] = f
        BY <1>1, <2>2
      <3>2. i \in 1 .. (n + 1)
        BY <1>1
      <3> QED
        BY <1>4, <1>5, <3>1, <3>2
    <2> QED
      BY <2>1, <2>2 DEF Owned
  <1>9. Covers(log)
    BY <1>5, <1>6, <1>7, <1>8 DEF Covers
  <1> QED
    BY <1>9 DEF log

\* A listing stays one as long as nothing it speaks of changes.
LEMMA CoversIsKept ==
    ASSUME NEW log, UNCHANGED <<stream, retained, entries>>, Covers(log)
    PROVE  /\ log # <<>> /\ log[Len(log)] = StreamRecord'
           /\ {log[i].path : i \in DOMAIN log} = Owned'
           /\ \A i \in DOMAIN log : log[i].content = ContentOf(log[i].path)'
  BY DEF Covers, StreamRecord, Owned, ContentOf

LEMMA DistinctHolds == LogsInv /\ DistinctInv /\ [Next]_vars => DistinctInv'
  <1> SUFFICES ASSUME LogsInv, DistinctInv, [Next]_vars PROVE DistinctInv'
    OBVIOUS
  <1>1. CASE UNCHANGED manifest
    BY <1>1 DEF DistinctInv
  <1>2. CASE /\ pending # <<>> /\ Recordable(Head(pending))
             /\ manifest' = Append(manifest, Head(pending))
    <2> DEFINE n == Len(manifest)
    <2>1. Head(pending) \in Records
      BY <1>2, HeadTailProperties DEF LogsInv
    <2>2. n \in Nat /\ DOMAIN manifest = 1 .. n
      BY LenProperties DEF LogsInv
    <2>3. /\ manifest' \in Seq(Records) /\ Len(manifest') = n + 1
          /\ \A i \in 1 .. n : manifest'[i] = manifest[i]
          /\ manifest'[n + 1] = Head(pending)
      BY <1>2, <2>1, <2>2, AppendProperties DEF LogsInv
    <2>4. DOMAIN manifest' = 1 .. (n + 1)
      BY <2>3, LenProperties
    <2>5. \A i \in 1 .. n : manifest[i].path # Head(pending).path
      BY <1>2, <2>2 DEF Recordable
    <2> HIDE DEF n
    <2>6. ASSUME NEW i \in 1 .. (n + 1), NEW j \in 1 .. (n + 1),
                 manifest'[i].path = manifest'[j].path
          PROVE  i = j
      <3>1. (i \in 1 .. n \/ i = n + 1) /\ (j \in 1 .. n \/ j = n + 1)
        BY <2>2
      <3>2. CASE i \in 1 .. n /\ j \in 1 .. n
        <4>1. manifest[i].path = manifest[j].path
          BY <2>3, <2>6, <3>2
        <4> QED
          BY <2>2, <3>2, <4>1 DEF DistinctInv
      <3>3. CASE i \in 1 .. n /\ j = n + 1
        BY <2>3, <2>5, <2>6, <3>3
      <3>4. CASE i = n + 1 /\ j \in 1 .. n
        BY <2>3, <2>5, <2>6, <3>4
      <3> QED
        BY <3>1, <3>2, <3>3, <3>4
    <2> QED
      BY <2>4, <2>6 DEF DistinctInv
  <1> QED
    BY <1>1, <1>2, StepAppends

LEMMA RecordSteps ==
    ASSUME ControlInv, [Next]_vars
    PROVE  \/ HashStream \/ RecordArtifact \/ RecordUnsynced \/ RecordShort \/ Sealed
           \/ UNCHANGED <<manifest, sealed>> /\ pc' # "record"
           \/ UNCHANGED <<manifest, pending, stream, retained, entries, pc, sealed>>
  <1> USE DEF diskVars, sealVars, sessionVars
  <1>1. CASE Emit \/ EmitLeak \/ EmitRefused \/ EmitUnsynced \/ EmitShort
    <2>1. CASE Emit \/ EmitShort
      <3>1. todo # <<>> /\ UNCHANGED <<manifest, sealed, pc>>
        BY <2>1 DEF Emit, EmitShort
      <3>2. pc # "record"
        BY <3>1 DEF ControlInv
      <3> QED
        BY <3>1, <3>2
    <2>2. CASE EmitLeak \/ EmitRefused \/ EmitUnsynced
      BY <2>2 DEF EmitLeak, EmitRefused, EmitUnsynced, Raise
    <2> QED
      BY <1>1, <2>1, <2>2
  <1>2. CASE Launch \/ CaptureFails
    BY <1>2 DEF Launch, CaptureFails, Raise
  <1>3. CASE Construct \/ Normalized
    BY <1>3 DEF Construct, Normalized, Attest
  <1>4. CASE \E r \in AdapterResults : ClaimRefused(r) \/ ApplyNormalization(r)
    BY <1>4 DEF ClaimRefused, ApplyNormalization, Applying, Idle
  <1>5. CASE RequestSeal \/ SealRefused \/ SealRejected \/ SealAnnounce
    BY <1>5 DEF RequestSeal, SealRefused, SealRejected, SealAnnounce, Raise, Idle
  <1>6. CASE RecordRefused
    BY <1>6 DEF RecordRefused, Raise
  <1>7. CASE \E f \in RawFiles : LeaveFile(f) \/ RemoveFile(f)
    BY <1>7 DEF LeaveFile, RemoveFile, Idle
  <1>8. CASE HostEnds \/ Ended \/ UNCHANGED vars
    BY <1>8 DEF HostEnds, Ended, vars
  <1> QED
    BY <1>1, <1>2, <1>3, <1>4, <1>5, <1>6, <1>7, <1>8 DEF Next

LEMMA RecordHolds ==
    TypeOK /\ LogsInv /\ ControlInv /\ SealInv /\ CreatedInv /\ RecordInv /\ [Next]_vars
      => RecordInv'
  <1> SUFFICES ASSUME TypeOK, LogsInv, ControlInv, SealInv, CreatedInv, RecordInv,
                      [Next]_vars, "manifest" \notin torn'
               PROVE  (pc' = "record" => Covers(Whole)') /\ (sealed' => Covers(manifest)')
    BY DEF RecordInv
  <1>0. "manifest" \notin torn
    BY StepAppends
  <1>1. CASE sealed
    <2>1. UNCHANGED <<diskVars, retained, sealVars>> /\ pc' # "record"
      BY <1>1, SealedSteps DEF SealInv
    <2>2. UNCHANGED <<manifest, stream, retained, entries>>
      BY <2>1 DEF diskVars
    <2>3. Covers(manifest)'
      BY <1>0, <1>1, <2>2, CoversIsKept DEF RecordInv, Covers
    <2> QED
      BY <2>1, <2>3
  <1>2. CASE ~sealed /\ HashStream
    <2> DEFINE log == Listing \o <<StreamRecord>>
    <2>1. /\ pc = "hash" /\ pending' = log /\ sealed' = sealed
          /\ UNCHANGED <<manifest, stream, retained, entries>>
      BY <1>2 DEF HashStream, Listing, diskVars, sealVars, sessionVars
    <2>2. Covers(log) /\ log \in Seq(Records)
      BY SealCovers, SealingLogs
    <2> HIDE DEF log
    <2>3. manifest = <<>>
      BY <2>1 DEF CreatedInv
    <2>4. Whole' = log
      BY <2>1, <2>2, <2>3, ConcatEmptySeq DEF Whole
    <2>5. Covers(Whole)'
      BY <2>1, <2>2, <2>4, CoversIsKept DEF Covers
    <2> QED
      BY <1>2, <2>1, <2>5
  <1>3. CASE ~sealed /\ (RecordArtifact \/ RecordUnsynced)
    <2>1. CASE RecordArtifact
      <3>1. /\ pending # <<>> /\ pc = "record" /\ sealed' = sealed
            /\ manifest' = Append(manifest, Head(pending)) /\ pending' = Tail(pending)
            /\ UNCHANGED <<stream, retained, entries>>
        BY <2>1 DEF RecordArtifact, ControlInv, sealVars, sessionVars
      <3>2. Whole' = Whole /\ Covers(Whole)
        BY <1>0, <3>1, MovedHead DEF Whole, LogsInv, RecordInv
      <3>3. Covers(Whole)'
        BY <3>1, <3>2, CoversIsKept DEF Covers
      <3> QED
        BY <1>3, <3>1, <3>3
    <2>2. CASE RecordUnsynced
      <3>1. pc' # "record" /\ sealed' = sealed
        BY <2>2 DEF RecordUnsynced, Raise, sealVars
      <3> QED
        BY <1>3, <3>1
    <2> QED
      BY <1>3, <2>1, <2>2
  <1>4. CASE ~sealed /\ Sealed
    <2>1. /\ pc = "record" /\ pending = <<>> /\ pc' # "record"
          /\ UNCHANGED <<manifest, stream, retained, entries>>
      BY <1>4 DEF Sealed, diskVars, sessionVars
    <2>2. Covers(Whole) /\ Whole = manifest
      BY <1>0, <2>1, ConcatEmptySeq DEF RecordInv, Whole, LogsInv
    <2>3. Covers(manifest)'
      BY <2>1, <2>2, CoversIsKept DEF Covers
    <2> QED
      BY <2>1, <2>3
  <1>5. CASE RecordShort
    BY <1>5 DEF RecordShort
  <1>6. CASE ~sealed /\ UNCHANGED <<manifest, sealed>> /\ pc' # "record"
    BY <1>6
  <1>7. CASE ~sealed /\ UNCHANGED <<manifest, pending, stream, retained, entries, pc, sealed>>
    <2>1. Whole' = Whole
      BY <1>7 DEF Whole
    <2>2. Covers(Whole) => Covers(Whole)'
      BY <1>7, <2>1, CoversIsKept DEF Covers
    <2> QED
      BY <1>0, <1>7, <2>2 DEF RecordInv
  <1> QED
    BY <1>1, <1>2, <1>3, <1>4, <1>5, <1>6, <1>7, RecordSteps

SealLeaves == ReadyInv /\ BegunInv /\ CreatedInv /\ RecordInv /\ DistinctInv

LEMMA SealLeavesIsKept == Spec => []SealLeaves
  <1>1. Init => SealLeaves
    <2> SUFFICES ASSUME Init PROVE SealLeaves
      OBVIOUS
    <2>1. /\ manifest = <<>> /\ pc = "open" /\ retained = CoreFiles
          /\ todo = <<Event("run_started"), Event("preflight_completed")>>
      BY DEF Init
    <2>6. ~sealed /\ ~attached /\ torn = {}
      BY Zenon DEF Init
    <2>2. DOMAIN manifest = 1 .. 0 /\ todo # <<>>
      <3>1. Len(todo) = 2
        BY <2>1
      <3> QED
        BY <2>1, <3>1, EmptySeq, LenProperties
    <2>3. ReadyInv
      BY <2>1, <2>6 DEF ReadyInv, Closing
    <2>4. BegunInv
      BY <2>1, <2>2, <2>6 DEF BegunInv
    <2>5. CreatedInv /\ RecordInv /\ DistinctInv
      BY <2>1, <2>2, <2>6 DEF CreatedInv, RecordInv, DistinctInv
    <2> QED
      BY <2>3, <2>4, <2>5 DEF SealLeaves
  <1>2. TypeOK /\ LogsInv /\ ControlInv /\ SealInv /\ SealLeaves /\ [Next]_vars
          => SealLeaves'
    BY ReadyHolds, BegunHolds, CreatedHolds, RecordHolds, DistinctHolds DEF SealLeaves
  <1> QED
    BY <1>1, <1>2, LogsAreTyped, ControlIsKept, PTL DEF Spec

\* What is on disk when a session is closed is what it owns.
LEMMA SealedOwnsAll ==
    ASSUME TypeOK, RetainedInv, ReadyInv, BegunInv, sealed
    PROVE  FilesOnDisk = Owned
  <1>1. stream # <<>> \/ EventStream \in torn
    BY DEF BegunInv
  <1>2. ASSUME NEW f \in RawFiles PROVE (entries[f] # "absent") <=> (f \in retained)
    <2>1. IF f \in retained THEN entries[f] \in Retainable ELSE entries[f] = "absent"
      BY DEF RetainedInv, Closing, Settled
    <2> QED
      BY <2>1, SessionAssumption
  <1>3. retained = CoreFiles \cup {f \in RawFiles : entries[f] # "absent"}
    BY <1>2 DEF ReadyInv, TypeOK
  <1> QED
    BY <1>1, <1>3 DEF FilesOnDisk, Owned

\* A listing pairs every owned file with what it holds.
LEMMA CoversPairs ==
    ASSUME NEW log, Covers(log)
    PROVE  {<<log[i].path, log[i].content>> : i \in DOMAIN log} = {<<f, ContentOf(f)>> : f \in Owned}
  <1>1. \A i \in DOMAIN log : log[i].path \in Owned /\ log[i].content = ContentOf(log[i].path)
    BY DEF Covers
  <1>2. \A f \in Owned : \E i \in DOMAIN log : log[i].path = f /\ log[i].content = ContentOf(f)
    BY DEF Covers
  <1>3. ASSUME NEW i \in DOMAIN log
        PROVE  <<log[i].path, log[i].content>> \in {<<f, ContentOf(f)>> : f \in Owned}
    <2>1. <<log[i].path, log[i].content>> = <<log[i].path, ContentOf(log[i].path)>>
      BY <1>1
    <2> QED
      BY <1>1, <2>1, Zenon
  <1>4. ASSUME NEW f \in Owned
        PROVE  <<f, ContentOf(f)>> \in {<<log[i].path, log[i].content>> : i \in DOMAIN log}
    <2>1. PICK i \in DOMAIN log : log[i].path = f /\ log[i].content = ContentOf(f)
      BY <1>2
    <2> QED
      BY <2>1, Zenon
  <1> QED
    BY <1>3, <1>4, Zenon

\* Whatever the disk does, whoever tries again and whatever is replaced or removed
\* between two calls, an attempt sealed without a broken line has a record for
\* exactly the files on disk and of what they hold, and the last is of the event
\* stream as long as it is.
THEOREM SealsAreComplete == Spec => []SealedIsRecorded
  <1>1. TypeOK /\ LogsInv /\ RetainedInv /\ SealLeaves => SealedIsRecorded
    <2> SUFFICES ASSUME TypeOK, LogsInv, RetainedInv, SealLeaves, sealed, torn = {}
                 PROVE  /\ {<<manifest[i].path, manifest[i].content>> : i \in DOMAIN manifest}
                             = {<<f, ContentOf(f)>> : f \in FilesOnDisk}
                        /\ manifest[Len(manifest)] = Record(EventStream, Len(stream), "events")
      BY DEF SealedIsRecorded
    <2>1. Covers(manifest)
      BY DEF SealLeaves, RecordInv
    <2>2. FilesOnDisk = Owned
      BY SealedOwnsAll DEF SealLeaves
    <2>3. {<<manifest[i].path, manifest[i].content>> : i \in DOMAIN manifest}
            = {<<f, ContentOf(f)>> : f \in FilesOnDisk}
      BY <2>1, <2>2, CoversPairs, Zenon
    <2> QED
      BY <2>1, <2>3 DEF Covers, StreamRecord
  <1> QED
    BY <1>1, LogsAreTyped, SealLeavesIsKept, RetainedIsKept, PTL

-----------------------------------------------------------------------------
(* A disk that does not fail.                                              *)

(* Nothing is lost: the stream counts its events, and while a seal records *)
(* the listing, what is recorded and what is still to be recorded are      *)
(* together that listing.                                                  *)
CountInv ==
    /\ torn = {} /\ sequence = Len(stream)
    /\ \A i \in DOMAIN stream : stream[i].seq = i

IsListing(log) ==
    /\ log # <<>> /\ log[Len(log)].path = EventStream
    /\ \A i, j \in DOMAIN log : log[i].path = log[j].path => i = j
    /\ \A i \in DOMAIN log :
         /\ log[i].size <= Len(stream)
         /\ log[i].path = EventStream => log[i].size = Len(stream)

ListingInv ==
    /\ pc = "record" => IsListing(Whole)
    /\ pc \notin {"record", "ended"} /\ ~sealed => manifest = <<>>
    /\ pc = "ended" => todo = <<>> /\ pending = <<>>

LEMMA SealListing ==
    ASSUME TypeOK, LogsInv
    PROVE  IsListing(Listing \o <<StreamRecord>>)
  <1> DEFINE n == Len(RetainedInOrder)
             log == Listing \o <<StreamRecord>>
  <1>1. /\ n \in Nat /\ DOMAIN RetainedInOrder = 1 .. n
        /\ \A i \in 1 .. n : RetainedInOrder[i] \in Files
    <2>1. RetainedInOrder \in Seq(retained) /\ retained \subseteq Files
      BY ListingIsRetained DEF TypeOK, Files
    <2> QED
      BY <2>1, LenProperties, ElementOfSeq
  <1>2. Listing \in Seq(Records) /\ Len(Listing) = n
    <2>1. \A i \in 1 .. n : Record(RetainedInOrder[i], 0, ContentOf(RetainedInOrder[i])) \in Records
      BY <1>1, RecordIsTyped
    <2> QED
      BY <1>1, <2>1, SeqDef, LenProperties DEF Listing
  <1>3. StreamRecord \in Records /\ Len(stream) \in Nat
    BY LenProperties, StreamRecordIsTyped DEF LogsInv
  <1>4. \A i \in 1 .. n : Listing[i].path = RetainedInOrder[i] /\ Listing[i].size = 0
    BY DEF Record, Listing
  <1>5. StreamRecord.path = EventStream /\ StreamRecord.size = Len(stream)
    BY DEF StreamRecord, Record
  <1> HIDE DEF n
  <1>6. /\ log \in Seq(Records) /\ Len(log) = n + 1
        /\ \A i \in 1 .. n : log[i] = Listing[i]
        /\ log[n + 1] = StreamRecord
    <2>1. /\ <<StreamRecord>> \in Seq(Records) /\ Len(<<StreamRecord>>) = 1
          /\ <<StreamRecord>>[1] = StreamRecord
      BY <1>3
    <2> QED
      BY <1>1, <1>2, <2>1, ConcatProperties
  <1> HIDE DEF log
  <1>7. DOMAIN log = 1 .. (n + 1) /\ log # <<>>
    BY <1>1, <1>6, LenProperties, EmptySeq
  <1>8. ASSUME NEW i \in 1 .. (n + 1), NEW j \in 1 .. (n + 1), log[i].path = log[j].path
        PROVE  i = j
    <2>1. (i \in 1 .. n \/ i = n + 1) /\ (j \in 1 .. n \/ j = n + 1)
      BY <1>1
    <2>2. \A k \in 1 .. n : log[k].path = RetainedInOrder[k] /\ log[k].path # EventStream
      BY <1>1, <1>4, <1>6, CoreFilesAre
    <2> QED
      BY <1>1, <1>5, <1>6, <1>8, <2>1, <2>2, ListingIsDistinct DEF OncePerIndex
  <1>9. ASSUME NEW i \in 1 .. (n + 1)
        PROVE  /\ log[i].size <= Len(stream)
               /\ log[i].path = EventStream => log[i].size = Len(stream)
    <2>1. CASE i = n + 1
      BY <1>3, <1>5, <1>6, <2>1
    <2>2. CASE i \in 1 .. n
      BY <1>1, <1>3, <1>4, <1>6, <2>2, CoreFilesAre
    <2> QED
      BY <1>1, <2>1, <2>2
  <1>10. log[Len(log)].path = EventStream
    BY <1>5, <1>6
  <1>11. IsListing(log)
    BY <1>7, <1>8, <1>9, <1>10 DEF IsListing
  <1> QED
    BY <1>11 DEF log

\* The next record is not yet in the manifest, and recording it leaves the whole as it is.
LEMMA NextRecord ==
    ASSUME LogsInv, IsListing(Whole), pending # <<>>
    PROVE  /\ \A i \in DOMAIN manifest : /\ manifest[i].path # Head(pending).path
                                         /\ manifest[i].path # EventStream
           /\ Head(pending) \in Records /\ Head(pending).size <= Len(stream)
           /\ Head(pending).path = EventStream => Head(pending).size = Len(stream)
           /\ Append(manifest, Head(pending)) \o Tail(pending) = Whole
  <1> DEFINE m == Len(manifest)
             n == Len(pending)
  <1>1. /\ m \in Nat /\ DOMAIN manifest = 1 .. m /\ n \in Nat /\ n > 0
        /\ Head(pending) \in Records /\ Head(pending) = pending[1]
        /\ Tail(pending) \in Seq(Records) /\ Len(Tail(pending)) = n - 1
        /\ \A i \in 1 .. (n - 1) : Tail(pending)[i] = pending[i + 1]
    <2>1. pending \in Seq(Records) /\ manifest \in Seq(Records)
      BY DEF LogsInv
    <2>2. m \in Nat /\ DOMAIN manifest = 1 .. m /\ n \in Nat \ {0}
      BY <2>1, LenProperties, EmptySeq
    <2>3. /\ Head(pending) \in Records /\ Tail(pending) \in Seq(Records)
          /\ Len(Tail(pending)) = n - 1
          /\ \A i \in 1 .. Len(Tail(pending)) : Tail(pending)[i] = pending[i + 1]
      BY <2>1, HeadTailProperties
    <2>4. Head(pending) = pending[1]
      OBVIOUS
    <2> QED
      BY <2>2, <2>3, <2>4
  <1>2. /\ Whole \in Seq(Records) /\ Len(Whole) = m + n /\ DOMAIN Whole = 1 .. (m + n)
        /\ \A i \in 1 .. (m + n) : Whole[i] = IF i <= m THEN manifest[i] ELSE pending[i - m]
    <2>1. /\ Whole \in Seq(Records) /\ Len(Whole) = m + n
          /\ \A i \in 1 .. (m + n) : Whole[i] = IF i <= m THEN manifest[i] ELSE pending[i - m]
      BY ConcatProperties DEF Whole, LogsInv
    <2> QED
      BY <2>1, LenProperties
  <1> HIDE DEF m, n
  <1>3. m + 1 \in DOMAIN Whole /\ Whole[m + 1] = Head(pending) /\ m + n \in DOMAIN Whole
    <2>1. m + 1 \in 1 .. (m + n) /\ ~ (m + 1 <= m) /\ (m + 1) - m = 1 /\ m + n \in 1 .. (m + n)
      BY <1>1
    <2> QED
      BY <1>1, <1>2, <2>1
  <1>4. ASSUME NEW i \in DOMAIN manifest
        PROVE  manifest[i].path # Head(pending).path /\ manifest[i].path # EventStream
    <2>1. i \in 1 .. (m + n) /\ i <= m /\ i # m + 1 /\ i # m + n
      BY <1>1
    <2>2. Whole[i] = manifest[i] /\ i \in DOMAIN Whole
      BY <1>2, <2>1
    <2> QED
      BY <1>2, <1>3, <2>1, <2>2 DEF IsListing
  <1>5. /\ Head(pending).size <= Len(stream)
        /\ Head(pending).path = EventStream => Head(pending).size = Len(stream)
    BY <1>3 DEF IsListing
  <1>6. Append(manifest, Head(pending)) \o Tail(pending) = Whole
    BY MovedHead DEF Whole, LogsInv
  <1> QED
    BY <1>1, <1>4, <1>5, <1>6

-----------------------------------------------------------------------------
(* The steps of an attempt on such a disk.                                 *)

LEMMA NoFaults ==
    ASSUME Faults = {}
    PROVE  /\ ~EmitUnsynced /\ ~EmitShort /\ ~RecordUnsynced /\ ~RecordShort
           /\ RecordRefused => ~Recordable(Head(pending))
  BY DEF EmitUnsynced, EmitShort, RecordUnsynced, RecordShort, RecordRefused, Fault

\* Only Emit, RecordArtifact, HashStream and Sealed do something to the ledger; a call
\* that fails, and the end of the host, drop what was still to be done.
LEMMA LedgerSteps ==
    ASSUME Faults = {}, [Next]_vars
    PROVE  \/ Emit \/ RecordArtifact \/ HashStream \/ Sealed
           \/ /\ UNCHANGED <<stream, manifest, torn, sequence, sealed>>
              /\ \/ pc # "record" /\ pc' \notin {"record", "ended"} /\ UNCHANGED pending
                    /\ (pc = "ended" => todo = <<>> /\ pc' = pc /\ UNCHANGED todo)
                 \/ UNCHANGED <<pc, todo, pending>>
                 \/ pc' \in {"idle", "lost"} /\ todo # <<>>
                 \/ pc' \in {"idle", "lost"} /\ pc = "seal"
                 \/ RecordRefused
                 \/ pc' = "ended" /\ todo' = <<>> /\ pending' = <<>>
  <1> USE DEF diskVars, sessionVars, sealVars
  <1>1. CASE Emit \/ EmitLeak \/ EmitRefused \/ EmitUnsynced \/ EmitShort
    BY <1>1, NoFaults DEF EmitLeak, EmitRefused, Raise
  <1>2. CASE Launch
    BY <1>2 DEF Launch
  <1>3. CASE CaptureFails
    BY <1>3 DEF CaptureFails, Raise
  <1>4. CASE Construct \/ Normalized
    <2>1. /\ pc' \in {"seal", "idle"} /\ UNCHANGED pending /\ pc \in {"construct", "attest"}
          /\ UNCHANGED <<stream, manifest, torn, sequence, sealed>>
      BY <1>4 DEF Construct, Normalized, Attest
    <2> QED
      BY <2>1
  <1>5. CASE \E r \in AdapterResults : ClaimRefused(r) \/ ApplyNormalization(r)
    BY <1>5 DEF ClaimRefused, ApplyNormalization, Applying, Idle
  <1>6. CASE RequestSeal \/ SealAnnounce
    BY <1>6 DEF RequestSeal, SealAnnounce, Idle
  <1>7. CASE SealRefused \/ SealRejected
    BY <1>7 DEF SealRefused, SealRejected, Raise
  <1>8. CASE RecordRefused
    BY <1>8 DEF RecordRefused
  <1>9. CASE \E f \in RawFiles : LeaveFile(f) \/ RemoveFile(f)
    BY <1>9 DEF LeaveFile, RemoveFile
  <1>10. CASE HostEnds \/ Ended \/ UNCHANGED vars
    BY <1>10 DEF HostEnds, Ended, vars
  <1> QED
    BY <1>1, <1>2, <1>3, <1>4, <1>5, <1>6, <1>7, <1>8, <1>9, <1>10, NoFaults DEF Next

LEMMA CountHolds ==
    ASSUME Faults = {}, LogsInv, CountInv, [Next]_vars
    PROVE  CountInv'
  <1>1. CASE Emit
    <2> DEFINE e == Stamped(Head(todo))
               n == Len(stream)
    <2>1. e \in Events /\ e.seq = n + 1
      <3>1. Head(todo) \in Events /\ sequence \in Nat
        BY <1>1, HeadTailProperties, LenProperties DEF LogsInv, Emit, CountInv
      <3> QED
        BY <3>1, StampedIsAnEvent DEF CountInv
    <2>2. n \in Nat /\ DOMAIN stream = 1 .. n
      BY LenProperties DEF LogsInv
    <2> HIDE DEF e
    <2>3. stream' = Append(stream, e) /\ sequence' = sequence + 1 /\ torn' = torn
      BY <1>1 DEF Emit, e
    <2>4. /\ stream' \in Seq(Events) /\ Len(stream') = n + 1
          /\ \A i \in 1 .. n : stream'[i] = stream[i]
          /\ stream'[n + 1] = e
      BY <2>1, <2>2, <2>3, AppendProperties DEF LogsInv
    <2>5. DOMAIN stream' = 1 .. (n + 1)
      BY <2>4, LenProperties
    <2>6. ASSUME NEW i \in DOMAIN stream' PROVE stream'[i].seq = i
      <3>1. i \in 1 .. n \/ i = n + 1
        BY <2>2, <2>5
      <3> QED
        BY <2>1, <2>2, <2>4, <3>1 DEF CountInv
    <2> QED
      BY <2>3, <2>4, <2>6 DEF CountInv
  <1>2. CASE UNCHANGED <<stream, torn, sequence>>
    BY <1>2 DEF CountInv
  <1>3. CASE RecordArtifact \/ HashStream \/ Sealed
    BY <1>2, <1>3 DEF RecordArtifact, HashStream, Sealed, diskVars, sessionVars
  <1> QED
    BY <1>1, <1>2, <1>3, LedgerSteps

LEMMA WholeIsKept ==
    UNCHANGED stream /\ Whole' = Whole /\ IsListing(Whole) => IsListing(Whole)'
  BY DEF IsListing

LEMMA ListingHolds ==
    ASSUME Faults = {}, TypeOK, LogsInv, CountInv, ControlInv, SealInv, ListingInv, [Next]_vars
    PROVE  ListingInv'
  <1>1. CASE Emit
    <2>1. pc # "record" /\ pc # "ended" /\ ~sealed
      BY <1>1 DEF Emit, ControlInv, SealInv, ListingInv
    <2> QED
      BY <1>1, <2>1 DEF Emit, ListingInv, sealVars
  <1>2. CASE RecordArtifact
    <2>1. /\ pending # <<>> /\ pc = "record" /\ UNCHANGED <<pc, stream>>
          /\ manifest' = Append(manifest, Head(pending)) /\ pending' = Tail(pending)
      BY <1>2 DEF RecordArtifact, ControlInv
    <2>2. Whole' = Whole /\ IsListing(Whole)
      BY <2>1, NextRecord DEF Whole, ListingInv
    <2>3. IsListing(Whole)'
      BY <2>1, <2>2, WholeIsKept
    <2> QED
      BY <2>1, <2>3 DEF ListingInv
  <1>3. CASE HashStream
    <2> DEFINE log == Listing \o <<StreamRecord>>
    <2>1. /\ pc = "hash" /\ pc' = "record" /\ pending' = log
          /\ manifest' = manifest /\ stream' = stream
      BY <1>3 DEF HashStream, Listing, diskVars
    <2>2. IsListing(log) /\ log \in Seq(Records)
      BY SealListing, SealingLogs
    <2> HIDE DEF log
    <2>3. manifest = <<>>
      BY <2>1 DEF ListingInv, SealInv
    <2>4. Whole' = log
      BY <2>1, <2>2, <2>3, ConcatEmptySeq DEF Whole
    <2>5. IsListing(Whole)'
      BY <2>1, <2>2, <2>4 DEF IsListing
    <2> QED
      BY <2>1, <2>5 DEF ListingInv
  <1>4. CASE Sealed
    BY <1>4 DEF Sealed, ListingInv
  <1>5. CASE RecordRefused
    <2>1. pending # <<>> /\ ~Recordable(Head(pending)) /\ pc = "record"
      BY <1>5, NoFaults DEF RecordRefused, ControlInv
    <2>2. Recordable(Head(pending))
      BY <2>1, NextRecord DEF Recordable, ListingInv, CountInv
    <2> QED
      BY <2>1, <2>2
  <1>6. ASSUME UNCHANGED <<stream, manifest, sealed>>,
               pc # "record" /\ pc' \notin {"record", "ended"}, pc # "ended"
        PROVE  ListingInv'
    BY <1>6 DEF ListingInv
  <1>7. ASSUME UNCHANGED <<stream, manifest, sealed, pc, todo, pending>>
        PROVE  ListingInv'
    <2>1. Whole' = Whole
      BY <1>7 DEF Whole
    <2> QED
      BY <1>7, <2>1, WholeIsKept DEF ListingInv
  <1>8. ASSUME UNCHANGED <<stream, manifest, sealed>>, pc' = "ended", todo' = <<>>, pending' = <<>>
        PROVE  ListingInv'
    BY <1>8 DEF ListingInv
  <1>9. todo # <<>> => pc # "record" /\ pc # "ended"
    BY DEF ControlInv, ListingInv
  <1> QED
    BY <1>1, <1>2, <1>3, <1>4, <1>5, <1>6, <1>7, <1>8, <1>9, LedgerSteps

-----------------------------------------------------------------------------
(* The refinement.                                                         *)

LEMMA EventStep ==
    ASSUME LogsInv, CountInv, Emit, Len(stream') = Len(stream) + 1, CountInv'
    PROVE  [i \in DOMAIN stream' |-> stream'[i].seq]
             = Append([i \in DOMAIN stream |-> stream[i].seq],
                      Len([i \in DOMAIN stream |-> stream[i].seq]) + 1)
  <1> DEFINE n == Len(stream)
             A == [i \in DOMAIN stream |-> stream[i].seq]
             B == [i \in DOMAIN stream' |-> stream'[i].seq]
  <1>1. n \in Nat /\ DOMAIN stream = 1 .. n
    BY LenProperties DEF LogsInv
  <1>2. DOMAIN stream' = 1 .. (n + 1)
    <2>1. stream' \in Seq(Events)
      <3>1. Stamped(Head(todo)) \in Events
        BY HeadTailProperties, LenProperties, StampedIsAnEvent DEF Emit, LogsInv, CountInv
      <3> QED
        BY <3>1, AppendProperties DEF Emit, LogsInv
    <2> QED
      BY <2>1, LenProperties
  <1>3. A = [i \in 1 .. n |-> i] /\ B = [i \in 1 .. (n + 1) |-> i]
    BY <1>1, <1>2 DEF CountInv
  <1> HIDE DEF A, B, n
  <1>4. A \in Seq(Nat) /\ Len(A) = n /\ B \in Seq(Nat) /\ Len(B) = n + 1
    <2>1. /\ \A i \in 1 .. n : i \in Nat
          /\ \A i \in 1 .. (n + 1) : i \in Nat
          /\ n + 1 \in Nat
      BY <1>1
    <2> QED
      BY <1>1, <1>3, <2>1, SeqDef, LenProperties
  <1>5. /\ Append(A, n + 1) \in Seq(Nat) /\ Len(Append(A, n + 1)) = n + 1
        /\ \A i \in 1 .. n : Append(A, n + 1)[i] = A[i]
        /\ Append(A, n + 1)[n + 1] = n + 1
    BY <1>1, <1>4, AppendProperties
  <1>6. ASSUME NEW i \in 1 .. (n + 1) PROVE B[i] = Append(A, n + 1)[i]
    <2>1. i \in 1 .. n \/ i = n + 1
      BY <1>1
    <2> QED
      BY <1>3, <1>5, <2>1
  <1>7. B = Append(A, Len(A) + 1)
    BY <1>4, <1>5, <1>6, SeqEqual
  <1> QED
    BY <1>7 DEF A, B

LedgerEvents == [i \in DOMAIN stream |-> stream[i].seq]
LedgerPhase == IF sealed THEN "sealed" ELSE IF manifest = <<>> THEN "events" ELSE "records"

LEMMA StepsOfTheLedger ==
    ASSUME Faults = {}, TypeOK, LogsInv, RetainedInv, CountInv, CountInv', ControlInv, SealInv,
           ListingInv, [Next]_vars
    PROVE  [Ledger!LedgerNext]_(Ledger!ledgerVars)
  <1>1. CASE Emit
    <2>1. todo # <<>> /\ UNCHANGED <<manifest, sealed>>
      BY <1>1 DEF Emit, sealVars
    <2>2. manifest = <<>> /\ ~sealed
      BY <2>1 DEF ControlInv, SealInv, ListingInv
    <2>3. Len(stream') = Len(stream) + 1
      <3>1. Stamped(Head(todo)) \in Events
        BY <2>1, HeadTailProperties, StampedIsAnEvent DEF LogsInv, TypeOK
      <3> QED
        BY <1>1, <3>1, AppendProperties DEF Emit, LogsInv
    <2>4. LedgerEvents' = Append(LedgerEvents, Len(LedgerEvents) + 1)
      BY <1>1, <2>3, EventStep DEF LedgerEvents
    <2>5. LedgerPhase = "events" /\ LedgerPhase' = LedgerPhase
      BY <2>1, <2>2 DEF LedgerPhase
    <2>6. Ledger!WriteEvent
      BY <2>1, <2>4, <2>5 DEF Ledger!WriteEvent, LedgerEvents, LedgerPhase
    <2> QED
      BY <2>6 DEF Ledger!LedgerNext
  <1>2. CASE RecordArtifact
    <2> DEFINE r == Head(pending)
    <2>1. /\ pending # <<>> /\ pc = "record" /\ manifest' = Append(manifest, r)
          /\ UNCHANGED <<stream, sealed>> /\ ~sealed
      BY <1>2 DEF RecordArtifact, ControlInv, SealInv, sealVars
    <2>2. /\ \A i \in DOMAIN manifest : manifest[i].path # r.path /\ manifest[i].path # EventStream
          /\ r \in Records /\ r.size <= Len(stream)
          /\ r.path = EventStream => r.size = Len(stream)
      BY <2>1, NextRecord DEF ListingInv
    <2> HIDE DEF r
    <2>3. Len(LedgerEvents) = Len(stream) /\ Len(stream) \in Nat
      <3>1. Len(stream) \in Nat /\ DOMAIN stream = 1 .. Len(stream)
        BY LenProperties DEF LogsInv
      <3> QED
        BY <3>1 DEF LedgerEvents
    <2>4. /\ r = [path |-> r.path, size |-> r.size, content |-> r.content]
          /\ r.size \in 0 .. Len(LedgerEvents)
          /\ r.path \in CoreFiles \cup RawFiles \cup {EventStream}
      BY <2>2, <2>3 DEF Records, Files
    <2>10. r.content \in Retainable \cup {"written", "events"}
      <3>1. Recorded(r, retained)
        <4>1. 1 \in DOMAIN pending /\ r = pending[1]
          BY <2>1, EmptySeq, LenProperties DEF LogsInv, r
        <4> QED
          BY <4>1 DEF RetainedInv
      <3> QED
        BY <3>1 DEF Recorded
    <2>5. LedgerPhase \in {"events", "records"}
      BY <2>1 DEF LedgerPhase
    <2>6. LedgerPhase' = "records"
      <3>1. manifest' # <<>>
        <4>1. Len(manifest') = Len(manifest) + 1 /\ Len(manifest) \in Nat
          BY <2>1, <2>2, AppendProperties, LenProperties DEF LogsInv
        <4> QED
          BY <4>1, EmptySeq
      <3> QED
        BY <2>1, <3>1 DEF LedgerPhase
    <2>7. LedgerEvents' = LedgerEvents
      BY <2>1 DEF LedgerEvents
    <2>8. \E path \in CoreFiles \cup RawFiles \cup {EventStream}, size \in 0 .. Len(LedgerEvents),
             content \in Retainable \cup {"written", "events"} :
            /\ \A i \in DOMAIN manifest : manifest[i].path # path
            /\ path = EventStream => size = Len(LedgerEvents)
            /\ manifest' = Append(manifest, [path |-> path, size |-> size, content |-> content])
      <3>1. /\ \A i \in DOMAIN manifest : manifest[i].path # r.path
            /\ r.path = EventStream => r.size = Len(LedgerEvents)
            /\ manifest' = Append(manifest, [path |-> r.path, size |-> r.size,
                                              content |-> r.content])
        BY <2>1, <2>2, <2>3, <2>4
      <3> QED
        BY <2>4, <2>10, <3>1
    <2>9. Ledger!WriteRecord
      BY <2>2, <2>5, <2>6, <2>7, <2>8 DEF Ledger!WriteRecord, LedgerEvents, LedgerPhase
    <2> QED
      BY <2>9 DEF Ledger!LedgerNext
  <1>3. CASE Sealed
    <2>1. /\ pc = "record" /\ pending = <<>> /\ sealed'
          /\ UNCHANGED <<stream, manifest>> /\ IsListing(Whole)
      BY <1>3 DEF Sealed, ListingInv, diskVars
    <2>2. ~sealed
      BY <2>1 DEF SealInv
    <2>3. Whole = manifest
      BY <2>1, ConcatEmptySeq DEF Whole, LogsInv
    <2>4. manifest # <<>> /\ manifest[Len(manifest)].path = EventStream
      BY <2>1, <2>3 DEF IsListing
    <2>5. LedgerPhase = "records" /\ LedgerPhase' = "sealed" /\ LedgerEvents' = LedgerEvents
      BY <2>1, <2>2, <2>4 DEF LedgerPhase, LedgerEvents
    <2>6. Ledger!Seal
      BY <2>1, <2>4, <2>5 DEF Ledger!Seal, LedgerPhase, LedgerEvents
    <2> QED
      BY <2>6 DEF Ledger!LedgerNext
  <1>4. CASE UNCHANGED <<stream, manifest, sealed>>
    BY <1>4 DEF Ledger!ledgerVars
  <1>5. CASE HashStream
    BY <1>4, <1>5 DEF HashStream, diskVars, sealVars
  <1>6. CASE RecordRefused
    BY <1>4, <1>6 DEF RecordRefused, diskVars, sealVars
  <1> QED
    BY <1>1, <1>2, <1>3, <1>4, <1>5, <1>6, LedgerSteps

LEMMA LedgerIsKept ==
    ASSUME Faults = {}
    PROVE  Spec => [](TypeOK /\ LogsInv /\ ControlInv /\ SealInv /\ CountInv /\ ListingInv)
  <1>1. Init => CountInv /\ ListingInv
    <2> SUFFICES ASSUME Init PROVE CountInv /\ ListingInv
      OBVIOUS
    <2>1. stream = <<>> /\ manifest = <<>> /\ torn = {} /\ sequence = 0 /\ pc = "open"
      BY DEF Init
    <2>2. Len(stream) = 0 /\ DOMAIN stream = 1 .. 0
      BY <2>1, EmptySeq, LenProperties
    <2> QED
      BY <2>1, <2>2 DEF CountInv, ListingInv
  <1>2. LogsInv /\ CountInv /\ [Next]_vars => CountInv'
    BY CountHolds
  <1>3. TypeOK /\ LogsInv /\ CountInv /\ ControlInv /\ SealInv /\ ListingInv /\ [Next]_vars
          => ListingInv'
    BY ListingHolds
  <1> QED
    BY <1>1, <1>2, <1>3, LogsAreTyped, ControlIsKept, PTL DEF Spec

\* Without disk faults every behaviour of an attempt is one of the ledger: however
\* often results and seals are refused and tried again, events come first and in
\* sequence, each retained file is recorded once, never with a credential in it, and
\* the seal is last.
THEOREM AttemptIsALedger ==
    ASSUME Faults = {}
    PROVE  Spec => ImplementsLedger
  <1>1. Init => Ledger!LedgerInit
    <2> SUFFICES ASSUME Init PROVE Ledger!LedgerInit
      OBVIOUS
    <2>1. stream = <<>> /\ manifest = <<>> /\ sealed = FALSE
      BY DEF Init
    <2>2. LedgerEvents = <<>> /\ LedgerPhase = "events"
      BY <2>1 DEF LedgerEvents, LedgerPhase
    <2> QED
      BY <2>1, <2>2 DEF Ledger!LedgerInit, LedgerEvents, LedgerPhase
  <1>2. TypeOK /\ LogsInv /\ RetainedInv /\ CountInv /\ CountInv' /\ ControlInv /\ SealInv
          /\ ListingInv /\ [Next]_vars => [Ledger!LedgerNext]_(Ledger!ledgerVars)
    BY StepsOfTheLedger
  <1> QED
    BY <1>1, <1>2, LedgerIsKept, RetainedIsKept, PTL DEF Spec, ImplementsLedger, Ledger!LedgerSpec

-----------------------------------------------------------------------------
(* The events of an attempt, those on disk and those a call still has to   *)
(* append, whatever their sequence numbers.                                *)

Bare(e) == [e EXCEPT !.seq = 0]

Count == Len(stream) + Len(todo)

Lane == [i \in 1 .. Count |->
           Bare(IF i <= Len(stream) THEN stream[i] ELSE todo[i - Len(stream)])]

LEMMA BareKeeps ==
    ASSUME NEW e \in Events
    PROVE  /\ Bare(e) \in Events /\ Bare(e).type = e.type /\ Bare(e).call = e.call
           /\ Bare(e).status = e.status /\ Bare(e).usage = e.usage
           /\ Bare(e).accounting = e.accounting
           /\ \A n \in Nat : Bare([e EXCEPT !.seq = n]) = Bare(e)
  BY DEF Bare, Events

LEMMA LaneIs ==
    ASSUME LogsInv
    PROVE  /\ Len(stream) \in Nat /\ Len(todo) \in Nat /\ Count \in Nat
           /\ DOMAIN stream = 1 .. Len(stream) /\ DOMAIN todo = 1 .. Len(todo)
           /\ \A i \in 1 .. Len(stream) : stream[i] \in Events /\ Lane[i] = Bare(stream[i])
           /\ \A i \in 1 .. Len(todo) :
                todo[i] \in Events /\ Lane[Len(stream) + i] = Bare(todo[i])
           /\ \A i \in 1 .. Count : Lane[i] \in Events
           /\ DOMAIN Lane = 1 .. Count
  <1> DEFINE n == Len(stream)
             m == Len(todo)
  <1>1. /\ n \in Nat /\ m \in Nat /\ DOMAIN stream = 1 .. n /\ DOMAIN todo = 1 .. m
        /\ \A i \in 1 .. n : stream[i] \in Events
        /\ \A i \in 1 .. m : todo[i] \in Events
    BY LenProperties, ElementOfSeq DEF LogsInv
  <1> HIDE DEF n, m
  <1>2. Count = n + m /\ Count \in Nat
    BY <1>1 DEF Count, n, m
  <1>3. \A i \in 1 .. (n + m) : Lane[i] = Bare(IF i <= n THEN stream[i] ELSE todo[i - n])
    BY <1>2 DEF Lane, n
  <1>4. ASSUME NEW i \in 1 .. n PROVE Lane[i] = Bare(stream[i])
    <2>1. i \in 1 .. (n + m) /\ i <= n
      BY <1>1
    <2> QED
      BY <1>3, <2>1
  <1>5. ASSUME NEW i \in 1 .. m PROVE Lane[n + i] = Bare(todo[i])
    <2>1. n + i \in 1 .. (n + m) /\ ~ (n + i <= n) /\ (n + i) - n = i
      BY <1>1
    <2> QED
      BY <1>3, <2>1
  <1>6. ASSUME NEW i \in 1 .. (n + m) PROVE Lane[i] \in Events
    <2>1. i \in 1 .. n \/ (~ (i <= n) /\ i - n \in 1 .. m)
      BY <1>1
    <2> QED
      BY <1>1, <1>3, <2>1, BareKeeps
  <1>7. DOMAIN Lane = 1 .. Count
    BY DEF Lane
  <1> QED
    BY <1>1, <1>2, <1>4, <1>5, <1>6, <1>7 DEF n, m

\* An event that is appended was in the lane already.
LEMMA EmitKeepsLane ==
    ASSUME TypeOK, LogsInv, Emit
    PROVE  Lane' = Lane /\ Count' = Count /\ Len(stream') = Len(stream) + 1
  <1> DEFINE n == Len(stream)
             m == Len(todo)
             T == Tail(todo)
             e == Stamped(Head(todo))
  <1>1. /\ n \in Nat /\ m \in Nat /\ m > 0
        /\ \A i \in 1 .. m : todo[i] \in Events
    <2>1. todo # <<>>
      BY DEF Emit
    <2> QED
      BY <2>1, LaneIs, EmptySeq, LenProperties DEF LogsInv
  <1>2. /\ Head(todo) = todo[1] /\ T \in Seq(Events) /\ Len(T) = m - 1
        /\ \A i \in 1 .. (m - 1) : T[i] = todo[i + 1]
    <2>1. todo # <<>> /\ todo \in Seq(Events)
      BY DEF Emit, LogsInv
    <2>2. /\ T \in Seq(Events) /\ Len(T) = m - 1 /\ \A i \in 1 .. Len(T) : T[i] = todo[i + 1]
      BY <2>1, HeadTailProperties
    <2> QED
      BY <2>2
  <1>3. e \in Events /\ Bare(e) = Bare(todo[1])
    <2>1. 1 \in 1 .. m /\ sequence + 1 \in Nat
      BY <1>1 DEF TypeOK
    <2> QED
      BY <1>1, <1>2, <2>1, BareKeeps, StampedIsAnEvent DEF Stamped, TypeOK
  <1> HIDE DEF e, T
  <1>4. /\ Len(stream') = n + 1 /\ stream'[n + 1] = e
        /\ \A i \in 1 .. n : stream'[i] = stream[i]
    <2>1. stream' = Append(stream, e)
      BY DEF Emit, e
    <2> QED
      BY <1>1, <1>3, <2>1, AppendProperties DEF LogsInv
  <1>5. todo' = T
    BY DEF Emit, T
  <1>6. Count' = Count /\ Count = n + m
    <2>1. /\ Len(todo') = m - 1 /\ Len(stream') = n + 1
          /\ Count = n + m /\ Count' = Len(stream') + Len(todo')
      BY <1>2, <1>4, <1>5 DEF Count
    <2> HIDE DEF n, m
    <2> QED
      BY <1>1, <2>1
  <1>7. Lane' = [i \in 1 .. (n + m) |-> Bare(IF i <= n + 1 THEN stream'[i] ELSE T[i - (n + 1)])]
    BY <1>4, <1>5, <1>6 DEF Lane
  <1>8. Lane = [i \in 1 .. (n + m) |-> Bare(IF i <= n THEN stream[i] ELSE todo[i - n])]
    BY <1>6 DEF Lane
  <1> HIDE DEF n, m
  <1>9. ASSUME NEW i \in 1 .. (n + m)
        PROVE  Bare(IF i <= n + 1 THEN stream'[i] ELSE T[i - (n + 1)])
                 = Bare(IF i <= n THEN stream[i] ELSE todo[i - n])
    <2>1. CASE i <= n
      <3>1. i \in 1 .. n /\ i <= n + 1
        BY <1>1, <2>1
      <3> QED
        BY <1>4, <2>1, <3>1
    <2>2. CASE i = n + 1
      <3>1. ~ (i <= n) /\ i <= n + 1 /\ i - n = 1
        BY <1>1, <2>2
      <3> QED
        BY <1>3, <1>4, <2>2, <3>1
    <2>3. CASE i > n + 1
      <3>1. ~ (i <= n) /\ ~ (i <= n + 1) /\ i - (n + 1) \in 1 .. (m - 1) /\ (i - (n + 1)) + 1 = i - n
        BY <1>1, <2>3
      <3> QED
        BY <1>2, <3>1
    <2>4. i <= n \/ i = n + 1 \/ i > n + 1
      BY <1>1
    <2> QED
      BY <2>1, <2>2, <2>3, <2>4
  <1>10. Lane' = Lane
    BY <1>7, <1>8, <1>9
  <1> QED
    BY <1>4, <1>6, <1>10 DEF n

LEMMA SameLane ==
    UNCHANGED <<stream, todo>> => Lane' = Lane /\ Count' = Count
  BY DEF Lane, Count

\* A call that is given up leaves what is on disk.
LEMMA LaneDrops ==
    ASSUME LogsInv, UNCHANGED stream, todo' = <<>>
    PROVE  /\ Count' = Len(stream) /\ Count' <= Count
           /\ \A i \in 1 .. Count' : i \in 1 .. Count /\ Lane'[i] = Lane[i]
  <1> DEFINE n == Len(stream)
  <1>1. n \in Nat /\ Len(todo) \in Nat
    BY LaneIs
  <1>2. Len(todo') = 0 /\ Len(stream') = n
    BY EmptySeq
  <1>3. Count' = n /\ n <= Count
    BY <1>1, <1>2 DEF Count
  <1>4. ASSUME NEW i \in 1 .. n PROVE i \in 1 .. Count /\ Lane'[i] = Lane[i]
    <2>1. i \in 1 .. Count /\ i <= n
      BY <1>1, <1>3 DEF Count
    <2>2. Lane[i] = Bare(stream[i])
      BY LaneIs
    <2>3. Lane'[i] = Bare(stream'[i])
      BY <1>2, <1>3, <2>1 DEF Lane
    <2> QED
      BY <2>1, <2>2, <2>3
  <1> QED
    BY <1>3, <1>4

\* A call that begins adds what it has to append.
LEMMA LaneGrows ==
    ASSUME LogsInv, LogsInv', UNCHANGED stream, todo = <<>>
    PROVE  /\ Count = Len(stream) /\ Count' = Count + Len(todo')
           /\ Count \in Nat /\ Len(todo') \in Nat
           /\ \A i \in 1 .. Count' :
                \/ i \in 1 .. Count /\ Lane'[i] = Lane[i]
                \/ i - Count \in 1 .. Len(todo') /\ Lane'[i] = Bare(todo'[i - Count])
                     /\ todo'[i - Count] \in Events
           /\ \A i \in 1 .. Count : i \in 1 .. Count' /\ Lane'[i] = Lane[i]
           /\ \A k \in 1 .. Len(todo') :
                Count + k \in 1 .. Count' /\ Lane'[Count + k] = Bare(todo'[k])
                  /\ todo'[k] \in Events
  <1> DEFINE n == Len(stream)
             m == Len(todo')
  <1>1. n \in Nat /\ m \in Nat /\ Len(todo) = 0
    BY LaneIs, LenProperties, EmptySeq DEF LogsInv
  <1>2. Count = n /\ Count' = n + m
    BY <1>1 DEF Count
  <1>3. \A k \in 1 .. m : todo'[k] \in Events
    BY LenProperties, ElementOfSeq DEF LogsInv
  <1> HIDE DEF n, m
  <1>4. Lane' = [i \in 1 .. (n + m) |-> Bare(IF i <= n THEN stream[i] ELSE todo'[i - n])]
    BY <1>2 DEF Lane, n
  <1>5. \A i \in 1 .. n : Lane[i] = Bare(stream[i])
    BY LaneIs DEF n
  <1>6. ASSUME NEW i \in 1 .. n PROVE i \in 1 .. (n + m) /\ Lane'[i] = Lane[i]
    <2>1. i \in 1 .. (n + m) /\ i <= n
      BY <1>1
    <2> QED
      BY <1>4, <1>5, <2>1
  <1>7. ASSUME NEW k \in 1 .. m
        PROVE  n + k \in 1 .. (n + m) /\ Lane'[n + k] = Bare(todo'[k])
    <2>1. n + k \in 1 .. (n + m) /\ ~ (n + k <= n) /\ (n + k) - n = k
      BY <1>1
    <2> QED
      BY <1>4, <2>1
  <1>8. ASSUME NEW i \in 1 .. (n + m)
        PROVE  \/ i \in 1 .. n /\ Lane'[i] = Lane[i]
               \/ i - n \in 1 .. m /\ Lane'[i] = Bare(todo'[i - n])
    <2>1. i \in 1 .. n \/ (i - n \in 1 .. m /\ n + (i - n) = i)
      BY <1>1
    <2> QED
      BY <1>6, <1>7, <2>1
  <1> QED
    BY <1>1, <1>2, <1>3, <1>6, <1>7, <1>8 DEF n, m

-----------------------------------------------------------------------------
(* What the calls of an attempt have to append.                            *)

\* A sequence and one more.
LEMMA OneJoined ==
    ASSUME NEW S, NEW s \in Seq(S), NEW t \in Seq(S), NEW e \in S, Len(t) = Len(s) + 1,
           t[Len(t)] = e, \A i \in 1 .. Len(s) : t[i] = s[i]
    PROVE  s \o <<e>> = t
  <1> DEFINE n == Len(s)
             o == <<e>>
  <1>1. o \in Seq(S) /\ Len(o) = 1 /\ o[1] = e
    OBVIOUS
  <1> HIDE DEF o
  <1>2. n \in Nat
    BY LenProperties
  <1>3. /\ s \o o \in Seq(S) /\ Len(s \o o) = n + 1
        /\ \A i \in 1 .. (n + 1) : (s \o o)[i] = IF i <= n THEN s[i] ELSE o[i - n]
    <2>1. /\ s \o o \in Seq(S) /\ Len(s \o o) = Len(s) + Len(o)
          /\ \A i \in 1 .. (Len(s) + Len(o)) :
               (s \o o)[i] = IF i <= Len(s) THEN s[i] ELSE o[i - Len(s)]
      BY <1>1, ConcatProperties
    <2> QED
      BY <1>1, <2>1
  <1> HIDE DEF n
  <1>4. ASSUME NEW i \in 1 .. (n + 1) PROVE (s \o o)[i] = t[i]
    <2>1. (i \in 1 .. n /\ i <= n) \/ (i = n + 1 /\ ~ (i <= n) /\ i - n = 1)
      BY <1>2
    <2> QED
      BY <1>1, <1>3, <2>1 DEF n
  <1> QED
    BY <1>2, <1>3, <1>4, SeqEqual DEF n, o

\* A short sequence and one more.
LEMMA OneMore ==
    ASSUME NEW S, NEW a \in S, NEW b \in S, NEW c \in S, NEW d \in S
    PROVE  /\ <<a>> \o <<b>> = <<a, b>> /\ <<a, b>> \o <<c>> = <<a, b, c>>
           /\ <<a, b, c>> \o <<d>> = <<a, b, c, d>>
           /\ <<a>> \o <<>> = <<a>> /\ <<a, b>> \o <<>> = <<a, b>>
  <1>1. \A s, t \in Seq(S), e \in S :
          /\ Len(t) = Len(s) + 1 /\ t[Len(t)] = e
          /\ \A i \in 1 .. Len(s) : t[i] = s[i]
          => s \o <<e>> = t
    BY OneJoined
  <1>2. /\ <<a>> \in Seq(S) /\ <<a, b>> \in Seq(S) /\ <<a, b, c>> \in Seq(S)
        /\ <<a, b, c, d>> \in Seq(S)
    OBVIOUS
  <1>3. <<a>> \o <<b>> = <<a, b>>
    <2> DEFINE s == <<a>>
               t == <<a, b>>
    <2>1. /\ s \in Seq(S) /\ t \in Seq(S) /\ Len(t) = Len(s) + 1 /\ t[Len(t)] = b
          /\ \A i \in 1 .. Len(s) : t[i] = s[i]
      OBVIOUS
    <2> HIDE DEF s, t
    <2>2. s \o <<b>> = t
      BY <1>1, <2>1
    <2> QED
      BY <2>2 DEF s, t
  <1>4. <<a, b>> \o <<c>> = <<a, b, c>>
    <2> DEFINE s == <<a, b>>
               t == <<a, b, c>>
    <2>1. /\ s \in Seq(S) /\ t \in Seq(S) /\ Len(t) = Len(s) + 1 /\ t[Len(t)] = c
          /\ \A i \in 1 .. Len(s) : t[i] = s[i]
      OBVIOUS
    <2> HIDE DEF s, t
    <2>2. s \o <<c>> = t
      BY <1>1, <2>1
    <2> QED
      BY <2>2 DEF s, t
  <1>5. <<a, b, c>> \o <<d>> = <<a, b, c, d>>
    <2> DEFINE s == <<a, b, c>>
               t == <<a, b, c, d>>
    <2>1. /\ s \in Seq(S) /\ t \in Seq(S) /\ Len(t) = Len(s) + 1 /\ t[Len(t)] = d
          /\ \A i \in 1 .. Len(s) : t[i] = s[i]
      OBVIOUS
    <2> HIDE DEF s, t
    <2>2. s \o <<d>> = t
      BY <1>1, <2>1
    <2> QED
      BY <2>2 DEF s, t
  <1>6. <<a>> \o <<>> = <<a>> /\ <<a, b>> \o <<>> = <<a, b>>
    BY <1>2, ConcatEmptySeq
  <1> QED
    BY <1>3, <1>4, <1>5, <1>6

LEMMA PlainEvents ==
    ASSUME NEW type
    PROVE  /\ Event(type).type = type /\ Event(type).leaks = FALSE
           /\ Event(type).accounting = <<>> /\ Event(type).status = ""
           /\ Event(type).call = 0
  BY DEF Event

LEMMA Updates ==
    ASSUME NEW spent, NEW states
    PROVE  /\ BudgetUpdate(spent, states).type = "budget_update"
           /\ BudgetUpdate(spent, states).leaks = FALSE
           /\ BudgetUpdate(spent, states).usage = spent
           /\ BudgetUpdate(spent, states).accounting = states
  BY DEF BudgetUpdate, Event

\* ... which no adapter tells.
LEMMA UpdatesAreOwn ==
    ASSUME NEW spent, NEW states
    PROVE  BudgetUpdate(spent, states).call = 0
  BY DEF BudgetUpdate, Event

Ran == process.end \notin {"none", "launch-error"}

\* The end of a command: what it tells of itself, and no error after a clean end.
LEMMA LaunchTells ==
    ASSUME Launch
    PROVE  /\ todo = <<>> /\ pc = "open" /\ pc' = "construct"
           /\ process'.end \in Ends /\ status' # "" /\ process'.wall \in Nat
           /\ usage' = [NoUsage EXCEPT !["wall"] = process'.wall]
           /\ Len(todo') \in Nat /\ (Ran' => Len(todo') >= 2)
           /\ \A k \in 1 .. Len(todo') :
                /\ todo'[k].leaks = FALSE /\ todo'[k].accounting = <<>> /\ todo'[k].call = 0
                /\ todo'[k].type \in {"command_started", "command_completed", "error",
                                      "budget_update"}
                /\ (todo'[k].type = "command_started") <=> (Ran' /\ k = 1)
                /\ (todo'[k].type = "command_completed") <=> (Ran' /\ k = 2)
                /\ todo'[k].type = "budget_update" => todo'[k].usage = [wall |-> process'.wall]
           /\ status' = "completed" =>
                /\ process'.end = "zero" /\ process'.wall <= Budget["wall"]
                /\ \A k \in 1 .. Len(todo') : todo'[k].type # "error"
  <1>1. PICK end \in Ends, wall \in WallSeconds :
          /\ process' = [end |-> end, wall |-> wall]
          /\ status' = IF wall > Budget["wall"] THEN "budget-exceeded" ELSE EndStatus(end)
          /\ usage' = [NoUsage EXCEPT !["wall"] = wall]
          /\ todo' = (IF end = "launch-error" THEN <<Event("error")>>
                      ELSE <<Event("command_started"), Event("command_completed")>>)
                     \o (IF wall > Budget["wall"] THEN <<Event("error")>> ELSE <<>>)
                     \o <<BudgetUpdate([wall |-> wall], <<>>)>>
    BY DEF Launch
  <1>2. /\ todo = <<>> /\ pc = "open" /\ pc' = "construct"
        /\ process'.end = end /\ process'.wall = wall /\ wall \in Nat /\ Budget["wall"] \in Nat
        /\ Ran' <=> end # "launch-error"
    BY <1>1, SessionAssumption, RulesAssumption DEF Launch, Ran, Ends, Resources
  <1>3. status' # "" /\ (status' = "completed" => end = "zero" /\ wall <= Budget["wall"])
    <2>1. CASE wall > Budget["wall"]
      BY <1>1, <2>1
    <2>2. CASE ~ (wall > Budget["wall"])
      <3>1. status' = EndStatus(end) /\ wall <= Budget["wall"]
        BY <1>1, <1>2, <2>2
      <3>2. EndStatus(end) # "" /\ (EndStatus(end) = "completed" => end = "zero")
        BY DEF EndStatus, Ends
      <3> QED
        BY <3>1, <3>2
    <2> QED
      BY <2>1, <2>2
  <1> DEFINE E == Event("error")
             S == Event("command_started")
             C == Event("command_completed")
             U == BudgetUpdate([wall |-> wall], <<>>)
             X == {E, S, C, U}
  <1>4. /\ E.type = "error" /\ S.type = "command_started" /\ C.type = "command_completed"
        /\ U.type = "budget_update" /\ U.usage = [wall |-> wall]
        /\ E.leaks = FALSE /\ S.leaks = FALSE /\ C.leaks = FALSE /\ U.leaks = FALSE
        /\ E.accounting = <<>> /\ S.accounting = <<>> /\ C.accounting = <<>>
        /\ U.accounting = <<>>
        /\ E.call = 0 /\ S.call = 0 /\ C.call = 0 /\ U.call = 0
    <2>1. E.type = "error" /\ E.leaks = FALSE /\ E.accounting = <<>> /\ E.call = 0
      BY PlainEvents
    <2>2. S.type = "command_started" /\ S.leaks = FALSE /\ S.accounting = <<>> /\ S.call = 0
      BY PlainEvents
    <2>3. C.type = "command_completed" /\ C.leaks = FALSE /\ C.accounting = <<>> /\ C.call = 0
      BY PlainEvents
    <2>4. /\ U.type = "budget_update" /\ U.usage = [wall |-> wall] /\ U.leaks = FALSE
          /\ U.accounting = <<>> /\ U.call = 0
      <3> DEFINE w == [wall |-> wall]
                 none == <<>>
      <3>1. U = BudgetUpdate(w, none)
        OBVIOUS
      <3> HIDE DEF w, none, U
      <3>2. /\ U.type = "budget_update" /\ U.usage = w /\ U.leaks = FALSE
            /\ U.accounting = none
        BY <3>1, Updates
      <3>3. U.call = 0
        BY <3>1, UpdatesAreOwn
      <3> QED
        BY <3>2, <3>3 DEF w, none
    <2> HIDE DEF E, S, C, U
    <2> QED
      BY <2>1, <2>2, <2>3, <2>4
  <1>10. E \in X /\ S \in X /\ C \in X /\ U \in X
    OBVIOUS
  <1> HIDE DEF E, S, C, U, X
  <1>5. todo' = (IF end = "launch-error" THEN <<E>> ELSE <<S, C>>)
                \o (IF wall > Budget["wall"] THEN <<E>> ELSE <<>>) \o <<U>>
    BY <1>1 DEF E, S, C, U
  <1> DEFINE Tells(s) ==
               /\ Len(s) \in Nat /\ (Ran' => Len(s) >= 2)
               /\ \A k \in 1 .. Len(s) :
                    /\ s[k] \in X
                    /\ (s[k] = S) <=> (Ran' /\ k = 1)
                    /\ (s[k] = C) <=> (Ran' /\ k = 2)
                    /\ s[k] = E => end = "launch-error" \/ wall > Budget["wall"]
  <1>11. E # S /\ E # C /\ U # S /\ U # C /\ S # C /\ U # E
    BY <1>4
  <1>6. ASSUME end = "launch-error" /\ wall > Budget["wall"]
        PROVE  Tells(todo')
    <2> DEFINE s == <<E, E, U>>
    <2>1. todo' = s
      BY <1>5, <1>6, <1>10, OneMore
    <2>2. /\ Len(s) = 3 /\ s[1] = E /\ s[2] = E /\ s[3] = U
          /\ \A k \in 1 .. 3 : k \in {1, 2, 3}
      OBVIOUS
    <2> HIDE DEF s
    <2>3. Tells(s)
      BY <1>2, <1>6, <1>10, <1>11, <2>2
    <2> QED
      BY <2>1, <2>3
  <1>7. ASSUME end = "launch-error" /\ ~ (wall > Budget["wall"])
        PROVE  Tells(todo')
    <2> DEFINE s == <<E, U>>
    <2>1. todo' = s
      BY <1>5, <1>7, <1>10, OneMore
    <2>2. /\ Len(s) = 2 /\ s[1] = E /\ s[2] = U
          /\ \A k \in 1 .. 2 : k \in {1, 2}
      OBVIOUS
    <2> HIDE DEF s
    <2>3. Tells(s)
      BY <1>2, <1>7, <1>10, <1>11, <2>2
    <2> QED
      BY <2>1, <2>3
  <1>8. ASSUME end # "launch-error" /\ wall > Budget["wall"]
        PROVE  Tells(todo')
    <2> DEFINE s == <<S, C, E, U>>
    <2>1. todo' = s
      <3>1. todo' = <<S, C>> \o <<E>> \o <<U>>
        BY <1>5, <1>8
      <3>2. <<S, C>> \o <<E>> = <<S, C, E>>
        BY <1>10, OneMore
      <3> DEFINE u == <<S, C, E>>
      <3>3. /\ u \in Seq(X) /\ s \in Seq(X) /\ Len(s) = Len(u) + 1 /\ s[Len(s)] = U
            /\ \A i \in 1 .. Len(u) : s[i] = u[i]
        BY <1>10
      <3> HIDE DEF u, s
      <3>4. u \o <<U>> = s
        BY <1>10, <3>3, OneJoined
      <3> QED
        BY <3>1, <3>2, <3>4 DEF u
    <2>2. /\ Len(s) = 4 /\ s[1] = S /\ s[2] = C /\ s[3] = E /\ s[4] = U
          /\ \A k \in 1 .. 4 : k \in {1, 2, 3, 4}
      OBVIOUS
    <2> HIDE DEF s
    <2>3. Tells(s)
      BY <1>2, <1>8, <1>10, <1>11, <2>2
    <2> QED
      BY <2>1, <2>3
  <1>9. ASSUME end # "launch-error" /\ ~ (wall > Budget["wall"])
        PROVE  Tells(todo')
    <2> DEFINE s == <<S, C, U>>
    <2>1. todo' = s
      BY <1>5, <1>9, <1>10, OneMore
    <2>2. /\ Len(s) = 3 /\ s[1] = S /\ s[2] = C /\ s[3] = U
          /\ \A k \in 1 .. 3 : k \in {1, 2, 3}
      OBVIOUS
    <2> HIDE DEF s
    <2>3. Tells(s)
      BY <1>2, <1>9, <1>10, <1>11, <2>2
    <2> QED
      BY <2>1, <2>3
  <1>12. Tells(todo')
    BY <1>6, <1>7, <1>8, <1>9
  <1>13. ASSUME NEW k \in 1 .. Len(todo')
         PROVE  /\ todo'[k].leaks = FALSE /\ todo'[k].accounting = <<>> /\ todo'[k].call = 0
                /\ todo'[k].type \in {"command_started", "command_completed", "error",
                                      "budget_update"}
                /\ (todo'[k].type = "command_started") <=> (Ran' /\ k = 1)
                /\ (todo'[k].type = "command_completed") <=> (Ran' /\ k = 2)
                /\ todo'[k].type = "budget_update" => todo'[k].usage = [wall |-> process'.wall]
                /\ todo'[k].type = "error" => end = "launch-error" \/ wall > Budget["wall"]
    <2>1. /\ todo'[k] \in {E, S, C, U}
          /\ (todo'[k] = S) <=> (Ran' /\ k = 1)
          /\ (todo'[k] = C) <=> (Ran' /\ k = 2)
          /\ todo'[k] = E => end = "launch-error" \/ wall > Budget["wall"]
      BY <1>12 DEF X
    <2>2. CASE todo'[k] = E
      BY <1>4, <1>11, <2>1, <2>2
    <2>3. CASE todo'[k] = S
      BY <1>4, <1>11, <2>1, <2>3
    <2>4. CASE todo'[k] = C
      BY <1>4, <1>11, <2>1, <2>4
    <2>5. CASE todo'[k] = U
      BY <1>2, <1>4, <1>11, <2>1, <2>5
    <2> QED
      BY <2>1, <2>2, <2>3, <2>4, <2>5
  <1>14. process'.end \in Ends /\ Len(todo') \in Nat /\ (Ran' => Len(todo') >= 2)
    BY <1>2, <1>12
  <1>15. status' = "completed" =>
           /\ process'.end = "zero" /\ process'.wall <= Budget["wall"]
           /\ \A k \in 1 .. Len(todo') : todo'[k].type # "error"
    <2> SUFFICES ASSUME status' = "completed"
                 PROVE  /\ process'.end = "zero" /\ process'.wall <= Budget["wall"]
                        /\ \A k \in 1 .. Len(todo') : todo'[k].type # "error"
      OBVIOUS
    <2>1. end = "zero" /\ wall <= Budget["wall"] /\ ~ (wall > Budget["wall"])
      BY <1>2, <1>3
    <2> QED
      BY <1>2, <1>13, <2>1
  <1> HIDE DEF Tells
  <1> QED
    BY <1>1, <1>2, <1>3, <1>13, <1>14, <1>15

\* An attestation adds one coherent update, and an error exactly when it stops the run.
LEMMA AttestTells ==
    ASSUME TypeOK, NEW acc \in [Units -> Nat \cup {Unavailable}], NEW call, Attest(acc, call),
           \A u \in Units : usage[u] = 0
    PROVE  /\ attested' = TRUE /\ pc' \in {"seal", call} /\ usage'["wall"] = usage["wall"]
           /\ status' \in {status} \cup Stopped
           /\ (\E u \in Units : usage'[u] > Projection[u]) =>
                status' = "resource-projection-exceeded"
           /\ Len(todo') \in 1 .. 2
           /\ \A k \in 1 .. Len(todo') :
                /\ todo'[k].leaks = FALSE /\ todo'[k].call = 0
                /\ todo'[k].type \in {"error", "warning", "budget_update"}
                /\ todo'[k].type = "error" => status' \in Stopped
                /\ todo'[k].type # "budget_update" => todo'[k].accounting = <<>>
                /\ todo'[k].type = "budget_update" =>
                     /\ todo'[k].usage = usage' /\ DOMAIN todo'[k].accounting = Units
                     /\ \A u \in Units :
                          CoherentUnit(u, todo'[k].accounting[u], usage'[u])
                          /\ (todo'[k].accounting[u] \in States)
           /\ \E k \in 1 .. Len(todo') : todo'[k].type = "budget_update"
           /\ \A k, l \in 1 .. Len(todo') :
                todo'[k].type = "budget_update" /\ todo'[l].type = "budget_update" => k = l
  <1> DEFINE spent == [r \in Resources |->
                         IF r = "wall" THEN usage[r] ELSE usage[r] + Charged(acc)[r]]
             states == AccountingState(acc)
             U == BudgetUpdate(spent, states)
             E == Event("error")
             W == Event("warning")
             beyond == \E u \in Units : acc[u] > Projection[u]
             over == \E r \in Resources : spent[r] > Budget[r]
  <1>1. /\ attested' = TRUE /\ pc' \in {"seal", call} /\ usage' = spent
        /\ status' = StatusAfter(beyond, over)
        /\ \/ todo' = <<U, E>> /\ (beyond \/ over)
           \/ todo' = <<W, U>>
           \/ todo' = <<U>>
    BY DEF Attest
  <1>2. \A u \in Units : acc[u] \in Nat \cup {-1} /\ Projection[u] \in Nat /\ u # "wall"
    BY RulesAssumption DEF Unavailable
  <1>3. spent["wall"] = usage["wall"]
    BY DEF Resources
  <1>4. ASSUME NEW u \in Units
        PROVE  spent[u] = IF acc[u] = Unavailable THEN Projection[u] ELSE acc[u]
    BY <1>2 DEF Resources, Charged, Unavailable
  <1>5. /\ DOMAIN states = Units
        /\ \A u \in Units : states[u] \in States /\ CoherentUnit(u, states[u], spent[u])
    <2>1. \A u \in Units : states[u] = CASE acc[u] # Unavailable -> "observed"
                       [] acc[u] = Unavailable /\ Projection[u] > 0
                            -> "unavailable-reserved"
                       [] OTHER -> "not-applicable"
      BY DEF AccountingState
    <2>2. DOMAIN states = Units
      BY DEF AccountingState
    <2> HIDE DEF states, spent
    <2>3. ASSUME NEW u \in Units
          PROVE  states[u] \in States /\ CoherentUnit(u, states[u], spent[u])
      <3>1. CASE acc[u] # Unavailable
        BY <2>1, <3>1 DEF States, CoherentUnit
      <3>2. CASE acc[u] = Unavailable /\ Projection[u] > 0
        BY <1>4, <2>1, <3>2 DEF States, CoherentUnit
      <3>3. CASE acc[u] = Unavailable /\ ~ (Projection[u] > 0)
        BY <1>2, <1>4, <2>1, <3>3 DEF States, CoherentUnit
      <3> QED
        BY <3>1, <3>2, <3>3
    <2> QED
      BY <2>2, <2>3
  <1> HIDE DEF spent, states
  <1>6. (\E u \in Units : spent[u] > Projection[u]) => beyond
    BY <1>2, <1>4 DEF Unavailable
  <1>7. /\ beyond => status' = "resource-projection-exceeded"
        /\ beyond \/ over => status' \in Stopped
        /\ status' \in {status} \cup Stopped
    BY <1>1 DEF StatusAfter, Stopped
  <1>8. /\ U.type = "budget_update" /\ U.leaks = FALSE /\ U.usage = spent
        /\ U.accounting = states
        /\ E.type = "error" /\ E.leaks = FALSE /\ E.accounting = <<>>
        /\ W.type = "warning" /\ W.leaks = FALSE /\ W.accounting = <<>>
        /\ U.call = 0 /\ E.call = 0 /\ W.call = 0
    <2>1. E.type = "error" /\ E.leaks = FALSE /\ E.accounting = <<>> /\ E.call = 0
      BY PlainEvents
    <2>2. W.type = "warning" /\ W.leaks = FALSE /\ W.accounting = <<>> /\ W.call = 0
      BY PlainEvents
    <2>3. /\ U.type = "budget_update" /\ U.leaks = FALSE /\ U.usage = spent
          /\ U.accounting = states /\ U.call = 0
      <3>1. U = BudgetUpdate(spent, states)
        OBVIOUS
      <3> HIDE DEF U
      <3>2. /\ U.type = "budget_update" /\ U.leaks = FALSE /\ U.usage = spent
            /\ U.accounting = states
        BY <3>1, Updates
      <3>3. U.call = 0
        BY <3>1, UpdatesAreOwn
      <3> QED
        BY <3>2, <3>3
    <2> HIDE DEF E, W, U
    <2> QED
      BY <2>1, <2>2, <2>3
  <1> HIDE DEF U, E, W, beyond, over
  <1>9. /\ Len(todo') \in 1 .. 2
        /\ \A k \in 1 .. Len(todo') :
             \/ todo'[k] \in {U, W}
             \/ todo'[k] = E /\ (beyond \/ over)
        /\ \E k \in 1 .. Len(todo') : todo'[k] = U
        /\ \A k, l \in 1 .. Len(todo') : todo'[k] = U /\ todo'[l] = U => k = l
    <2>1. U # E /\ U # W
      BY <1>8
    <2>2. CASE todo' = <<U, E>> /\ (beyond \/ over)
      BY <2>1, <2>2
    <2>3. CASE todo' = <<W, U>>
      BY <2>1, <2>3
    <2>4. CASE todo' = <<U>>
      BY <2>4
    <2> QED
      BY <1>1, <2>2, <2>3, <2>4
  <1>10. ASSUME NEW k \in 1 .. Len(todo')
         PROVE  /\ todo'[k].leaks = FALSE /\ todo'[k].call = 0
                /\ todo'[k].type \in {"error", "warning", "budget_update"}
                /\ todo'[k].type = "error" => status' \in Stopped
                /\ todo'[k].type # "budget_update" => todo'[k].accounting = <<>>
                /\ todo'[k].type = "budget_update" => todo'[k] = U
    BY <1>7, <1>8, <1>9
  <1>11. ASSUME NEW k \in 1 .. Len(todo'), todo'[k].type = "budget_update"
         PROVE  /\ todo'[k].usage = usage' /\ DOMAIN todo'[k].accounting = Units
                /\ \A u \in Units :
                     CoherentUnit(u, todo'[k].accounting[u], usage'[u])
                     /\ (todo'[k].accounting[u] \in States)
    BY <1>1, <1>5, <1>8, <1>10, <1>11
  <1>12. usage'["wall"] = usage["wall"]
    BY <1>1, <1>3
  <1>13. (\E u \in Units : usage'[u] > Projection[u]) => status' = "resource-projection-exceeded"
    BY <1>1, <1>6, <1>7
  <1>14. /\ \E k \in 1 .. Len(todo') : todo'[k].type = "budget_update"
         /\ \A k, l \in 1 .. Len(todo') :
              todo'[k].type = "budget_update" /\ todo'[l].type = "budget_update" => k = l
    BY <1>8, <1>9, <1>10
  <1> QED
    BY <1>1, <1>7, <1>9, <1>10, <1>11, <1>12, <1>13, <1>14


\* What an adapter tells is said of the call that brought it.
LEMMA AdapterTells ==
    ASSUME NEW r \in AdapterResults, TypeOK, ApplyNormalization(r)
    PROVE  /\ calls' \in Nat \ {0}
           /\ \A k \in 1 .. Len(todo') :
                /\ todo'[k].accounting = <<>>
                /\ todo'[k].type \in {"error", "warning", "observation"}
                /\ todo'[k].call = calls'
  <1>1. /\ todo' = AdapterEvents(r) /\ calls' = calls + 1 /\ calls \in Nat
        /\ r.events \in Seq({"observation", "warning", "error", "leak"})
    BY SessionAssumption DEF ApplyNormalization, Applying, TypeOK
  <1>2. DOMAIN r.events = 1 .. Len(r.events) /\ Len(r.events) \in Nat
    BY <1>1, LenProperties
  <1>3. todo' \in Seq(Events) /\ DOMAIN todo' = DOMAIN r.events
    BY <1>1, AdapterEventsAreEvents DEF AdapterEvents
  <1>4. 1 .. Len(todo') = DOMAIN r.events
    BY <1>3, LenProperties
  <1>5. ASSUME NEW k \in DOMAIN r.events
        PROVE  \/ r.events[k] \in {"warning", "error"} /\ todo'[k] = Noted(r.events[k], calls')
               \/ todo'[k] = Told(r.events[k] = "leak", calls')
    <2>1. CASE r.events[k] \in {"warning", "error"}
      BY <1>1, <2>1 DEF AdapterEvents, Noted
    <2>2. CASE r.events[k] \notin {"warning", "error"}
      BY <1>1, <2>2 DEF AdapterEvents, Told
    <2> QED
      BY <2>1, <2>2
  <1>6. ASSUME NEW type, NEW n
        PROVE  /\ Noted(type, n).type = type /\ Noted(type, n).accounting = <<>>
               /\ Noted(type, n).call = n
    BY DEF Noted, Event
  <1>7. ASSUME NEW l, NEW n
        PROVE  /\ Told(l, n).type = "observation" /\ Told(l, n).accounting = <<>>
               /\ Told(l, n).call = n
    BY DEF Told, Event
  <1>8. ASSUME NEW k \in DOMAIN r.events
        PROVE  /\ todo'[k].accounting = <<>>
               /\ todo'[k].type \in {"error", "warning", "observation"}
               /\ todo'[k].call = calls'
    <2>1. CASE r.events[k] \in {"warning", "error"} /\ todo'[k] = Noted(r.events[k], calls')
      BY <1>6, <2>1
    <2>2. CASE todo'[k] = Told(r.events[k] = "leak", calls')
      <3> DEFINE l == r.events[k] = "leak"
      <3>1. todo'[k] = Told(l, calls')
        BY <2>2
      <3> HIDE DEF l
      <3> QED
        BY <1>7, <3>1
    <2> QED
      BY <1>5, <2>1, <2>2
  <1> QED
    BY <1>1, <1>4, <1>8

\* A seal announces what it will record and then how the run stopped.
LEMMA AnnounceTells ==
    ASSUME TypeOK, LogsInv, SealAnnounce
    PROVE  /\ Len(todo') \in Nat /\ Len(todo') > 0
           /\ \A k \in 1 .. Len(todo') :
                /\ todo'[k].leaks = FALSE /\ todo'[k].accounting = <<>> /\ todo'[k].call = 0
                /\ todo'[k].type \in {"artifact_recorded", "run_stopped"}
                /\ (todo'[k].type = "run_stopped") <=> (k = Len(todo'))
           /\ todo'[Len(todo')].status = status
  <1> DEFINE n == Len(RetainedInOrder)
             A == [i \in 1 .. n |-> Event("artifact_recorded")]
             B == <<Stop>>
  <1>1. n \in Nat
    BY ListingIsRetained, LenProperties
  <1>2. Event("artifact_recorded") \in Events /\ Stop \in Events
    BY ControlEvents, StopIsQuiet DEF Quiet, EventTypes, AdapterTypes, TypeOK
  <1>3. A \in Seq(Events) /\ Len(A) = n
    BY <1>1, <1>2, SeqDef, LenProperties
  <1>4. B \in Seq(Events) /\ Len(B) = 1 /\ B[1] = Stop
    BY <1>2
  <1>5. todo' = A \o B
    BY DEF SealAnnounce
  <1>6. \A i \in 1 .. n : A[i] = Event("artifact_recorded")
    OBVIOUS
  <1> HIDE DEF A, B, n
  <1>7. /\ Len(todo') = n + 1
        /\ \A k \in 1 .. n : todo'[k] = Event("artifact_recorded")
        /\ todo'[n + 1] = Stop
    <2>1. /\ Len(A \o B) = n + 1
          /\ \A i \in 1 .. (n + 1) : (A \o B)[i] = IF i <= n THEN A[i] ELSE B[i - n]
      <3>1. /\ Len(A \o B) = Len(A) + Len(B)
            /\ \A i \in 1 .. (Len(A) + Len(B)) :
                 (A \o B)[i] = IF i <= Len(A) THEN A[i] ELSE B[i - Len(A)]
        BY <1>3, <1>4, ConcatProperties
      <3> QED
        BY <1>3, <1>4, <3>1
    <2>2. \A k \in 1 .. n : k \in 1 .. (n + 1) /\ k <= n
      BY <1>1
    <2>3. n + 1 \in 1 .. (n + 1) /\ ~ (n + 1 <= n) /\ (n + 1) - n = 1
      BY <1>1
    <2> QED
      BY <1>4, <1>5, <1>6, <2>1, <2>2, <2>3
  <1>8. /\ Event("artifact_recorded").type = "artifact_recorded"
        /\ Event("artifact_recorded").leaks = FALSE
        /\ Event("artifact_recorded").accounting = <<>>
        /\ Event("artifact_recorded").call = 0
    BY PlainEvents
  <1>9. /\ Stop.type = "run_stopped" /\ Stop.leaks = FALSE /\ Stop.accounting = <<>>
        /\ Stop.status = status /\ Stop.call = 0
    BY DEF Stop, Event
  <1>10. ASSUME NEW k \in 1 .. Len(todo')
         PROVE  /\ todo'[k].leaks = FALSE /\ todo'[k].accounting = <<>> /\ todo'[k].call = 0
                /\ todo'[k].type \in {"artifact_recorded", "run_stopped"}
                /\ (todo'[k].type = "run_stopped") <=> (k = Len(todo'))
    <2>1. (k \in 1 .. n /\ k # n + 1) \/ k = n + 1
      BY <1>1, <1>7
    <2> QED
      BY <1>7, <1>8, <1>9, <2>1
  <1>11. Len(todo') \in Nat /\ Len(todo') > 0
    BY <1>1, <1>7
  <1>12. todo'[Len(todo')].status = status
    BY <1>7, <1>9
  <1> QED
    BY <1>10, <1>11, <1>12

-----------------------------------------------------------------------------
(* How far a call may be, and what the session knows by then.              *)

Unset == ""

LEMMA SetStatuses ==
    /\ Unset \notin Stopped
    /\ "credential-evidence-refused" # Unset /\ "credential-artifact-refused" # Unset
  BY Zenon DEF Stopped, Unset

PhaseInv ==
    /\ pc \in {"open", "construct"} => ~attested /\ ~normalized /\ ~attached
    /\ pc = "attest" => attached /\ ~attested /\ ~normalized
    /\ pc = "idle" => attached
    /\ attached => (attested <=> normalized)
    /\ pc = "open" => process.end = "none"
    /\ pc \notin {"open", "lost", "ended"} => process.end # "none" /\ status # Unset
    /\ sealed => status # Unset
    /\ pc # "attest" => \A i \in 1 .. Len(todo) : todo[i].leaks = FALSE
    /\ usage["wall"] = process.wall
    /\ ~attested => \A u \in Units : usage[u] = 0


\* On such a disk an append is never refused.
LEMMA NothingRefused ==
    ASSUME Faults = {}, LogsInv, CountInv, ControlInv, ListingInv
    PROVE  ~EmitRefused /\ ~RecordRefused
  <1>1. Appendable
    <2>1. stream # <<>> => Len(stream) \in DOMAIN stream /\ Len(stream) \in Nat
      BY EmptySeq, LenProperties DEF LogsInv
    <2>2. stream # <<>> => stream[Len(stream)].seq < sequence + 1
      BY <2>1 DEF CountInv
    <2> QED
      BY <2>2 DEF Appendable, CountInv
  <1>2. pending # <<>> => Recordable(Head(pending))
    BY NextRecord DEF Recordable, ListingInv, CountInv, ControlInv
  <1> QED
    BY <1>1, <1>2, NoFaults DEF EmitRefused, RecordRefused, Fault

LEMMA NoUsageIsNone == NoUsage["wall"] = 0 /\ \A u \in Units : NoUsage[u] = 0
  BY DEF NoUsage, Resources

LEMMA PhaseHolds ==
    ASSUME Faults = {}, TypeOK, LogsInv, CountInv, ControlInv, SealInv, ListingInv, PhaseInv,
           [Next]_vars
    PROVE  PhaseInv'
  <1> USE DEF diskVars, sessionVars, sealVars, boundVars
  <1>0. Len(<<>>) = 0 /\ Len(todo) \in Nat /\ (todo # <<>> => Len(todo) > 0)
    BY LaneIs, EmptySeq, LenProperties DEF LogsInv
  <1>1. CASE Emit
    <2>1. todo' = Tail(todo) /\ todo # <<>> /\ todo \in Seq(Events)
      BY <1>1 DEF Emit, LogsInv
    <2>2. \A i \in 1 .. Len(todo') : todo'[i] = todo[i + 1] /\ i + 1 \in 1 .. Len(todo)
      <3>1. /\ Len(todo') = Len(todo) - 1
            /\ \A i \in 1 .. Len(todo') : todo'[i] = todo[i + 1]
        BY <2>1, HeadTailProperties
      <3> QED
        BY <1>0, <3>1
    <2>3. UNCHANGED <<pc, process, status, usage, attested, normalized, attached, sealed>>
      BY <1>1 DEF Emit
    <2> QED
      BY <2>2, <2>3 DEF PhaseInv
  <1>2. CASE EmitLeak
    <2>1. todo # <<>> /\ Head(todo) = todo[1] /\ Head(todo).leaks /\ 1 \in 1 .. Len(todo)
      BY <1>0, <1>2 DEF EmitLeak
    <2>2. pc = "attest"
      BY <2>1 DEF PhaseInv
    <2>3. pc' = "idle" /\ todo' = <<>> /\ status' = "credential-evidence-refused"
      BY <1>2, <2>2 DEF EmitLeak, Raise, PhaseInv
    <2>4. UNCHANGED <<process, usage, attested, normalized, attached, sealed>>
      BY <1>2 DEF EmitLeak
    <2> QED
      BY <1>0, <2>2, <2>3, <2>4, SetStatuses DEF PhaseInv
  <1>3. CASE Launch
    <2>1. /\ pc = "open" /\ pc' = "construct" /\ process'.end \in Ends /\ status' # Unset
          /\ process'.wall \in Nat
          /\ usage' = [NoUsage EXCEPT !["wall"] = process'.wall]
          /\ \A k \in 1 .. Len(todo') : todo'[k].leaks = FALSE
      BY <1>3, LaunchTells, Zenon DEF Unset
    <2>2. usage'["wall"] = process'.wall /\ \A u \in Units : usage'[u] = 0
      BY <2>1, NoUsageIsNone, RulesAssumption DEF NoUsage, Resources
    <2>3. UNCHANGED <<attested, normalized, attached, sealed>>
      BY <1>3 DEF Launch
    <2>4. process'.end # "none"
      BY <2>1 DEF Ends
    <2> QED
      BY <2>1, <2>2, <2>3, <2>4 DEF PhaseInv
  <1>4. CASE CaptureFails
    BY <1>0, <1>4 DEF CaptureFails, Raise, PhaseInv
  <1>5. CASE Construct
    <2>1. pc = "construct" /\ UNCHANGED <<process, normalized, sealed>> /\ ~sealed
      BY <1>5 DEF Construct, SealInv
    <2>2. CASE process.end = "launch-error" /\ HasUsage
      <3> DEFINE acc == [u \in Units |-> 0]
      <3>1. Attest(acc, "seal") /\ UNCHANGED attached /\ acc \in [Units -> Nat \cup {Unavailable}]
        BY <1>5, <2>2 DEF Construct
      <3> HIDE DEF acc
      <3>2. /\ attested' = TRUE /\ pc' = "seal" /\ usage'["wall"] = usage["wall"]
            /\ status' \in {status} \cup Stopped
            /\ \A k \in 1 .. Len(todo') : todo'[k].leaks = FALSE
        BY <2>1, <3>1, AttestTells DEF PhaseInv
      <3>3. status' # Unset
        BY <2>1, <3>2, SetStatuses DEF PhaseInv
      <3> QED
        BY <2>1, <3>1, <3>2, <3>3 DEF PhaseInv
    <2>3. CASE ~ (process.end = "launch-error" /\ HasUsage)
      BY <1>5, <2>1, <2>3 DEF Construct, PhaseInv
    <2> QED
      BY <2>2, <2>3
  <1>6. CASE Normalized
    <2>1. /\ pc = "attest" /\ normalized' = TRUE /\ Attest(accounting, "idle")
          /\ UNCHANGED <<process, attached, sealed>> /\ ~sealed
          /\ accounting \in [Units -> Nat \cup {Unavailable}]
      BY <1>6 DEF Normalized, SealInv, TypeOK
    <2>2. /\ attested' = TRUE /\ pc' \in {"seal", "idle"} /\ usage'["wall"] = usage["wall"]
          /\ status' \in {status} \cup Stopped
          /\ \A k \in 1 .. Len(todo') : todo'[k].leaks = FALSE
      BY <2>1, AttestTells DEF PhaseInv
    <2>3. status' # Unset
      BY <2>1, <2>2, SetStatuses DEF PhaseInv
    <2> QED
      BY <2>1, <2>2, <2>3 DEF PhaseInv
  <1>7. ASSUME NEW r \in AdapterResults, ClaimRefused(r) PROVE PhaseInv'
    BY <1>7, SetStatuses DEF ClaimRefused, Applying, Idle, Open, PhaseInv
  <1>8. ASSUME NEW r \in AdapterResults, ApplyNormalization(r) PROVE PhaseInv'
    BY <1>8 DEF ApplyNormalization, Applying, Idle, Open, PhaseInv
  <1>9. CASE RequestSeal \/ SealRefused \/ SealRejected
    BY <1>0, <1>9, SetStatuses DEF RequestSeal, SealRefused, SealRejected, Raise, Idle, Open, SealInv, PhaseInv
  <1>10. CASE SealAnnounce
    <2>1. \A k \in 1 .. Len(todo') : todo'[k].leaks = FALSE
      BY <1>10, AnnounceTells
    <2> QED
      BY <1>10, <2>1 DEF SealAnnounce, PhaseInv
  <1>11. CASE HashStream \/ RecordArtifact \/ Sealed
    <2>1. RecordArtifact => pc = "record"
      BY DEF RecordArtifact, ControlInv
    <2> QED
      BY <1>11, <2>1 DEF HashStream, RecordArtifact, Sealed, PhaseInv
  <1>12. CASE HostEnds \/ Ended \/ UNCHANGED vars
    BY <1>0, <1>12 DEF HostEnds, Ended, vars, PhaseInv
  <1>13. CASE \E f \in RawFiles : LeaveFile(f) \/ RemoveFile(f)
    BY <1>13 DEF LeaveFile, RemoveFile, PhaseInv
  <1> QED
    BY <1>1, <1>2, <1>3, <1>4, <1>5, <1>6, <1>7, <1>8, <1>9, <1>10, <1>11, <1>12, <1>13,
       NoFaults, NothingRefused DEF Next


(* The seal has not been reached by a host that died or a call that was    *)
(* lost; what an attempt has told when it is past its beginning.           *)
Live == pc \notin {"lost", "ended"} \/ sealed

Opening == IF Ran THEN 4 ELSE 2

\* A step that adds no event to those an attempt has told or is about to tell.
Stays ==
    /\ Lane' = Lane /\ Count' = Count /\ Len(stream) <= Len(stream')
    /\ UNCHANGED <<process, usage, attested, normalized>>
    /\ Closing' <=> Closing
    /\ Live' => Live
    /\ \/ UNCHANGED status
       \/ status' = "credential-artifact-refused" /\ ~Closing /\ manifest = <<>> /\ manifest' = <<>>
    /\ pc' = "open" => pc = "open"
    /\ pc \in {"open", "construct"} => pc' = pc \/ todo = <<>>
    /\ pc = "attest" => UNCHANGED <<pc, calls>>
    /\ pc = "ended" => pc' = "ended"
    /\ manifest' # <<>> => manifest # <<>> \/ pc = "record"

\* A step that gives up what was still to be appended.
Falls ==
    /\ UNCHANGED <<stream, manifest, process, usage, attested, normalized, sealed>>
    /\ todo' = <<>>
    /\ \/ pc' = "ended" /\ UNCHANGED status
       \/ pc = "construct" /\ pc' = "lost" /\ UNCHANGED status
       \/ pc = "attest" /\ pc' = "idle" /\ status' = "credential-evidence-refused"

Unstarted == Construct /\ process.end = "launch-error" /\ HasUsage

LEMMA LaneSteps ==
    ASSUME Faults = {}, TypeOK, LogsInv, CountInv, ControlInv, SealInv, ListingInv, PhaseInv,
           [Next]_vars
    PROVE  \/ Launch \/ Unstarted \/ Normalized \/ SealAnnounce
           \/ \E r \in AdapterResults : ApplyNormalization(r)
           \/ Stays \/ Falls
  <1> USE DEF diskVars, sessionVars, sealVars, boundVars
  <1>0. Len(stream) \in Nat /\ Len(todo) \in Nat /\ (todo # <<>> => Len(todo) > 0)
    BY LaneIs, EmptySeq, LenProperties DEF LogsInv
  <1>1. ASSUME UNCHANGED <<stream, todo>>
        PROVE  Lane' = Lane /\ Count' = Count /\ Len(stream) <= Len(stream')
    BY <1>0, <1>1, SameLane
  <1>2. CASE Emit
    <2>1. Lane' = Lane /\ Count' = Count /\ Len(stream) <= Len(stream')
      BY <1>0, <1>2, EmitKeepsLane
    <2>2. /\ UNCHANGED <<process, usage, attested, normalized, pc, sealed, status, calls,
                         manifest>>
      BY <1>2 DEF Emit
    <2> QED
      BY <2>1, <2>2 DEF Stays, Closing, Live
  <1>3. CASE EmitLeak
    <2>1. todo # <<>> /\ Head(todo) = todo[1] /\ Head(todo).leaks /\ 1 \in 1 .. Len(todo)
      BY <1>0, <1>3 DEF EmitLeak
    <2>2. pc = "attest" /\ attached
      BY <2>1 DEF PhaseInv
    <2> QED
      BY <1>3, <2>2 DEF EmitLeak, Raise, Falls
  <1>4. CASE CaptureFails
    <2>1. pc = "construct" /\ ~attached
      BY <1>4 DEF CaptureFails, PhaseInv
    <2> QED
      BY <1>4, <2>1 DEF CaptureFails, Raise, Falls
  <1>5. CASE Construct /\ ~ (process.end = "launch-error" /\ HasUsage)
    <2>1. /\ pc = "construct" /\ pc' \in {"seal", "idle"} /\ todo = <<>>
          /\ UNCHANGED <<stream, todo, process, usage, attested, normalized, sealed, status,
                         manifest>>
      BY <1>5 DEF Construct
    <2> QED
      BY <1>1, <2>1 DEF Stays, Closing, Live
  <1>6. ASSUME NEW r \in AdapterResults, ClaimRefused(r) PROVE Stays
    <2>1. /\ pc = "idle" /\ ~sealed /\ status' = "credential-artifact-refused"
          /\ UNCHANGED <<stream, todo, process, usage, attested, normalized, sealed, pc,
                         manifest>>
      BY <1>6 DEF ClaimRefused, Applying, Idle, Open
    <2>2. manifest = <<>>
      BY <2>1 DEF ListingInv
    <2> QED
      BY <1>1, <2>1, <2>2 DEF Stays, Closing, Live
  <1>7. CASE RequestSeal
    <2>1. /\ pc = "idle" /\ ~sealed /\ pc' = "seal"
          /\ UNCHANGED <<stream, todo, process, usage, attested, normalized, sealed, status,
                         manifest>>
      BY <1>7 DEF RequestSeal, Idle, Open
    <2> QED
      BY <1>1, <2>1 DEF Stays, Closing, Live
  <1>8. CASE SealRefused \/ SealRejected
    <2>1. /\ pc = "seal" /\ pc' \in {"idle", "lost"} /\ ~sealed /\ todo = <<>>
          /\ status' \in {status, "credential-artifact-refused"}
          /\ UNCHANGED <<stream, todo, process, usage, attested, normalized, sealed, manifest>>
      BY <1>8 DEF SealRefused, SealRejected, Raise, SealInv
    <2>2. manifest = <<>>
      BY <2>1 DEF ListingInv
    <2> QED
      BY <1>1, <2>1, <2>2 DEF Stays, Closing, Live
  <1>9. CASE HashStream \/ RecordArtifact \/ Sealed
    <2>1. /\ pc \in {"hash", "record"}
          /\ UNCHANGED <<stream, todo, process, usage, attested, normalized, status>>
          /\ \/ pc' = "record" /\ UNCHANGED sealed
             \/ sealed' = TRUE
          /\ pc' \in {"record", "idle", "lost"}
          /\ manifest' = manifest \/ pc = "record"
      BY <1>9 DEF HashStream, RecordArtifact, Sealed, ControlInv
    <2> QED
      BY <1>1, <2>1 DEF Stays, Closing, Live
  <1>10. CASE HostEnds
    BY <1>10 DEF HostEnds, Falls
  <1>11. CASE Ended \/ UNCHANGED vars \/ \E f \in RawFiles : LeaveFile(f) \/ RemoveFile(f)
    <2>1. /\ UNCHANGED <<stream, todo, process, usage, attested, normalized, sealed, pc, status,
                         manifest, calls>>
      BY <1>11 DEF Ended, vars, LeaveFile, RemoveFile
    <2> QED
      BY <1>1, <2>1 DEF Stays, Closing, Live
  <1> QED
    BY <1>2, <1>3, <1>4, <1>5, <1>6, <1>7, <1>8, <1>9, <1>10, <1>11, NoFaults, NothingRefused
       DEF Next, Unstarted


-----------------------------------------------------------------------------
(* The lifecycle an attempt tells, in the order the validator wants it.    *)

Lifecycle ==
    \A i \in 1 .. Count :
        /\ (Lane[i].type = "run_started") <=> (i = 1)
        /\ (Lane[i].type = "preflight_completed") <=> (i = 2)
        /\ (Lane[i].type = "command_started") <=> (Ran /\ i = 3)
        /\ (Lane[i].type = "command_completed") <=> (Ran /\ i = 4)
        /\ (Lane[i].type = "run_stopped") <=> (Closing /\ i = Count)

(* An attempt that goes on has told its beginning and nothing of it twice; *)
(* it tells that it stopped once, with the status it has, and records come *)
(* after that.                                                             *)
LifeInv ==
    /\ Live => /\ Count >= Opening /\ Lifecycle
               /\ pc = "open" => Count = 2
               /\ pc \notin {"open", "construct"} => Len(stream) >= Opening
               /\ Closing => Lane[Count].status = status
    /\ manifest # <<>> =>
         Count > 0 /\ Lane[Count].type = "run_stopped" /\ Lane[Count].status = status

\* What a call tells between the command and the seal is not part of the lifecycle.
LEMMA LifeAdds ==
    ASSUME LogsInv, LogsInv', LifeInv, ListingInv, ~sealed, ~sealed',
           UNCHANGED <<stream, process, manifest>>, todo = <<>>,
           pc \in {"construct", "attest", "idle"}, pc' \in {"attest", "seal", "idle"},
           \A k \in 1 .. Len(todo') :
             todo'[k].type \in {"error", "warning", "observation", "budget_update"}
    PROVE  LifeInv'
  <1>1. Live /\ ~Closing /\ ~Closing' /\ manifest' = <<>>
    BY DEF Live, Closing, ListingInv
  <1>2. /\ Count = Len(stream) /\ Count' = Count + Len(todo')
        /\ Count \in Nat /\ Len(todo') \in Nat
        /\ \A i \in 1 .. Count' :
             \/ i \in 1 .. Count /\ Lane'[i] = Lane[i]
             \/ i - Count \in 1 .. Len(todo') /\ Lane'[i] = Bare(todo'[i - Count])
                  /\ todo'[i - Count] \in Events
    BY LaneGrows
  <1>3. Count >= Opening /\ Lifecycle /\ Opening \in {2, 4} /\ (Ran => Opening = 4)
    BY <1>1 DEF LifeInv, Opening
  <1>4. ASSUME NEW i \in 1 .. Count'
        PROVE  \/ i \in 1 .. Count /\ Lane'[i] = Lane[i]
               \/ /\ i > Count
                  /\ Lane'[i].type \in {"error", "warning", "observation", "budget_update"}
    <2>1. CASE i - Count \in 1 .. Len(todo') /\ Lane'[i] = Bare(todo'[i - Count])
                 /\ todo'[i - Count] \in Events
      <3>1. i > Count
        BY <1>2, <2>1
      <3>2. Lane'[i].type = todo'[i - Count].type
        BY <2>1, BareKeeps
      <3> QED
        BY <2>1, <3>1, <3>2
    <2> QED
      BY <1>2, <2>1
  <1>5. ASSUME NEW i \in 1 .. Count'
        PROVE  /\ (Lane'[i].type = "run_started") <=> (i = 1)
               /\ (Lane'[i].type = "preflight_completed") <=> (i = 2)
               /\ (Lane'[i].type = "command_started") <=> (Ran /\ i = 3)
               /\ (Lane'[i].type = "command_completed") <=> (Ran /\ i = 4)
               /\ Lane'[i].type # "run_stopped"
    <2>1. CASE i \in 1 .. Count /\ Lane'[i] = Lane[i]
      BY <1>1, <1>3, <2>1 DEF Lifecycle
    <2>2. CASE /\ i > Count
               /\ Lane'[i].type \in {"error", "warning", "observation", "budget_update"}
      <3>1. i # 1 /\ i # 2 /\ (Ran => i # 3 /\ i # 4)
        BY <1>2, <1>3, <2>2
      <3> QED
        BY <2>2, <3>1
    <2> QED
      BY <1>4, <2>1, <2>2
  <1>6. Lifecycle'
    BY <1>1, <1>5 DEF Lifecycle, Ran
  <1>7. Count' >= Opening' /\ Len(stream') >= Opening'
    BY <1>2, <1>3 DEF Opening, Ran
  <1> QED
    BY <1>1, <1>6, <1>7 DEF LifeInv

LEMMA LifeHolds ==
    ASSUME Faults = {}, TypeOK, LogsInv, LogsInv', CountInv, ControlInv, SealInv, ListingInv,
           PhaseInv, LifeInv, [Next]_vars
    PROVE  LifeInv'
  <1>0. Len(stream) \in Nat /\ Count \in Nat /\ Opening \in {2, 4} /\ (Ran => Opening = 4)
    BY LaneIs DEF Opening
  <1>1. CASE Stays
    <2>1. /\ Lane' = Lane /\ Count' = Count /\ Len(stream) <= Len(stream')
          /\ process' = process /\ (Closing' <=> Closing) /\ (Live' => Live)
          /\ Len(stream') \in Nat
      BY <1>1, LenProperties DEF Stays, LogsInv
    <2>2. Opening' = Opening /\ (Ran' <=> Ran)
      BY <2>1 DEF Opening, Ran
    <2>3. Lifecycle => Lifecycle'
      BY <2>1, <2>2 DEF Lifecycle
    <2>4. ASSUME Live'
          PROVE  /\ Count' >= Opening' /\ Lifecycle'
                 /\ pc' = "open" => Count' = 2
                 /\ pc' \notin {"open", "construct"} => Len(stream') >= Opening'
                 /\ Closing' => Lane'[Count'].status = status'
      <3>1. /\ Count >= Opening /\ Lifecycle
            /\ pc = "open" => Count = 2
            /\ pc \notin {"open", "construct"} => Len(stream) >= Opening
            /\ Closing => Lane[Count].status = status
        BY <2>1, <2>4 DEF LifeInv
      <3>2. todo = <<>> => Count = Len(stream)
        BY <1>0, EmptySeq DEF Count
      <3>3. pc' \notin {"open", "construct"} => Len(stream) >= Opening
        BY <1>1, <3>1, <3>2 DEF Stays
      <3>4. Closing' => Lane'[Count'].status = status'
        BY <1>1, <2>1, <3>1 DEF Stays
      <3>5. pc' = "open" => Count' = 2
        BY <1>1, <2>1, <3>1 DEF Stays
      <3> QED
        BY <1>0, <2>1, <2>2, <2>3, <3>1, <3>3, <3>4, <3>5
    <2>5. ASSUME manifest' # <<>>
          PROVE  Count' > 0 /\ Lane'[Count'].type = "run_stopped" /\ Lane'[Count'].status = status'
      <3>1. status' = status \/ (~Closing /\ manifest = <<>> /\ manifest' = <<>>)
        BY <1>1 DEF Stays
      <3>2. CASE manifest # <<>>
        BY <2>1, <2>5, <3>1, <3>2 DEF LifeInv
      <3>3. CASE pc = "record"
        <4>1. Closing /\ Live
          BY <3>3 DEF Closing, Live
        <4>2. Count >= Opening /\ Lifecycle /\ Lane[Count].status = status
          BY <4>1 DEF LifeInv
        <4>3. Count \in 1 .. Count
          BY <1>0, <4>2
        <4>4. Lane[Count].type = "run_stopped"
          BY <4>1, <4>2, <4>3 DEF Lifecycle
        <4> QED
          BY <1>0, <2>1, <3>1, <4>1, <4>2, <4>4
      <3> QED
        BY <1>1, <2>5, <3>2, <3>3 DEF Stays
    <2> QED
      BY <2>4, <2>5 DEF LifeInv
  <1>2. CASE Falls
    <2>1. /\ UNCHANGED <<stream, process, manifest, sealed>> /\ todo' = <<>>
          /\ Count' = Len(stream) /\ Count' <= Count
          /\ \A i \in 1 .. Count' : i \in 1 .. Count /\ Lane'[i] = Lane[i]
      BY <1>2, LaneDrops DEF Falls
    <2>2. (Ran' <=> Ran) /\ Opening' = Opening
      BY <2>1 DEF Ran, Opening
    <2>3. CASE pc = "attest" /\ pc' = "idle"
      <3>1. ~sealed /\ Live /\ ~Closing /\ ~Closing' /\ manifest' = <<>>
        BY <2>1, <2>3 DEF SealInv, Live, Closing, ListingInv
      <3>2. Lifecycle /\ Len(stream) >= Opening
        BY <2>3, <3>1 DEF LifeInv
      <3>3. Lifecycle'
        BY <2>1, <2>2, <3>1, <3>2 DEF Lifecycle
      <3> QED
        BY <2>1, <2>2, <2>3, <3>1, <3>2, <3>3 DEF LifeInv
    <2>4. CASE pc' \in {"lost", "ended"} /\ UNCHANGED status
      <3>1. CASE todo = <<>>
        <4>1. Lane' = Lane /\ Count' = Count
          BY <2>1, <3>1, SameLane
        <4>2. Live' => Live /\ sealed
          BY <2>1, <2>4 DEF Live
        <4>3. sealed => (Closing /\ Closing' /\ pc \in {"idle", "lost", "ended"})
          BY <2>1 DEF Closing, SealInv
        <4>4. Live' => Lifecycle'
          BY <2>2, <4>1, <4>2, <4>3 DEF Lifecycle, LifeInv
        <4> QED
          BY <2>1, <2>2, <2>4, <4>1, <4>2, <4>3, <4>4 DEF LifeInv
      <3>2. CASE todo # <<>>
        <4>1. ~sealed /\ pc \notin {"record", "ended"}
          BY <3>2 DEF SealInv, ControlInv, ListingInv
        <4>2. manifest' = <<>> /\ ~Live'
          BY <2>1, <2>4, <4>1 DEF ListingInv, Live
        <4> QED
          BY <4>2 DEF LifeInv
      <3> QED
        BY <3>1, <3>2
    <2> QED
      BY <1>2, <2>3, <2>4 DEF Falls
  <1>3. CASE Launch
    <2>1. /\ todo = <<>> /\ pc = "open" /\ pc' = "construct" /\ process'.end \in Ends
          /\ Len(todo') \in Nat /\ (Ran' => Len(todo') >= 2)
          /\ \A k \in 1 .. Len(todo') :
               /\ todo'[k].type \in {"command_started", "command_completed", "error",
                                     "budget_update"}
               /\ (todo'[k].type = "command_started") <=> (Ran' /\ k = 1)
               /\ (todo'[k].type = "command_completed") <=> (Ran' /\ k = 2)
      BY <1>3, LaunchTells
    <2>2. UNCHANGED <<stream, manifest, sealed>> /\ ~sealed /\ ~Ran
      BY <1>3, <2>1 DEF Launch, diskVars, sealVars, SealInv, PhaseInv, Ran
    <2>3. Live /\ ~Closing /\ ~Closing' /\ manifest' = <<>>
      BY <2>1, <2>2 DEF Live, Closing, ListingInv
    <2>4. /\ Count = 2 /\ Lane[1].type = "run_started" /\ Lane[2].type = "preflight_completed"
      <3>1. Count = 2 /\ Lifecycle
        BY <2>1, <2>3 DEF LifeInv
      <3> QED
        BY <3>1 DEF Lifecycle
    <2>5. /\ Count' = 2 + Len(todo')
          /\ \A i \in 1 .. Count' :
               \/ i \in 1 .. 2 /\ Lane'[i] = Lane[i]
               \/ i - 2 \in 1 .. Len(todo') /\ Lane'[i] = Bare(todo'[i - 2])
                    /\ todo'[i - 2] \in Events
      BY <2>1, <2>2, <2>4, LaneGrows
    <2>6. ASSUME NEW i \in 1 .. Count'
          PROVE  /\ (Lane'[i].type = "run_started") <=> (i = 1)
                 /\ (Lane'[i].type = "preflight_completed") <=> (i = 2)
                 /\ (Lane'[i].type = "command_started") <=> (Ran' /\ i = 3)
                 /\ (Lane'[i].type = "command_completed") <=> (Ran' /\ i = 4)
                 /\ Lane'[i].type # "run_stopped"
      <3>1. CASE i \in 1 .. 2 /\ Lane'[i] = Lane[i]
        <4>1. i = 1 \/ i = 2
          BY <3>1
        <4> QED
          BY <2>4, <3>1, <4>1
      <3>2. CASE i - 2 \in 1 .. Len(todo') /\ Lane'[i] = Bare(todo'[i - 2])
                   /\ todo'[i - 2] \in Events
        <4> DEFINE k == i - 2
        <4>1. Lane'[i].type = todo'[k].type
          BY <3>2, BareKeeps
        <4>2. /\ k \in 1 .. Len(todo') /\ i # 1 /\ i # 2
              /\ (i = 3) <=> (k = 1)
              /\ (i = 4) <=> (k = 2)
          BY <2>1, <3>2
        <4> HIDE DEF k
        <4> QED
          BY <2>1, <4>1, <4>2
      <3> QED
        BY <2>5, <3>1, <3>2
    <2>7. Lifecycle'
      BY <2>3, <2>6 DEF Lifecycle
    <2>8. Count' >= Opening'
      BY <2>1, <2>5 DEF Opening
    <2> QED
      BY <2>1, <2>3, <2>7, <2>8 DEF LifeInv
  <1>4. CASE Unstarted
    <2> DEFINE acc == [u \in Units |-> 0]
    <2>1. /\ pc = "construct" /\ todo = <<>> /\ Attest(acc, "seal")
          /\ acc \in [Units -> Nat \cup {Unavailable}]
          /\ UNCHANGED <<stream, process, manifest, sealed>> /\ ~sealed
      BY <1>4 DEF Unstarted, Construct, diskVars, sealVars, SealInv
    <2> HIDE DEF acc
    <2>2. /\ pc' = "seal"
          /\ \A k \in 1 .. Len(todo') : todo'[k].type \in {"error", "warning", "budget_update"}
      BY <2>1, AttestTells DEF PhaseInv
    <2> QED
      BY <2>1, <2>2, LifeAdds
  <1>5. CASE Normalized
    <2>1. /\ pc = "attest" /\ todo = <<>> /\ Attest(accounting, "idle")
          /\ accounting \in [Units -> Nat \cup {Unavailable}]
          /\ UNCHANGED <<stream, process, manifest, sealed>> /\ ~sealed
      BY <1>5 DEF Normalized, diskVars, sealVars, SealInv, TypeOK
    <2>2. /\ pc' \in {"seal", "idle"}
          /\ \A k \in 1 .. Len(todo') : todo'[k].type \in {"error", "warning", "budget_update"}
      BY <2>1, AttestTells DEF PhaseInv
    <2> QED
      BY <2>1, <2>2, LifeAdds
  <1>6. ASSUME NEW r \in AdapterResults, ApplyNormalization(r) PROVE LifeInv'
    <2>1. /\ pc = "idle" /\ todo = <<>> /\ pc' = "attest"
          /\ UNCHANGED <<stream, process, manifest, sealed>> /\ ~sealed
      BY <1>6 DEF ApplyNormalization, Applying, Idle, Open, diskVars, sealVars
    <2>2. \A k \in 1 .. Len(todo') : todo'[k].type \in {"error", "warning", "observation"}
      BY <1>6, AdapterTells
    <2> QED
      BY <2>1, <2>2, LifeAdds
  <1>7. CASE SealAnnounce
    <2>1. /\ pc = "seal" /\ todo = <<>> /\ pc' = "hash"
          /\ UNCHANGED <<stream, process, manifest, sealed, status>> /\ ~sealed
      BY <1>7 DEF SealAnnounce, diskVars, sessionVars, sealVars, SealInv
    <2>2. /\ Len(todo') \in Nat /\ Len(todo') > 0
          /\ \A k \in 1 .. Len(todo') :
               /\ todo'[k].type \in {"artifact_recorded", "run_stopped"}
               /\ (todo'[k].type = "run_stopped") <=> (k = Len(todo'))
          /\ todo'[Len(todo')].status = status
      BY <1>7, AnnounceTells
    <2>3. Live /\ ~Closing /\ Closing' /\ manifest' = <<>>
      BY <2>1 DEF Live, Closing, ListingInv
    <2>4. Count >= Opening /\ Lifecycle
      BY <2>3 DEF LifeInv
    <2>5. /\ Count = Len(stream) /\ Count' = Count + Len(todo')
          /\ \A i \in 1 .. Count' :
               \/ i \in 1 .. Count /\ Lane'[i] = Lane[i]
               \/ i - Count \in 1 .. Len(todo') /\ Lane'[i] = Bare(todo'[i - Count])
                    /\ todo'[i - Count] \in Events
          /\ \A k \in 1 .. Len(todo') :
               Count + k \in 1 .. Count' /\ Lane'[Count + k] = Bare(todo'[k])
                 /\ todo'[k] \in Events
      BY <2>1, LaneGrows
    <2>6. (Ran' <=> Ran) /\ Opening' = Opening
      BY <2>1 DEF Ran, Opening
    <2>7. ASSUME NEW i \in 1 .. Count'
          PROVE  /\ (Lane'[i].type = "run_started") <=> (i = 1)
                 /\ (Lane'[i].type = "preflight_completed") <=> (i = 2)
                 /\ (Lane'[i].type = "command_started") <=> (Ran /\ i = 3)
                 /\ (Lane'[i].type = "command_completed") <=> (Ran /\ i = 4)
                 /\ (Lane'[i].type = "run_stopped") <=> (i = Count')
      <3>1. CASE i \in 1 .. Count /\ Lane'[i] = Lane[i]
        <4>1. i # Count'
          BY <1>0, <2>2, <2>5, <3>1
        <4> QED
          BY <2>3, <2>4, <3>1, <4>1 DEF Lifecycle
      <3>2. CASE i - Count \in 1 .. Len(todo') /\ Lane'[i] = Bare(todo'[i - Count])
                   /\ todo'[i - Count] \in Events
        <4> DEFINE k == i - Count
        <4>1. Lane'[i].type = todo'[k].type
          BY <3>2, BareKeeps
        <4>2. /\ k \in 1 .. Len(todo') /\ i # 1 /\ i # 2 /\ (Ran => i # 3 /\ i # 4)
              /\ (i = Count') <=> (k = Len(todo'))
          BY <1>0, <2>2, <2>4, <2>5, <3>2
        <4> HIDE DEF k
        <4> QED
          BY <2>2, <4>1, <4>2
      <3> QED
        BY <2>5, <3>1, <3>2
    <2>8. Lifecycle'
      BY <2>3, <2>6, <2>7 DEF Lifecycle
    <2>9. Lane'[Count'].status = status'
      <3>1. Len(todo') \in 1 .. Len(todo')
        BY <2>2
      <3>2. Lane'[Count'] = Bare(todo'[Len(todo')]) /\ todo'[Len(todo')] \in Events
        BY <2>5, <3>1
      <3> QED
        BY <2>1, <2>2, <3>2, BareKeeps
    <2>10. Count' >= Opening' /\ Len(stream') >= Opening'
      BY <1>0, <2>1, <2>2, <2>4, <2>5, <2>6
    <2> QED
      BY <2>1, <2>3, <2>8, <2>9, <2>10 DEF LifeInv
  <1> QED
    BY <1>1, <1>2, <1>3, <1>4, <1>5, <1>6, <1>7, LaneSteps


-----------------------------------------------------------------------------
(* What the budget updates of an attempt say.                              *)

Refusal == "credential-artifact-refused"

(* The use an update states is the use that is charged; the one update     *)
(* that attests states all of it, coherently, and is among the events of   *)
(* every attempt that attested and goes on.                                *)
BudgetInv ==
    /\ \A i \in 1 .. Count : Lane[i].accounting # <<>> =>
         /\ attested /\ Lane[i].type = "budget_update" /\ Lane[i].usage = usage
         /\ \A u \in Units : CoherentUnit(u, Lane[i].accounting[u], usage[u])
    /\ \A i \in 1 .. Count : Lane[i].type = "budget_update" =>
         \/ Lane[i].usage = [wall |-> process.wall]
         \/ attested /\ Lane[i].usage = usage
    /\ \A i \in 1 .. Count, j \in 1 .. Count :
         Lane[i].accounting # <<>> /\ Lane[j].accounting # <<>> => i = j
    /\ attested /\ HasUsage /\ Live => \E i \in 1 .. Count : Lane[i].accounting # <<>>
    /\ attested /\ (\E u \in Units : usage[u] > Projection[u]) =>
         status \in {"resource-projection-exceeded", Refusal}

\* A call that states no use leaves what is stated of it.
LEMMA BudgetAdds ==
    ASSUME LogsInv, LogsInv', BudgetInv, UNCHANGED <<stream, process, usage, attested, status>>,
           todo = <<>>, Live' => Live,
           \A k \in 1 .. Len(todo') :
             todo'[k].accounting = <<>> /\ todo'[k].type # "budget_update"
    PROVE  BudgetInv'
  <1>1. /\ \A i \in 1 .. Count' :
             \/ i \in 1 .. Count /\ Lane'[i] = Lane[i]
             \/ i - Count \in 1 .. Len(todo') /\ Lane'[i] = Bare(todo'[i - Count])
                  /\ todo'[i - Count] \in Events
        /\ \A i \in 1 .. Count : i \in 1 .. Count' /\ Lane'[i] = Lane[i]
    BY LaneGrows
  <1>2. ASSUME NEW i \in 1 .. Count'
        PROVE  \/ i \in 1 .. Count /\ Lane'[i] = Lane[i]
               \/ Lane'[i].accounting = <<>> /\ Lane'[i].type # "budget_update"
    <2>1. CASE i - Count \in 1 .. Len(todo') /\ Lane'[i] = Bare(todo'[i - Count])
                 /\ todo'[i - Count] \in Events
      BY <2>1, BareKeeps
    <2> QED
      BY <1>1, <2>1
  <1>3. /\ \A i \in 1 .. Count' : Lane'[i].accounting # <<>> =>
             /\ attested' /\ Lane'[i].type = "budget_update" /\ Lane'[i].usage = usage'
             /\ \A u \in Units : CoherentUnit(u, Lane'[i].accounting[u], usage'[u])
        /\ \A i \in 1 .. Count' : Lane'[i].type = "budget_update" =>
             \/ Lane'[i].usage = [wall |-> process'.wall]
             \/ attested' /\ Lane'[i].usage = usage'
    BY <1>2 DEF BudgetInv
  <1>4. \A i \in 1 .. Count', j \in 1 .. Count' :
          Lane'[i].accounting # <<>> /\ Lane'[j].accounting # <<>> => i = j
    BY <1>2 DEF BudgetInv
  <1>5. attested' /\ HasUsage /\ Live' => \E i \in 1 .. Count' : Lane'[i].accounting # <<>>
    BY <1>1 DEF BudgetInv
  <1>6. attested' /\ (\E u \in Units : usage'[u] > Projection[u]) =>
          status' \in {"resource-projection-exceeded", Refusal}
    BY DEF BudgetInv
  <1>7. HasUsage' = HasUsage
    BY DEF HasUsage
  <1> QED
    BY <1>3, <1>4, <1>5, <1>6, <1>7 DEF BudgetInv, CoherentUnit

\* An attestation states what was charged before any other statement of it.
LEMMA BudgetAttests ==
    ASSUME TypeOK, LogsInv, LogsInv', PhaseInv, BudgetInv, UNCHANGED <<stream, process>>,
           todo = <<>>, ~attested, NEW acc \in [Units -> Nat \cup {Unavailable}], NEW call,
           Attest(acc, call)
    PROVE  BudgetInv'
  <1>1. /\ attested' = TRUE
        /\ (\E u \in Units : usage'[u] > Projection[u]) =>
             status' = "resource-projection-exceeded"
        /\ \A k \in 1 .. Len(todo') :
             /\ todo'[k].type # "budget_update" => todo'[k].accounting = <<>>
             /\ todo'[k].type = "budget_update" =>
                  /\ todo'[k].usage = usage' /\ DOMAIN todo'[k].accounting = Units
                  /\ \A u \in Units : CoherentUnit(u, todo'[k].accounting[u], usage'[u])
        /\ \E k \in 1 .. Len(todo') : todo'[k].type = "budget_update"
        /\ \A k, l \in 1 .. Len(todo') :
             todo'[k].type = "budget_update" /\ todo'[l].type = "budget_update" => k = l
    BY AttestTells DEF PhaseInv
  <1>2. /\ Count \in Nat
        /\ \A i \in 1 .. Count' :
             \/ i \in 1 .. Count /\ Lane'[i] = Lane[i]
             \/ i - Count \in 1 .. Len(todo') /\ Lane'[i] = Bare(todo'[i - Count])
                  /\ todo'[i - Count] \in Events
        /\ \A k \in 1 .. Len(todo') :
             Count + k \in 1 .. Count' /\ Lane'[Count + k] = Bare(todo'[k])
               /\ todo'[k] \in Events
    BY LaneGrows
  <1>3. \A i \in 1 .. Count :
          /\ Lane[i].accounting = <<>>
          /\ Lane[i].type = "budget_update" => Lane[i].usage = [wall |-> process.wall]
    BY DEF BudgetInv
  <1>4. ASSUME NEW i \in 1 .. Count', Lane'[i].accounting # <<>>
        PROVE  /\ i - Count \in 1 .. Len(todo') /\ todo'[i - Count].type = "budget_update"
               /\ Lane'[i].type = "budget_update" /\ Lane'[i].usage = usage'
               /\ \A u \in Units : CoherentUnit(u, Lane'[i].accounting[u], usage'[u])
    <2> DEFINE k == i - Count
    <2>1. k \in 1 .. Len(todo') /\ Lane'[i] = Bare(todo'[k]) /\ todo'[k] \in Events
      BY <1>2, <1>3, <1>4
    <2>2. /\ Lane'[i].type = todo'[k].type /\ Lane'[i].usage = todo'[k].usage
          /\ Lane'[i].accounting = todo'[k].accounting
      BY <2>1, BareKeeps
    <2> HIDE DEF k
    <2>3. todo'[k].type = "budget_update"
      BY <1>1, <1>4, <2>1, <2>2
    <2>4. /\ Lane'[i].type = "budget_update" /\ Lane'[i].usage = usage'
          /\ \A u \in Units : CoherentUnit(u, Lane'[i].accounting[u], usage'[u])
      BY <1>1, <2>1, <2>2, <2>3
    <2> QED
      BY <2>1, <2>3, <2>4 DEF k
  <1>5. ASSUME NEW i \in 1 .. Count', Lane'[i].type = "budget_update"
        PROVE  Lane'[i].usage = [wall |-> process'.wall] \/ Lane'[i].usage = usage'
    <2>1. CASE i \in 1 .. Count /\ Lane'[i] = Lane[i]
      BY <1>3, <1>5, <2>1
    <2>2. CASE i - Count \in 1 .. Len(todo') /\ Lane'[i] = Bare(todo'[i - Count])
                 /\ todo'[i - Count] \in Events
      BY <1>1, <1>5, <2>2, BareKeeps
    <2> QED
      BY <1>2, <2>1, <2>2
  <1>6. ASSUME NEW i \in 1 .. Count', NEW j \in 1 .. Count',
               Lane'[i].accounting # <<>>, Lane'[j].accounting # <<>>
        PROVE  i = j
    <2>1. i - Count = j - Count
      BY <1>1, <1>4, <1>6
    <2> QED
      BY <1>2, <2>1
  <1>7. ASSUME HasUsage PROVE \E i \in 1 .. Count' : Lane'[i].accounting # <<>>
    <2>1. PICK k \in 1 .. Len(todo') : todo'[k].type = "budget_update"
      BY <1>1
    <2>2. DOMAIN todo'[k].accounting = Units /\ Units # {}
      BY <1>1, <1>7, <2>1 DEF HasUsage
    <2>3. todo'[k].accounting # <<>>
      <3>1. DOMAIN <<>> = {}
        OBVIOUS
      <3> QED
        BY <2>2, <3>1
    <2>4. Count + k \in 1 .. Count' /\ Lane'[Count + k].accounting = todo'[k].accounting
      BY <1>2, BareKeeps
    <2> QED
      BY <2>3, <2>4
  <1>8. HasUsage' = HasUsage
    BY DEF HasUsage
  <1> QED
    BY <1>1, <1>4, <1>5, <1>6, <1>7, <1>8 DEF BudgetInv, CoherentUnit

LEMMA BudgetHolds ==
    ASSUME Faults = {}, TypeOK, LogsInv, LogsInv', CountInv, ControlInv, SealInv, ListingInv,
           PhaseInv, LifeInv, BudgetInv, [Next]_vars
    PROVE  BudgetInv'
  <1>0. HasUsage' = HasUsage
    BY DEF HasUsage
  <1>1. CASE Stays
    <2>1. /\ Lane' = Lane /\ Count' = Count /\ UNCHANGED <<process, usage, attested>>
          /\ (Live' => Live) /\ status' \in {status, Refusal}
      BY <1>1 DEF Stays, Refusal
    <2> QED
      BY <1>0, <2>1 DEF BudgetInv, CoherentUnit
  <1>2. CASE Falls
    <2>1. /\ UNCHANGED <<stream, process, usage, attested, sealed>> /\ todo' = <<>>
          /\ \A i \in 1 .. Count' : i \in 1 .. Count /\ Lane'[i] = Lane[i]
      BY <1>2, LaneDrops DEF Falls
    <2>2. status' = status \/ ~attested'
      BY <1>2, <2>1 DEF Falls, PhaseInv
    <2>3. attested' /\ HasUsage /\ Live' => \E i \in 1 .. Count' : Lane'[i].accounting # <<>>
      <3>1. CASE sealed
        <4>1. Lane' = Lane /\ Count' = Count /\ Live
          BY <2>1, <3>1, SameLane DEF SealInv, Live
        <4> QED
          BY <2>1, <4>1 DEF BudgetInv
      <3>2. CASE ~sealed
        <4>1. ~attested' \/ ~Live'
          BY <1>2, <2>1, <3>2 DEF Falls, PhaseInv, Live
        <4> QED
          BY <4>1
      <3> QED
        BY <3>1, <3>2
    <2> QED
      BY <1>0, <2>1, <2>2, <2>3 DEF BudgetInv, CoherentUnit
  <1>3. CASE Launch
    <2>1. /\ todo = <<>> /\ pc = "open"
          /\ \A k \in 1 .. Len(todo') :
               /\ todo'[k].accounting = <<>>
               /\ todo'[k].type = "budget_update" => todo'[k].usage = [wall |-> process'.wall]
      BY <1>3, LaunchTells
    <2>2. UNCHANGED <<stream, attested, sealed>> /\ ~attested
      BY <1>3, <2>1 DEF Launch, diskVars, sealVars, PhaseInv
    <2>3. /\ \A i \in 1 .. Count' :
               \/ i \in 1 .. Count /\ Lane'[i] = Lane[i]
               \/ i - Count \in 1 .. Len(todo') /\ Lane'[i] = Bare(todo'[i - Count])
                    /\ todo'[i - Count] \in Events
      BY <2>1, <2>2, LaneGrows
    <2>4. ASSUME NEW i \in 1 .. Count
          PROVE  Lane[i].accounting = <<>> /\ Lane[i].type # "budget_update"
      <3>1. Count = 2 /\ Lifecycle
        BY <2>1 DEF LifeInv, Live
      <3>2. i = 1 \/ i = 2
        BY <3>1
      <3> QED
        BY <2>2, <3>1, <3>2 DEF BudgetInv, Lifecycle
    <2>5. ASSUME NEW i \in 1 .. Count'
          PROVE  /\ Lane'[i].accounting = <<>>
                 /\ Lane'[i].type = "budget_update" => Lane'[i].usage = [wall |-> process'.wall]
      <3>1. CASE i - Count \in 1 .. Len(todo') /\ Lane'[i] = Bare(todo'[i - Count])
                   /\ todo'[i - Count] \in Events
        <4> DEFINE k == i - Count
        <4>1. /\ Lane'[i].type = todo'[k].type /\ Lane'[i].usage = todo'[k].usage
              /\ Lane'[i].accounting = todo'[k].accounting /\ k \in 1 .. Len(todo')
          BY <3>1, BareKeeps
        <4> HIDE DEF k
        <4> QED
          BY <2>1, <4>1
      <3> QED
        BY <2>3, <2>4, <3>1
    <2> QED
      BY <2>2, <2>5 DEF BudgetInv
  <1>4. CASE Unstarted
    <2> DEFINE acc == [u \in Units |-> 0]
    <2>1. /\ pc = "construct" /\ todo = <<>> /\ Attest(acc, "seal")
          /\ acc \in [Units -> Nat \cup {Unavailable}]
          /\ UNCHANGED <<stream, process>>
      BY <1>4 DEF Unstarted, Construct, diskVars
    <2> HIDE DEF acc
    <2>2. ~attested
      BY <2>1 DEF PhaseInv
    <2> QED
      BY <2>1, <2>2, BudgetAttests
  <1>5. CASE Normalized
    <2>1. /\ pc = "attest" /\ todo = <<>> /\ Attest(accounting, "idle")
          /\ accounting \in [Units -> Nat \cup {Unavailable}]
          /\ UNCHANGED <<stream, process>>
      BY <1>5 DEF Normalized, diskVars, TypeOK
    <2>2. ~attested
      BY <2>1 DEF PhaseInv
    <2> QED
      BY <2>1, <2>2, BudgetAttests
  <1>6. ASSUME NEW r \in AdapterResults, ApplyNormalization(r) PROVE BudgetInv'
    <2>1. /\ pc = "idle" /\ todo = <<>>
          /\ UNCHANGED <<stream, process, usage, attested, status>>
      BY <1>6 DEF ApplyNormalization, Applying, Idle, diskVars
    <2>2. \A k \in 1 .. Len(todo') :
            todo'[k].accounting = <<>> /\ todo'[k].type # "budget_update"
      BY <1>6, AdapterTells
    <2>3. Live
      BY <2>1 DEF Live
    <2> QED
      BY <2>1, <2>2, <2>3, BudgetAdds
  <1>7. CASE SealAnnounce
    <2>1. /\ pc = "seal" /\ todo = <<>>
          /\ UNCHANGED <<stream, process, usage, attested, status>>
      BY <1>7 DEF SealAnnounce, diskVars, sessionVars
    <2>2. \A k \in 1 .. Len(todo') :
            todo'[k].accounting = <<>> /\ todo'[k].type # "budget_update"
      BY <1>7, AnnounceTells
    <2>3. Live
      BY <2>1 DEF Live
    <2> QED
      BY <2>1, <2>2, <2>3, BudgetAdds
  <1> QED
    BY <1>1, <1>2, <1>3, <1>4, <1>5, <1>6, <1>7, LaneSteps


-----------------------------------------------------------------------------
(* What a completed attempt tells.                                         *)

(* While the attempt would still be reported as completed, nothing went    *)
(* wrong but what an adapter gave notice of, and all that adapters told    *)
(* was told by one call: the one that is appending it, or the one that was *)
(* normalized.                                                             *)
CleanInv ==
    /\ pc = "open" => \A i \in 1 .. Count : Lane[i].call = 0
    /\ status = "completed" =>
        /\ process.end = "zero" /\ process.wall <= Budget["wall"]
        /\ \A i \in 1 .. Count : Lane[i].type = "error" => Lane[i].call # 0
        /\ \A i \in 1 .. Count : Lane[i].call # 0 =>
             normalized \/ pc = "ended" \/ (pc = "attest" /\ Lane[i].call = calls)
        /\ \A i \in 1 .. Count, j \in 1 .. Count :
             Lane[i].call # 0 /\ Lane[j].call # 0 => Lane[i].call = Lane[j].call

LEMMA CleanHolds ==
    ASSUME Faults = {}, TypeOK, LogsInv, LogsInv', CountInv, ControlInv, SealInv, ListingInv,
           PhaseInv, LifeInv, CleanInv, [Next]_vars
    PROVE  CleanInv'
  <1>0. pc' = "open" => \A i \in 1 .. Count' : Lane'[i].call = 0
    <2> SUFFICES ASSUME pc' = "open" PROVE \A i \in 1 .. Count' : Lane'[i].call = 0
      OBVIOUS
    <2>1. ~Falls
      BY DEF Falls
    <2>2. ~Launch /\ ~SealAnnounce /\ \A r \in AdapterResults : ~ApplyNormalization(r)
      BY DEF Launch, SealAnnounce, ApplyNormalization
    <2>3. ~Unstarted
      <3> DEFINE acc == [u \in Units |-> 0]
      <3>1. Unstarted => Attest(acc, "seal")
        BY DEF Unstarted, Construct
      <3> HIDE DEF acc
      <3>2. Attest(acc, "seal") => pc' = "seal"
        BY DEF Attest
      <3> QED
        BY <3>1, <3>2
    <2>4. ~Normalized
      <3>1. Attest(accounting, "idle") => pc' \in {"seal", "idle"}
        BY DEF Attest
      <3> QED
        BY <3>1 DEF Normalized
    <2>5. Stays
      BY <2>1, <2>2, <2>3, <2>4, LaneSteps
    <2>6. Lane' = Lane /\ Count' = Count /\ pc = "open"
      BY <2>5 DEF Stays
    <2> QED
      BY <2>6 DEF CleanInv
  <1> SUFFICES ASSUME status' = "completed"
               PROVE  /\ process'.end = "zero" /\ process'.wall <= Budget["wall"]
                      /\ \A i \in 1 .. Count' : Lane'[i].type = "error" => Lane'[i].call # 0
                      /\ \A i \in 1 .. Count' : Lane'[i].call # 0 =>
                           \/ normalized' \/ pc' = "ended"
                           \/ pc' = "attest" /\ Lane'[i].call = calls'
                      /\ \A i \in 1 .. Count', j \in 1 .. Count' :
                           Lane'[i].call # 0 /\ Lane'[j].call # 0 =>
                             Lane'[i].call = Lane'[j].call
    BY <1>0 DEF CleanInv
  <1>1. CASE Stays
    <2>1. /\ Lane' = Lane /\ Count' = Count /\ UNCHANGED <<process, normalized, status>>
          /\ pc = "attest" => UNCHANGED <<pc, calls>>
          /\ pc = "ended" => pc' = "ended"
      BY <1>1 DEF Stays
    <2> QED
      BY <2>1 DEF CleanInv
  <1>2. CASE Falls
    <2>1. /\ UNCHANGED <<stream, process, normalized, status>> /\ todo' = <<>>
          /\ pc' = "ended" \/ pc = "construct"
          /\ \A i \in 1 .. Count' : i \in 1 .. Count /\ Lane'[i] = Lane[i]
      BY <1>2, LaneDrops DEF Falls
    <2>2. pc = "construct" => ~normalized
      BY DEF PhaseInv
    <2> QED
      BY <2>1, <2>2 DEF CleanInv
  <1>3. CASE Launch
    <2>1. /\ todo = <<>> /\ pc = "open" /\ UNCHANGED stream
          /\ process'.end = "zero" /\ process'.wall <= Budget["wall"]
          /\ \A k \in 1 .. Len(todo') :
               todo'[k].type # "error" /\ todo'[k].call = 0
      BY <1>3, LaunchTells DEF Launch, diskVars
    <2>2. \A i \in 1 .. Count' :
            \/ i \in 1 .. Count /\ Lane'[i] = Lane[i]
            \/ i - Count \in 1 .. Len(todo') /\ Lane'[i] = Bare(todo'[i - Count])
                 /\ todo'[i - Count] \in Events
      BY <2>1, LaneGrows
    <2>3. ASSUME NEW i \in 1 .. Count
          PROVE  Lane[i].type # "error" /\ Lane[i].call = 0
      <3>1. Count = 2 /\ Lifecycle
        BY <2>1 DEF LifeInv, Live
      <3>2. i = 1 \/ i = 2
        BY <3>1
      <3>3. Lane[i].type # "error"
        BY <3>1, <3>2 DEF Lifecycle
      <3> QED
        BY <2>1, <3>3 DEF CleanInv
    <2>4. ASSUME NEW i \in 1 .. Count'
          PROVE  Lane'[i].type # "error" /\ Lane'[i].call = 0
      <3>1. CASE i - Count \in 1 .. Len(todo') /\ Lane'[i] = Bare(todo'[i - Count])
                   /\ todo'[i - Count] \in Events
        BY <2>1, <3>1, BareKeeps
      <3> QED
        BY <2>2, <2>3, <3>1
    <2> QED
      BY <2>1, <2>4
  <1>4. CASE Unstarted
    <2> DEFINE acc == [u \in Units |-> 0]
    <2>1. /\ pc = "construct" /\ process.end = "launch-error" /\ Attest(acc, "seal")
          /\ acc \in [Units -> Nat \cup {Unavailable}]
      BY <1>4 DEF Unstarted, Construct
    <2> HIDE DEF acc
    <2>2. status' \in {status} \cup Stopped
      BY <2>1, AttestTells DEF PhaseInv
    <2> QED
      BY <2>1, <2>2 DEF Stopped, CleanInv
  <1>5. CASE Normalized
    <2>1. /\ pc = "attest" /\ todo = <<>> /\ Attest(accounting, "idle")
          /\ accounting \in [Units -> Nat \cup {Unavailable}]
          /\ UNCHANGED <<stream, process>> /\ normalized' = TRUE
      BY <1>5 DEF Normalized, diskVars, TypeOK
    <2>2. /\ status' \in {status} \cup Stopped
          /\ \A k \in 1 .. Len(todo') :
               todo'[k].call = 0 /\ (todo'[k].type = "error" => status' \in Stopped)
      BY <2>1, AttestTells DEF PhaseInv
    <2>3. status = "completed"
      BY <2>2 DEF Stopped
    <2>4. \A k \in 1 .. Len(todo') : todo'[k].type # "error" /\ todo'[k].call = 0
      BY <2>2 DEF Stopped
    <2>5. \A i \in 1 .. Count' :
            \/ i \in 1 .. Count /\ Lane'[i] = Lane[i]
            \/ i - Count \in 1 .. Len(todo') /\ Lane'[i] = Bare(todo'[i - Count])
                 /\ todo'[i - Count] \in Events
      BY <2>1, LaneGrows
    <2>6. ASSUME NEW i \in 1 .. Count'
          PROVE  \/ i \in 1 .. Count /\ Lane'[i] = Lane[i]
                 \/ Lane'[i].type # "error" /\ Lane'[i].call = 0
      BY <2>4, <2>5, BareKeeps
    <2> QED
      BY <2>1, <2>3, <2>6 DEF CleanInv
  <1>6. ASSUME NEW r \in AdapterResults, ApplyNormalization(r)
        PROVE  /\ process'.end = "zero" /\ process'.wall <= Budget["wall"]
               /\ \A i \in 1 .. Count' : Lane'[i].type = "error" => Lane'[i].call # 0
               /\ pc' = "attest"
               /\ \A i \in 1 .. Count' : Lane'[i].call # 0 => Lane'[i].call = calls'
    <2>1. /\ pc = "idle" /\ todo = <<>> /\ ~normalized /\ pc' = "attest"
          /\ UNCHANGED <<stream, process, status>>
      BY <1>6 DEF ApplyNormalization, Applying, Idle, diskVars
    <2>2. calls' # 0 /\ \A k \in 1 .. Len(todo') : todo'[k].call = calls'
      BY <1>6, AdapterTells
    <2>3. \A i \in 1 .. Count' :
            \/ i \in 1 .. Count /\ Lane'[i] = Lane[i]
            \/ i - Count \in 1 .. Len(todo') /\ Lane'[i] = Bare(todo'[i - Count])
                 /\ todo'[i - Count] \in Events
      BY <2>1, LaneGrows
    <2>4. ASSUME NEW i \in 1 .. Count
          PROVE  Lane[i].call = 0 /\ Lane[i].type # "error"
      BY <2>1 DEF CleanInv
    <2>5. ASSUME NEW i \in 1 .. Count'
          PROVE  /\ Lane'[i].type = "error" => Lane'[i].call # 0
                 /\ Lane'[i].call # 0 => Lane'[i].call = calls'
      <3>1. CASE i - Count \in 1 .. Len(todo') /\ Lane'[i] = Bare(todo'[i - Count])
                   /\ todo'[i - Count] \in Events
        <4> DEFINE k == i - Count
        <4>1. /\ Lane'[i].type = todo'[k].type /\ Lane'[i].call = todo'[k].call
              /\ k \in 1 .. Len(todo')
          BY <3>1, BareKeeps
        <4> HIDE DEF k
        <4> QED
          BY <2>2, <4>1
      <3> QED
        BY <2>3, <2>4, <3>1
    <2> QED
      BY <2>1, <2>5 DEF CleanInv
  <1>7. CASE SealAnnounce
    <2>1. /\ pc = "seal" /\ todo = <<>> /\ UNCHANGED <<stream, process, status, normalized>>
      BY <1>7 DEF SealAnnounce, diskVars, sessionVars
    <2>2. \A k \in 1 .. Len(todo') :
            todo'[k].type \in {"artifact_recorded", "run_stopped"} /\ todo'[k].call = 0
      BY <1>7, AnnounceTells
    <2>3. \A i \in 1 .. Count' :
            \/ i \in 1 .. Count /\ Lane'[i] = Lane[i]
            \/ i - Count \in 1 .. Len(todo') /\ Lane'[i] = Bare(todo'[i - Count])
                 /\ todo'[i - Count] \in Events
      BY <2>1, LaneGrows
    <2>4. ASSUME NEW i \in 1 .. Count'
          PROVE  \/ i \in 1 .. Count /\ Lane'[i] = Lane[i]
                 \/ Lane'[i].type # "error" /\ Lane'[i].call = 0
      BY <2>2, <2>3, BareKeeps
    <2> QED
      BY <2>1, <2>4 DEF CleanInv
  <1> QED
    BY <1>1, <1>2, <1>3, <1>4, <1>5, <1>6, <1>7, LaneSteps

-----------------------------------------------------------------------------
(* What follows for every attempt on a disk that does not fail.            *)

ToldInv == PhaseInv /\ LifeInv /\ BudgetInv /\ CleanInv

LEMMA ToldIsKept ==
    ASSUME Faults = {}
    PROVE  Spec => []ToldInv
  <1>1. Init => ToldInv
    <2> SUFFICES ASSUME Init PROVE ToldInv
      OBVIOUS
    <2> DEFINE S == Event("run_started")
               P == Event("preflight_completed")
    <2>1. /\ stream = <<>> /\ manifest = <<>> /\ pc = "open" /\ todo = <<S, P>>
          /\ process.end = "none" /\ process.wall = 0 /\ usage = NoUsage
      BY DEF Init
    <2>2. ~sealed /\ ~attached /\ ~attested /\ ~normalized
      BY Zenon DEF Init
    <2>3. status # "completed"
      BY Zenon DEF Init
    <2>4. /\ S.type = "run_started" /\ S.leaks = FALSE /\ S.accounting = <<>>
          /\ P.type = "preflight_completed" /\ P.leaks = FALSE /\ P.accounting = <<>>
          /\ S.call = 0 /\ P.call = 0
      <3>1. S.type = "run_started" /\ S.leaks = FALSE /\ S.accounting = <<>> /\ S.call = 0
        BY PlainEvents
      <3>2. /\ P.type = "preflight_completed" /\ P.leaks = FALSE /\ P.accounting = <<>>
            /\ P.call = 0
        BY PlainEvents
      <3> HIDE DEF S, P
      <3> QED
        BY <3>1, <3>2
    <2>5. S \in Events /\ P \in Events
      BY ControlEvents DEF Quiet, EventTypes, AdapterTypes
    <2> HIDE DEF S, P
    <2>6. /\ Len(todo) = 2 /\ todo[1] = S /\ todo[2] = P /\ Len(stream) = 0
          /\ stream \in Seq(Events) /\ todo \in Seq(Events)
      BY <2>1, <2>5, EmptySeq
    <2>7. Count = 2
      BY <2>6 DEF Count
    <2>8. Lane[1] = Bare(S) /\ Lane[2] = Bare(P)
      BY <2>6, <2>7 DEF Lane
    <2>9. /\ Lane[1].type = "run_started" /\ Lane[2].type = "preflight_completed"
          /\ Lane[1].accounting = <<>> /\ Lane[2].accounting = <<>>
          /\ Lane[1].call = 0 /\ Lane[2].call = 0
      BY <2>4, <2>5, <2>8, BareKeeps
    <2>10. \A i \in 1 .. Count : i = 1 \/ i = 2
      BY <2>7
    <2>11. PhaseInv
      <3>1. \A i \in 1 .. Len(todo) : todo[i].leaks = FALSE
        BY <2>4, <2>6, <2>7, <2>10
      <3> QED
        BY <2>1, <2>2, <3>1, NoUsageIsNone DEF PhaseInv
    <2>12. ~Closing /\ ~Ran /\ Opening = 2
      BY <2>1, <2>2 DEF Closing, Ran, Opening
    <2>13. Lifecycle
      BY <2>9, <2>10, <2>12 DEF Lifecycle
    <2>14. LifeInv
      BY <2>1, <2>7, <2>12, <2>13 DEF LifeInv
    <2>15. BudgetInv
      BY <2>2, <2>9, <2>10 DEF BudgetInv
    <2>16. CleanInv
      BY <2>3, <2>9, <2>10 DEF CleanInv
    <2> QED
      BY <2>11, <2>14, <2>15, <2>16 DEF ToldInv
  <1>2. /\ TypeOK /\ LogsInv /\ LogsInv' /\ CountInv /\ ControlInv /\ SealInv /\ ListingInv
        /\ ToldInv /\ [Next]_vars
        => ToldInv'
    BY PhaseHolds, LifeHolds, BudgetHolds, CleanHolds DEF ToldInv
  <1> QED
    BY <1>1, <1>2, LedgerIsKept, PTL DEF Spec


\* When nothing is left to append, the stream says all that was told.
LEMMA SettledStream ==
    ASSUME LogsInv, todo = <<>>
    PROVE  /\ Count = Len(stream) /\ Count \in Nat /\ DOMAIN stream = 1 .. Count
           /\ \A i \in DOMAIN stream :
                /\ Lane[i].type = stream[i].type /\ Lane[i].status = stream[i].status
                /\ Lane[i].usage = stream[i].usage /\ Lane[i].accounting = stream[i].accounting
                /\ Lane[i].call = stream[i].call
  <1>1. Len(todo) = 0 /\ Len(stream) \in Nat
    BY LaneIs, EmptySeq
  <1>2. Count = Len(stream)
    BY <1>1 DEF Count
  <1> QED
    BY <1>1, <1>2, LaneIs, BareKeeps

\* Records exist only when every event has been appended.
LEMMA RecordsSettle ==
    ASSUME ControlInv, SealInv, ListingInv, manifest # <<>>
    PROVE  todo = <<>>
  BY DEF ControlInv, SealInv, ListingInv

\* An attempt reported as completed is the evidence of one undisturbed run, whatever
\* was refused, leaked or tried again before: exit code zero within the wall budget,
\* projected use attested, no error event but the notices of the adapter, and of its
\* events and notices those of one call.
THEOREM CompletedMeansClean ==
    ASSUME Faults = {}
    PROVE  Spec => []CompletedIsClean
  <1>1. LogsInv /\ SealInv /\ ReadyInv /\ ToldInv => CompletedIsClean
    <2> DEFINE told == {i \in DOMAIN stream : stream[i].call # 0}
    <2> SUFFICES ASSUME LogsInv, SealInv, ReadyInv, ToldInv, sealed, outcome.status = "completed"
                 PROVE  /\ process.end = "zero" /\ process.wall <= Budget["wall"]
                        /\ HasUsage => attested
                        /\ Positions(stream, "error") \subseteq told
                        /\ \A i, j \in told : stream[i].call = stream[j].call
      BY DEF CompletedIsClean
    <2>1. status = "completed" /\ todo = <<>>
      BY DEF SealInv
    <2>2. HasUsage => attested
      BY DEF ReadyInv, Closing
    <2>3. /\ DOMAIN stream = 1 .. Count
          /\ \A i \in DOMAIN stream :
               Lane[i].type = stream[i].type /\ Lane[i].call = stream[i].call
      BY <2>1, SettledStream
    <2> QED
      BY <2>1, <2>2, <2>3 DEF ToldInv, CleanInv, Positions
  <1> QED
    BY <1>1, LogsAreTyped, ControlIsKept, SealLeavesIsKept, ToldIsKept, PTL DEF SealLeaves

\* Evidence the validator accepts says what the session knows, also when the host
\* died before the seal was complete: the status it stopped with and the use it
\* charged.
THEOREM AcceptedMatches ==
    ASSUME Faults = {}
    PROVE  Spec => []EvidenceMatchesSession
  <1>1. LogsInv /\ ControlInv /\ SealInv /\ ListingInv /\ ToldInv => EvidenceMatchesSession
    <2> SUFFICES ASSUME LogsInv, ControlInv, SealInv, ListingInv, ToldInv, Accepted
                 PROVE  /\ TerminalStatus(stream) = status
                        /\ \A i \in DOMAIN stream :
                             stream[i].accounting # <<>> => stream[i].usage = usage
      BY DEF EvidenceMatchesSession
    <2>1. manifest # <<>>
      BY DEF Accepted, ValidDirectory
    <2>2. /\ Count = Len(stream) /\ Count \in Nat /\ DOMAIN stream = 1 .. Count
          /\ \A i \in DOMAIN stream :
               /\ Lane[i].type = stream[i].type /\ Lane[i].status = stream[i].status
               /\ Lane[i].usage = stream[i].usage /\ Lane[i].accounting = stream[i].accounting
      BY <2>1, RecordsSettle, SettledStream
    <2>3. Count > 0 /\ Lane[Count].type = "run_stopped" /\ Lane[Count].status = status
      BY <2>1 DEF ToldInv, LifeInv
    <2>4. Count \in DOMAIN stream /\ stream # <<>>
      <3>1. Count \in 1 .. Count
        BY <2>2, <2>3
      <3> QED
        BY <2>2, <2>3, <3>1, EmptySeq
    <2>5. stream[Len(stream)].type = "run_stopped" /\ stream[Len(stream)].status = status
      BY <2>2, <2>3, <2>4
    <2>6. TerminalStatus(stream) = status
      BY <2>4, <2>5, Zenon DEF TerminalStatus
    <2>7. \A i \in DOMAIN stream : stream[i].accounting # <<>> => stream[i].usage = usage
      BY <2>2 DEF ToldInv, BudgetInv
    <2> QED
      BY <2>6, <2>7
  <1> QED
    BY <1>1, LedgerIsKept, ToldIsKept, PTL


-----------------------------------------------------------------------------
(* What the validator says of a sealed attempt.                            *)

\* The stream of a sealed attempt has the lifecycle the validator wants.
LEMMA SealedLifecycle ==
    ASSUME LogsInv, SealInv, ToldInv, sealed
    PROVE  CompletedStream(stream) /\ TerminalStatus(stream) = status
  <1> DEFINE n == Len(stream)
  <1>1. todo = <<>> /\ Live /\ Closing
    BY DEF SealInv, Live, Closing
  <1>2. /\ Count = n /\ n \in Nat /\ DOMAIN stream = 1 .. n
        /\ \A i \in 1 .. n : Lane[i].type = stream[i].type /\ Lane[i].status = stream[i].status
    BY <1>1, SettledStream
  <1>3. n >= Opening /\ Opening \in {2, 4} /\ (Ran => Opening = 4)
    BY <1>1, <1>2 DEF ToldInv, LifeInv, Opening
  <1> HIDE DEF n
  <1>4. ASSUME NEW i \in 1 .. n
        PROVE  /\ (stream[i].type = "run_started") <=> (i = 1)
               /\ (stream[i].type = "preflight_completed") <=> (i = 2)
               /\ (stream[i].type = "command_started") <=> (Ran /\ i = 3)
               /\ (stream[i].type = "command_completed") <=> (Ran /\ i = 4)
               /\ (stream[i].type = "run_stopped") <=> (i = n)
    BY <1>1, <1>2 DEF ToldInv, LifeInv, Lifecycle
  <1>5. /\ 1 \in 1 .. n /\ 2 \in 1 .. n /\ n \in 1 .. n /\ (Ran => 3 \in 1 .. n /\ 4 \in 1 .. n)
    BY <1>2, <1>3
  <1>6. /\ Positions(stream, "run_started") = {1}
        /\ Positions(stream, "preflight_completed") = {2}
        /\ Positions(stream, "command_started") = IF Ran THEN {3} ELSE {}
        /\ Positions(stream, "command_completed") = IF Ran THEN {4} ELSE {}
        /\ Positions(stream, "run_stopped") = {n}
    BY <1>2, <1>4, <1>5 DEF Positions
  <1>7. stream # <<>> /\ stream[n].type = "run_stopped" /\ stream[n].status = status
    <2>1. stream # <<>>
      BY <1>2, <1>5, EmptySeq
    <2>2. Lane[Count].status = status
      BY <1>1 DEF ToldInv, LifeInv
    <2> QED
      BY <1>2, <1>4, <1>5, <2>1, <2>2
  <1>8. stream[n].status # ""
    <2>1. status # Unset
      BY DEF ToldInv, PhaseInv
    <2> QED
      BY <1>7, <2>1, Zenon DEF Unset
  <1>9. /\ OneOf(Positions(stream, "preflight_completed"))
        /\ AtMostOne(Positions(stream, "command_started"))
        /\ AtMostOne(Positions(stream, "command_completed"))
        /\ (Positions(stream, "command_started") = {})
             <=> (Positions(stream, "command_completed") = {})
        /\ Precedes(Positions(stream, "command_started"), Positions(stream, "command_completed"))
        /\ Precedes(Positions(stream, "run_started"), Positions(stream, "preflight_completed"))
        /\ Precedes(Positions(stream, "preflight_completed"),
                    Positions(stream, "command_started"))
    BY <1>6 DEF OneOf, AtMostOne, Precedes
  <1>10. Precedes(Positions(stream, "preflight_completed"), Positions(stream, "run_stopped"))
    <2>1. 2 < n
      <3>1. n # 2
        BY <1>4, <1>5, <1>7
      <3> QED
        BY <1>2, <1>3, <3>1
    <2> QED
      BY <1>6, <2>1 DEF Precedes
  <1>11. TerminalStatus(stream) = status
    BY <1>7, Zenon DEF TerminalStatus, n
  <1>12. CompletedStream(stream)
    BY <1>6, <1>7, <1>8, <1>9, <1>10, Zenon DEF CompletedStream, n
  <1> QED
    BY <1>11, <1>12

\* What its updates state is what was charged, and what was charged is within its
\* limits unless the attempt stopped for it.
LEMMA SealedBudget ==
    ASSUME TypeOK, LogsInv, SealInv, ReadyInv, ToldInv, sealed,
           TerminalStatus(stream) = status,
           status = Refusal => ~ \E u \in Units : usage[u] > Projection[u]
    PROVE  ValidBudgetHistory(stream)
  <1> DEFINE updates == Positions(stream, "budget_update")
             attests == {i \in updates : stream[i].accounting # <<>>}
  <1>1. todo = <<>> /\ Live
    BY DEF SealInv, Live
  <1>2. /\ DOMAIN stream = 1 .. Count
        /\ \A i \in DOMAIN stream :
             /\ Lane[i].type = stream[i].type
             /\ Lane[i].usage = stream[i].usage /\ Lane[i].accounting = stream[i].accounting
    BY <1>1, SettledStream
  <1>3. \A i \in attests :
          /\ attested /\ stream[i].usage = usage
          /\ \A u \in Units : CoherentUnit(u, stream[i].accounting[u], usage[u])
    BY <1>2 DEF ToldInv, BudgetInv, Positions
  <1>4. ASSUME NEW i \in updates
        PROVE  /\ DOMAIN stream[i].usage \subseteq Resources
               /\ \A f \in DOMAIN stream[i].usage : stream[i].usage[f] = usage[f]
    <2>1. stream[i].usage = [wall |-> process.wall] \/ stream[i].usage = usage
      BY <1>2 DEF ToldInv, BudgetInv, Positions
    <2>2. CASE stream[i].usage = usage
      BY <2>2 DEF TypeOK
    <2>3. CASE stream[i].usage = [wall |-> process.wall]
      <3>1. DOMAIN stream[i].usage = {"wall"} /\ stream[i].usage["wall"] = process.wall
        BY <2>3
      <3>2. usage["wall"] = process.wall /\ "wall" \in Resources
        BY DEF ToldInv, PhaseInv, Resources
      <3> QED
        BY <3>1, <3>2
    <2> QED
      BY <2>1, <2>2, <2>3
  <1>5. \A i, j \in updates : i < j =>
          \A f \in DOMAIN stream[i].usage \cap DOMAIN stream[j].usage :
            stream[i].usage[f] <= stream[j].usage[f]
    <2>1. \A f \in Resources : usage[f] \in Nat /\ usage[f] <= usage[f]
      BY DEF TypeOK
    <2> QED
      BY <1>4, <2>1
  <1>6. AtMostOne(attests)
    BY <1>2 DEF ToldInv, BudgetInv, Positions, AtMostOne
  <1>7. HasUsage => attests # {}
    <2> SUFFICES ASSUME HasUsage PROVE attests # {}
      OBVIOUS
    <2>1. attested
      BY DEF ReadyInv, Closing
    <2>2. PICK i \in 1 .. Count : Lane[i].accounting # <<>>
      BY <1>1, <2>1 DEF ToldInv, BudgetInv
    <2>3. i \in attests
      BY <1>2, <2>2 DEF ToldInv, BudgetInv, Positions
    <2> QED
      BY <2>3
  <1>8. ASSUME NEW i \in attests, NEW u \in Units
        PROVE  /\ CoherentUnit(u, stream[i].accounting[u], stream[i].usage[u])
               /\ stream[i].usage[u] > Projection[u] =>
                    TerminalStatus(stream) = "resource-projection-exceeded"
    <2>1. /\ attested /\ stream[i].usage = usage
          /\ CoherentUnit(u, stream[i].accounting[u], usage[u])
      BY <1>3
    <2>2. usage[u] > Projection[u] => status \in {"resource-projection-exceeded", Refusal}
      BY <2>1 DEF ToldInv, BudgetInv
    <2> QED
      BY <2>1, <2>2
  <1>9. ASSUME NEW i \in updates, NEW f \in DOMAIN stream[i].usage,
               stream[i].usage[f] > Budget[f]
        PROVE  TerminalStatus(stream) \in Stopped
    <2>1. ~WithinBudget
      <3>1. /\ f \in Resources /\ usage[f] > Budget[f]
            /\ usage[f] \in Nat /\ Budget[f] \in Nat
        BY <1>4, <1>9, RulesAssumption DEF TypeOK
      <3> QED
        BY <3>1 DEF WithinBudget
    <2> QED
      BY <2>1 DEF SealInv, AuthorityOwned
  <1> HIDE DEF updates, attests
  <1> QED
    BY <1>5, <1>6, <1>7, <1>8, <1>9 DEF ValidBudgetHistory, updates, attests

\* Events that count up from one, each under its owner, are well formed.
LEMMA CountedIsWellFormed ==
    ASSUME LogsInv, CountInv
    PROVE  WellFormedStream(stream)
  <1>1. Len(stream) \in Nat /\ DOMAIN stream = 1 .. Len(stream)
    BY LenProperties DEF LogsInv
  <1>2. \A i, j \in DOMAIN stream : i < j => stream[i].seq < stream[j].seq
    BY DEF CountInv
  <1>3. ASSUME NEW i \in DOMAIN stream
        PROVE  (stream[i].type \in AdapterTypes) <=> (stream[i].source # Harness)
    <2>1. stream[i] \in Events
      BY <1>1, ElementOfSeq DEF LogsInv
    <2> QED
      BY <2>1 DEF Events
  <1> QED
    BY <1>2, <1>3 DEF WellFormedStream

\* The evidence of every sealed attempt passes the offline validator, whatever was
\* refused, replaced and tried again, with two exceptions: use beyond its projection
\* and a status that a refused file then overwrote (the run seal_after_refusal), and
\* a retained raw file that is named events.jsonl in a directory of its own.
THEOREM SealsPassTheValidator ==
    ASSUME Faults = {}
    PROVE  Spec => []SealedAcceptedButTwo
  <1>1. /\ TypeOK /\ LogsInv /\ SealInv /\ CountInv /\ RetainedInv /\ SealLeaves /\ ToldInv
        => SealedAcceptedButTwo
    <2> SUFFICES ASSUME TypeOK, LogsInv, SealInv, CountInv, RetainedInv, SealLeaves, ToldInv,
                        sealed,
                        ~ (/\ outcome.status = "credential-artifact-refused"
                           /\ \E u \in Units : usage[u] > Projection[u]),
                        ~ (retained \cap NestedStreams # {})
                 PROVE  Accepted
      BY DEF SealedAcceptedButTwo
    <2> DEFINE files == [f \in FilesOnDisk |-> ContentOf(f)]
    <2>1. outcome.status = status /\ torn = {} /\ Covers(manifest)
      BY DEF SealInv, CountInv, SealLeaves, RecordInv
    <2>2. /\ FilesOnDisk = Owned /\ CoreFiles \subseteq Owned /\ EventStream \in Owned
          /\ DOMAIN files = Owned
      BY SealedOwnsAll DEF SealLeaves, ReadyInv, Owned
    <2>3. Contracts \subseteq Owned
      BY <2>2, CoreFilesAre DEF Contracts
    <2>4. ASSUME NEW i \in DOMAIN manifest
          PROVE  /\ manifest[i].content = files[manifest[i].path]
                 /\ manifest[i].path = EventStream => manifest[i].size = Len(stream)
      <3>1. /\ manifest[Len(manifest)].path = EventStream
            /\ manifest[Len(manifest)].size = Len(stream)
        BY <2>1 DEF Covers, StreamRecord, Record
      <3>2. Len(manifest) \in DOMAIN manifest
        <4>1. /\ manifest # <<>> /\ DOMAIN manifest = 1 .. Len(manifest)
              /\ Len(manifest) \in Nat
          BY <2>1, LenProperties DEF Covers, LogsInv
        <4> QED
          BY <4>1, EmptySeq, LenProperties DEF LogsInv
      <3>3. manifest[i].path = EventStream => i = Len(manifest)
        BY <3>1, <3>2 DEF SealLeaves, DistinctInv
      <3>4. manifest[i].path \in Owned /\ manifest[i].content = ContentOf(manifest[i].path)
        BY <2>1 DEF Covers
      <3> QED
        BY <2>2, <3>1, <3>3, <3>4
    <2>5. Owned \cap ({EventStream} \cup NestedStreams) = {EventStream}
      BY RulesAssumption DEF Owned
    <2>6. CompletedStream(stream) /\ TerminalStatus(stream) = status
      BY SealedLifecycle
    <2>7. ValidBudgetHistory(stream)
      BY <2>1, <2>6, SealedBudget DEF Refusal, SealLeaves
    <2>8. \A i, j \in DOMAIN manifest : manifest[i].path = manifest[j].path => i = j
      BY DEF SealLeaves, DistinctInv
    <2>9. WellFormedStream(stream)
      BY CountedIsWellFormed
    <2>10. manifest # <<>> /\ {manifest[i].path : i \in DOMAIN manifest} = Owned
      BY <2>1 DEF Covers
    <2>11. Accepted <=> ValidDirectory(files, stream, manifest, torn)
      BY DEF Accepted
    <2> HIDE DEF files
    <2> QED
      BY <2>1, <2>2, <2>3, <2>4, <2>5, <2>6, <2>7, <2>8, <2>9, <2>10, <2>11 DEF ValidDirectory
  <1> QED
    BY <1>1, LedgerIsKept, RetainedIsKept, SealLeavesIsKept, ToldIsKept, PTL

=============================================================================
