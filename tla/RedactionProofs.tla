---------------------------- MODULE RedactionProofs ----------------------------
(***************************************************************************)
(* That redaction does not depend on how the pipe cuts its input: for any  *)
(* letters, credentials, amount of input, and chunks of any size.          *)
(***************************************************************************)
EXTENDS Contracts, SequenceTheorems, FiniteSetTheorems, TLAPS

-----------------------------------------------------------------------------
(* Induction, as a fact about sets.                                        *)

LEMMA LeastNatural ==
    ASSUME NEW S, S \subseteq Nat, S # {}
    PROVE  \E m \in S : \A k \in S : m <= k
  <1>1. \A x, y \in Nat : x < y => <<x, y>> \in OpToRel(<, Nat)
    BY DEF OpToRel
  <1>2. ASSUME NEW R, IsWellFoundedOn(R, Nat), \A x, y \in Nat : x < y => <<x, y>> \in R
        PROVE  \E m \in S : \A k \in S : m <= k
    <2>1. IsWellFoundedOn(R, Nat)
      BY <1>2
    <2>2. PICK m \in S : \A k \in S : ~ (<<k, m>> \in R)
      BY <2>1, WFMin, Zenon
    <2>3. ASSUME NEW k \in S PROVE m <= k
      <3>1. k \in Nat /\ m \in Nat /\ ~ (k < m)
        BY <1>2, <2>2
      <3> QED
        BY <3>1
    <2> QED
      BY <2>3
  <1> QED
    BY <1>1, <1>2, NatLessThanWellFounded

LEMMA SetInduction ==
    ASSUME NEW S, 0 \in S, \A n \in Nat : n \in S => n + 1 \in S
    PROVE  Nat \subseteq S
  <1> SUFFICES ASSUME Nat \ S # {} PROVE FALSE
    OBVIOUS
  <1>1. PICK m \in Nat \ S : \A k \in Nat \ S : m <= k
    BY LeastNatural
  <1>2. m - 1 \in Nat /\ m - 1 \notin Nat \ S
    BY <1>1
  <1> QED
    BY <1>1, <1>2

\* What holds of a word when it holds of every shorter one holds of all.
LEMMA ByLength ==
    ASSUME NEW G,
           \A s \in Seq(Letters) :
             (\A t \in Seq(Letters) : Len(t) < Len(s) => t \in G) => s \in G
    PROVE  Seq(Letters) \subseteq G
  <1> DEFINE B == {Len(s) : s \in Seq(Letters) \ G}
  <1> SUFFICES ASSUME Seq(Letters) \ G # {} PROVE FALSE
    OBVIOUS
  <1>1. B \subseteq Nat /\ B # {}
    <2>1. PICK s \in Seq(Letters) \ G : TRUE
      OBVIOUS
    <2>2. Len(s) \in B
      BY <2>1
    <2>3. \A t \in Seq(Letters) : Len(t) \in Nat
      BY LenProperties
    <2>4. B \subseteq Nat
      BY <2>3
    <2> HIDE DEF B
    <2> QED
      BY <2>2, <2>4
  <1>2. PICK m \in B : \A k \in B : m <= k
    BY <1>1, LeastNatural
  <1>3. PICK s \in Seq(Letters) \ G : m = Len(s)
    BY <1>2
  <1>4. ASSUME NEW t \in Seq(Letters), Len(t) < Len(s) PROVE t \in G
    <2>1. Len(t) \in Nat /\ Len(s) \in Nat /\ (t \notin G => Len(t) \in B)
      BY LenProperties
    <2> HIDE DEF B
    <2> QED
      BY <1>2, <1>3, <1>4, <2>1
  <1> QED
    BY <1>3, <1>4

-----------------------------------------------------------------------------
(* Where a word occurs.                                                    *)

Symbols == Letters \cup {Marker}

Spelled(s, i, w) ==
    i + Len(w) - 1 <= Len(s) /\ \A k \in 1 .. Len(w) : s[i + k - 1] = w[k]

Words(S) == S \subseteq Seq(Letters) \ {<<>>}

\* A text is a part before a word, the word, and a part after it.
Parts(s, p, w, t) ==
    /\ Len(s) = Len(p) + Len(w) + Len(t)
    /\ \A i \in 1 .. Len(p) : s[i] = p[i]
    /\ \A i \in 1 .. Len(w) : s[Len(p) + i] = w[i]
    /\ \A i \in 1 .. Len(t) : s[Len(p) + Len(w) + i] = t[i]

\* No word occurs in the text that starts among its first n symbols.
Clear(S, s, n) == \A w \in S : \A i \in 1 .. n : ~Spelled(s, i, w)

LEMMA WordsAre ==
    ASSUME NEW S, Words(S), NEW w \in S
    PROVE  w \in Seq(Letters) /\ Len(w) \in Nat \ {0} /\ \A k \in 1 .. Len(w) : w[k] \in Letters
  BY EmptySeq, ElementOfSeq DEF Words

LEMMA LettersAreSymbols ==
    ASSUME NEW s \in Seq(Letters)
    PROVE  s \in Seq(Symbols) /\ Len(s) \in Nat /\ \A i \in 1 .. Len(s) : s[i] \in Letters
  BY SeqMonotonic, LenProperties, ElementOfSeq DEF Symbols

LEMMA OccursIs ==
    ASSUME NEW s \in Seq(Symbols), NEW w \in Seq(Letters), NEW i \in Nat \ {0}
    PROVE  OccursAt(s, i, w) <=> Spelled(s, i, w)
  <1>1. /\ Len(s) \in Nat /\ Len(w) \in Nat /\ w \in Seq(Symbols)
    BY LettersAreSymbols, LenProperties
  <1> SUFFICES ASSUME i + Len(w) - 1 <= Len(s)
               PROVE  SubSeq(s, i, i + Len(w) - 1) = w
                        <=> \A k \in 1 .. Len(w) : s[i + k - 1] = w[k]
    BY DEF OccursAt, Spelled
  <1> DEFINE n == i + Len(w) - 1
             t == SubSeq(s, i, n)
  <1>2. n \in Int /\ n - i + 1 = Len(w)
    BY <1>1
  <1>3. \A j \in i .. n : s[j] \in Symbols
    <2>1. \A j \in i .. n : j \in 1 .. Len(s)
      BY <1>1
    <2> QED
      BY <2>1, ElementOfSeq
  <1>4. t \in Seq(Symbols) /\ Len(t) = Len(w) /\ \A k \in 1 .. Len(w) : t[k] = s[i + k - 1]
    <2>1. /\ t \in Seq(Symbols) /\ Len(t) = (IF i <= n THEN n - i + 1 ELSE 0)
          /\ \A k \in 1 .. (n - i + 1) : t[k] = s[i + k - 1]
      BY <1>2, <1>3, SubSeqProperties
    <2> HIDE DEF t
    <2>2. Len(t) = Len(w)
      BY <1>1, <1>2, <2>1
    <2> QED
      BY <1>2, <2>1, <2>2
  <1> HIDE DEF t, n
  <1>5. (\A k \in 1 .. Len(w) : t[k] = w[k]) => t = w
    BY <1>1, <1>4, SeqEqual
  <1>6. t = w <=> \A k \in 1 .. Len(w) : s[i + k - 1] = w[k]
    BY <1>4, <1>5
  <1> QED
    BY <1>6 DEF t, n

\* The parts of a concatenation.
LEMMA Glued ==
    ASSUME NEW a \in Seq(Symbols), NEW b \in Seq(Symbols)
    PROVE  /\ a \o b \in Seq(Symbols) /\ Len(a) \in Nat /\ Len(b) \in Nat
           /\ Len(a \o b) = Len(a) + Len(b)
           /\ \A i \in 1 .. Len(a) : (a \o b)[i] = a[i] /\ a[i] \in Symbols
           /\ \A i \in 1 .. Len(b) : (a \o b)[Len(a) + i] = b[i] /\ b[i] \in Symbols
  <1>1. /\ a \o b \in Seq(Symbols) /\ Len(a \o b) = Len(a) + Len(b)
        /\ \A i \in 1 .. Len(a) + Len(b) :
             (a \o b)[i] = IF i <= Len(a) THEN a[i] ELSE b[i - Len(a)]
    BY ConcatProperties
  <1>2. /\ Len(a) \in Nat /\ Len(b) \in Nat
        /\ \A i \in 1 .. Len(a) : a[i] \in Symbols
        /\ \A i \in 1 .. Len(b) : b[i] \in Symbols
    BY LenProperties, ElementOfSeq
  <1>3. \A i \in 1 .. Len(a) : (a \o b)[i] = a[i]
    BY <1>1, <1>2
  <1>4. ASSUME NEW i \in 1 .. Len(b) PROVE (a \o b)[Len(a) + i] = b[i]
    <2>1. Len(a) + i \in 1 .. Len(a) + Len(b) /\ ~ (Len(a) + i <= Len(a))
            /\ Len(a) + i - Len(a) = i
      BY <1>2
    <2> QED
      BY <1>1, <2>1
  <1> QED
    BY <1>1, <1>2, <1>3, <1>4

LEMMA GluedLetters ==
    ASSUME NEW a \in Seq(Letters), NEW b \in Seq(Letters)
    PROVE  a \o b \in Seq(Letters)
  BY ConcatProperties

-----------------------------------------------------------------------------
(* What the redactor looks for, for a given set of credentials.            *)

MatchesOf(S, s) == {m \in (1..Len(s)) \X S : OccursAt(s, m[1], m[2])}

NextOf(S, s) ==
    CHOOSE m \in MatchesOf(S, s) : \A n \in MatchesOf(S, s) :
        m[1] < n[1] \/ (m[1] = n[1] /\ Len(m[2]) >= Len(n[2]))

After(s, m) == SubSeq(s, m[1] + Len(m[2]), Len(s))

Step(S, f, s) ==
    IF MatchesOf(S, s) = {} THEN [out |-> <<>>, rest |-> s, count |-> 0]
    ELSE LET match == NextOf(S, s)
             later == f[After(s, match)]
         IN  [out   |-> SubSeq(s, 1, match[1] - 1) \o <<Marker>> \o later.out,
              rest  |-> later.rest,
              count |-> later.count + 1]

ReplacedBy(S) == CHOOSE f : f = [s \in Seq(Letters) |-> Step(S, f, s)]

LEMMA ReplacedIs == Replaced = ReplacedBy(secrets)
  BY DEF Replaced, ReplacedBy, Step, After, Matches, NextMatch, MatchesOf, NextOf

LEMMA NextReplacedIs == Replaced' = ReplacedBy(secrets')
  BY DEF Replaced, ReplacedBy, Step, After, Matches, NextMatch, MatchesOf, NextOf

\* A match is a word of the text.
LEMMA MatchIs ==
    ASSUME NEW S, Words(S), NEW s \in Seq(Letters)
    PROVE  /\ \A i, w : <<i, w>> \in MatchesOf(S, s) <=>
                          i \in 1 .. Len(s) /\ w \in S /\ Spelled(s, i, w)
           /\ \A m \in MatchesOf(S, s) : m = <<m[1], m[2]>>
  <1>1. ASSUME NEW i \in 1 .. Len(s), NEW w \in S
        PROVE  OccursAt(s, i, w) <=> Spelled(s, i, w)
    <2>1. i \in Nat \ {0} /\ s \in Seq(Symbols) /\ w \in Seq(Letters)
      BY LettersAreSymbols, WordsAre
    <2> QED
      BY <2>1, OccursIs
  <1> QED
    BY <1>1 DEF MatchesOf

\* The first of them, and of those the longest, exists.
LEMMA NextIs ==
    ASSUME NEW S, Words(S), NEW s \in Seq(Letters), MatchesOf(S, s) # {}
    PROVE  /\ NextOf(S, s) \in MatchesOf(S, s)
           /\ \A n \in MatchesOf(S, s) :
                \/ NextOf(S, s)[1] < n[1]
                \/ NextOf(S, s)[1] = n[1] /\ Len(NextOf(S, s)[2]) >= Len(n[2])
  <1> DEFINE M == MatchesOf(S, s)
             A == {m[1] : m \in M}
  <1>1. \A m \in M : /\ m[1] \in 1 .. Len(s) /\ m[2] \in S /\ Len(m[2]) \in Nat \ {0}
                     /\ m[1] + Len(m[2]) - 1 <= Len(s)
    <2>1. ASSUME NEW m \in M PROVE m[1] \in 1 .. Len(s) /\ m[2] \in S /\ Spelled(s, m[1], m[2])
      BY MatchIs
    <2> QED
      BY <2>1, WordsAre DEF Spelled
  <1>2. Len(s) \in Nat
    BY LenProperties
  <1> HIDE DEF M
  <1>3. PICK i \in A : \A k \in A : i <= k
    <2>1. A \subseteq Nat /\ A # {}
      BY <1>1, <1>2 DEF M
    <2> HIDE DEF A
    <2> QED
      BY <2>1, LeastNatural
  <1> DEFINE B == {Len(s) - Len(m[2]) : m \in {n \in M : n[1] = i}}
  <1>4. PICK d \in B : \A k \in B : d <= k
    <2>1. B \subseteq Nat
      BY <1>1, <1>2
    <2>2. B # {}
      BY <1>3
    <2> HIDE DEF B
    <2> QED
      BY <2>1, <2>2, LeastNatural
  <1>5. PICK m \in M : m[1] = i /\ d = Len(s) - Len(m[2])
    BY <1>4
  <1>6. ASSUME NEW n \in M
        PROVE  m[1] < n[1] \/ (m[1] = n[1] /\ Len(m[2]) >= Len(n[2]))
    <2>1. i <= n[1] /\ (n[1] = i => d <= Len(s) - Len(n[2]))
      BY <1>3, <1>4
    <2> QED
      BY <1>1, <1>2, <1>5, <2>1
  <1>7. \E x \in M : \A n \in M : x[1] < n[1] \/ (x[1] = n[1] /\ Len(x[2]) >= Len(n[2]))
    BY <1>6
  <1> QED
    BY <1>7, Zenon DEF NextOf, M

\* First(S, s, i, w): of the words found in s, w at i starts first and is the longest there.
First(S, s, i, w) ==
    /\ i \in 1 .. Len(s) /\ w \in S /\ Spelled(s, i, w)
    /\ \A j \in 1 .. Len(s), v \in S :
          Spelled(s, j, v) => i < j \/ (i = j /\ Len(w) >= Len(v))

LEMMA ClearIs ==
    ASSUME NEW S, Words(S), NEW s \in Seq(Letters)
    PROVE  MatchesOf(S, s) = {} <=> Clear(S, s, Len(s))
  <1>1. ASSUME MatchesOf(S, s) = {}, NEW w \in S, NEW i \in 1 .. Len(s) PROVE ~Spelled(s, i, w)
    BY <1>1, MatchIs
  <1>2. ASSUME NEW m \in MatchesOf(S, s) PROVE ~Clear(S, s, Len(s))
    <2>1. m[1] \in 1 .. Len(s) /\ m[2] \in S /\ Spelled(s, m[1], m[2])
      BY MatchIs
    <2> QED
      BY <2>1 DEF Clear
  <1> QED
    BY <1>1, <1>2 DEF Clear

LEMMA FirstExists ==
    ASSUME NEW S, Words(S), NEW s \in Seq(Letters), ~Clear(S, s, Len(s))
    PROVE  \E i \in 1 .. Len(s), w \in S : First(S, s, i, w)
  <1> DEFINE m == NextOf(S, s)
  <1>1. /\ m \in MatchesOf(S, s)
        /\ \A n \in MatchesOf(S, s) :
             m[1] < n[1] \/ (m[1] = n[1] /\ Len(m[2]) >= Len(n[2]))
    BY ClearIs, NextIs
  <1> HIDE DEF m
  <1>2. m[1] \in 1 .. Len(s) /\ m[2] \in S /\ Spelled(s, m[1], m[2])
    BY <1>1, MatchIs
  <1>3. ASSUME NEW j \in 1 .. Len(s), NEW v \in S, Spelled(s, j, v)
        PROVE  m[1] < j \/ (m[1] = j /\ Len(m[2]) >= Len(v))
    <2>1. <<j, v>> \in MatchesOf(S, s)
      BY <1>3, MatchIs
    <2> QED
      BY <1>1, <2>1
  <1>4. First(S, s, m[1], m[2])
    BY <1>2, <1>3 DEF First
  <1> QED
    BY <1>2, <1>4

LEMMA FirstIs ==
    ASSUME NEW S, Words(S), NEW s \in Seq(Letters), NEW i, NEW w, First(S, s, i, w)
    PROVE  NextOf(S, s) = <<i, w>> /\ MatchesOf(S, s) # {}
  <1> DEFINE m == NextOf(S, s)
  <1>1. <<i, w>> \in MatchesOf(S, s)
    BY MatchIs DEF First
  <1>2. /\ m \in MatchesOf(S, s)
        /\ \A n \in MatchesOf(S, s) :
             m[1] < n[1] \/ (m[1] = n[1] /\ Len(m[2]) >= Len(n[2]))
    BY <1>1, NextIs
  <1> HIDE DEF m
  <1>3. /\ m[1] \in 1 .. Len(s) /\ m[2] \in S /\ Spelled(s, m[1], m[2])
        /\ m = <<m[1], m[2]>>
    BY <1>2, MatchIs
  <1>4. m[1] < i \/ (m[1] = i /\ Len(m[2]) >= Len(w))
    BY <1>1, <1>2
  <1>5. i < m[1] \/ (i = m[1] /\ Len(w) >= Len(m[2]))
    BY <1>3 DEF First
  <1>6. /\ w \in Seq(Letters) /\ m[2] \in Seq(Letters) /\ Len(w) \in Nat /\ Len(m[2]) \in Nat
        /\ i \in 1 .. Len(s) /\ Len(s) \in Nat /\ Spelled(s, i, w)
    BY <1>3, WordsAre, LenProperties DEF First
  <1>7. m[1] = i /\ Len(m[2]) = Len(w)
    BY <1>3, <1>4, <1>5, <1>6
  <1>8. \A k \in 1 .. Len(w) : w[k] = m[2][k]
    BY <1>3, <1>6, <1>7 DEF Spelled
  <1>9. m[2] = w
    BY <1>6, <1>7, <1>8, SeqEqual
  <1> QED
    BY <1>1, <1>3, <1>7, <1>9 DEF m

\* A text that spells a word is a part before it, the word, and a part after it.
LEMMA Cut ==
    ASSUME NEW s \in Seq(Letters), NEW w \in Seq(Letters), Len(w) > 0,
           NEW i \in 1 .. Len(s), Spelled(s, i, w)
    PROVE  LET p == SubSeq(s, 1, i - 1)
               t == SubSeq(s, i + Len(w), Len(s))
           IN  /\ p \in Seq(Letters) /\ t \in Seq(Letters)
               /\ Len(p) = i - 1 /\ Len(t) < Len(s) /\ Parts(s, p, w, t)
  <1> DEFINE p == SubSeq(s, 1, i - 1)
             t == SubSeq(s, i + Len(w), Len(s))
             n == i + Len(w)
  <1>0. p = SubSeq(s, 1, i - 1) /\ t = SubSeq(s, n, Len(s))
    OBVIOUS
  <1> HIDE DEF p, t
  <1>1. /\ Len(w) \in Nat \ {0} /\ Len(s) \in Nat /\ i \in Nat \ {0}
        /\ i + Len(w) - 1 <= Len(s)
        /\ \A k \in 1 .. Len(w) : s[i + k - 1] = w[k]
    BY LenProperties DEF Spelled
  <1>2. \A j \in 1 .. Len(s) : s[j] \in Letters
    BY LettersAreSymbols
  <1>3. p \in Seq(Letters) /\ Len(p) = i - 1 /\ \A j \in 1 .. Len(p) : s[j] = p[j]
    <2>1. \A j \in 1 .. (i - 1) : s[j] \in Letters
      BY <1>1, <1>2
    <2>2. i - 1 \in Int
      BY <1>1
    <2>3. /\ p \in Seq(Letters)
          /\ Len(p) = IF 1 <= i - 1 THEN (i - 1) - 1 + 1 ELSE 0
          /\ \A j \in 1 .. ((i - 1) - 1 + 1) : p[j] = s[1 + j - 1]
      BY <1>0, <2>1, <2>2, SubSeqProperties
    <2>4. Len(p) = i - 1
      BY <1>1, <2>3
    <2>5. (i - 1) - 1 + 1 = i - 1 /\ \A j \in 1 .. (i - 1) : 1 + j - 1 = j
      BY <1>1
    <2> QED
      BY <2>3, <2>4, <2>5
  <1>4. /\ t \in Seq(Letters) /\ Len(t) = Len(s) - n + 1
        /\ \A j \in 1 .. Len(t) : t[j] = s[n + j - 1]
    <2>1. \A j \in n .. Len(s) : s[j] \in Letters
      BY <1>1, <1>2
    <2>2. n \in Int /\ Len(s) \in Int
      BY <1>1
    <2>3. n <= Len(s) + 1
      BY <1>1
    <2> HIDE DEF n
    <2>4. /\ t \in Seq(Letters)
          /\ Len(t) = IF n <= Len(s) THEN Len(s) - n + 1 ELSE 0
          /\ \A j \in 1 .. (Len(s) - n + 1) : t[j] = s[n + j - 1]
      BY <1>0, <2>1, <2>2, SubSeqProperties
    <2>5. Len(t) = IF n <= Len(s) THEN Len(s) - n + 1 ELSE 0
      BY <2>4
    <2>6. Len(t) = Len(s) - n + 1
      BY <2>2, <2>3, <2>5
    <2> QED
      BY <2>4, <2>6
  <1>5. Len(s) = Len(p) + Len(w) + Len(t) /\ Len(t) < Len(s)
    BY <1>1, <1>3, <1>4
  <1>6. ASSUME NEW j \in 1 .. Len(w) PROVE s[Len(p) + j] = w[j]
    <2>1. Len(p) + j = i + j - 1
      BY <1>1, <1>3
    <2> QED
      BY <1>1, <2>1
  <1>7. ASSUME NEW j \in 1 .. Len(t) PROVE s[Len(p) + Len(w) + j] = t[j]
    <2>1. Len(p) + Len(w) + j = n + j - 1
      BY <1>1, <1>3, <1>4
    <2> QED
      BY <1>4, <2>1
  <1>8. Parts(s, p, w, t)
    BY <1>3, <1>5, <1>6, <1>7 DEF Parts
  <1> QED
    BY <1>3, <1>4, <1>5, <1>8 DEF p, t

\* What is made of a text depends on what is made of shorter ones.
LEMMA StepAgrees ==
    ASSUME NEW S, Words(S), NEW s \in Seq(Letters), NEW f, NEW g,
           \A t \in Seq(Letters) : Len(t) < Len(s) => f[t] = g[t]
    PROVE  Step(S, f, s) = Step(S, g, s)
  <1>1. CASE MatchesOf(S, s) = {}
    BY <1>1 DEF Step
  <1>2. CASE MatchesOf(S, s) # {}
    <2>1. /\ After(s, NextOf(S, s)) \in Seq(Letters)
          /\ Len(After(s, NextOf(S, s))) < Len(s)
      <3>1. PICK i \in 1 .. Len(s), w \in S : First(S, s, i, w)
        BY <1>2, ClearIs, FirstExists
      <3>2. NextOf(S, s) = <<i, w>>
        BY <3>1, FirstIs
      <3>3. After(s, <<i, w>>) = SubSeq(s, i + Len(w), Len(s))
        BY DEF After
      <3>4. w \in Seq(Letters) /\ Len(w) > 0 /\ Spelled(s, i, w)
        BY <3>1, WordsAre DEF First
      <3> QED
        BY <3>2, <3>3, <3>4, Cut
    <2>2. f[After(s, NextOf(S, s))] = g[After(s, NextOf(S, s))]
      BY <2>1
    <2> QED
      BY <2>2 DEF Step
  <1> QED
    BY <1>1, <1>2

Short(k) == {s \in Seq(Letters) : Len(s) < k}

ReplacesShort(S, f, k) == f = [s \in Short(k) |-> Step(S, f, s)]

LEMMA ShortExists ==
    ASSUME NEW S, Words(S)
    PROVE  \A k \in Nat : \E f : ReplacesShort(S, f, k)
  <1> DEFINE T == {k \in Nat : \E f : ReplacesShort(S, f, k)}
  <1>0. \A s \in Seq(Letters) : Len(s) \in Nat
    BY LenProperties
  <1>1. 0 \in T
    <2> DEFINE f == [s \in Short(0) |-> 0]
    <2>1. Short(0) = {}
      BY <1>0 DEF Short
    <2>2. f = [s \in Short(0) |-> Step(S, f, s)]
      BY <2>1
    <2>3. ReplacesShort(S, f, 0)
      BY <2>2 DEF ReplacesShort
    <2> QED
      BY <2>3
  <1>2. ASSUME NEW k \in Nat, k \in T PROVE k + 1 \in T
    <2>1. PICK f : ReplacesShort(S, f, k)
      BY <1>2
    <2> DEFINE g == [s \in Short(k + 1) |-> Step(S, f, s)]
    <2>2. ASSUME NEW s \in Short(k + 1) PROVE Step(S, g, s) = g[s]
      <3>1. ASSUME NEW t \in Seq(Letters), Len(t) < Len(s) PROVE g[t] = f[t]
        <4>1. t \in Short(k) /\ t \in Short(k + 1)
          BY <1>0, <3>1 DEF Short
        <4> QED
          BY <2>1, <4>1 DEF ReplacesShort
      <3>2. s \in Seq(Letters)
        BY DEF Short
      <3> HIDE DEF g
      <3>3. Step(S, g, s) = Step(S, f, s)
        BY <3>1, <3>2, StepAgrees
      <3> QED
        BY <3>3 DEF g
    <2>3. ReplacesShort(S, g, k + 1)
      BY <2>2 DEF ReplacesShort
    <2> QED
      BY <2>3
  <1> HIDE DEF T
  <1>3. Nat \subseteq T
    BY <1>1, <1>2, SetInduction
  <1> QED
    BY <1>3 DEF T

LEMMA ShortAgree ==
    ASSUME NEW S, Words(S), NEW j \in Nat, NEW k \in Nat, NEW f, NEW g,
           ReplacesShort(S, f, j), ReplacesShort(S, g, k)
    PROVE  \A s \in Seq(Letters) : Len(s) < j /\ Len(s) < k => f[s] = g[s]
  <1> DEFINE G == {s \in Seq(Letters) : Len(s) < j /\ Len(s) < k => f[s] = g[s]}
  <1>1. ASSUME NEW s \in Seq(Letters), \A t \in Seq(Letters) : Len(t) < Len(s) => t \in G
        PROVE  s \in G
    <2> SUFFICES ASSUME Len(s) < j, Len(s) < k PROVE f[s] = g[s]
      OBVIOUS
    <2>1. ASSUME NEW t \in Seq(Letters), Len(t) < Len(s) PROVE f[t] = g[t]
      <3>1. Len(t) \in Nat /\ Len(s) \in Nat
        BY LenProperties
      <3> QED
        BY <1>1, <2>1, <3>1
    <2>2. Step(S, f, s) = Step(S, g, s)
      BY <2>1, StepAgrees
    <2>3. f[s] = Step(S, f, s)
      BY DEF ReplacesShort, Short
    <2>4. g[s] = Step(S, g, s)
      BY DEF ReplacesShort, Short
    <2> QED
      BY <2>2, <2>3, <2>4
  <1> HIDE DEF G
  <1>2. Seq(Letters) \subseteq G
    BY <1>1, ByLength
  <1> QED
    BY <1>2 DEF G

\* The recursion of Replaced has a solution.
LEMMA ReplacedSteps ==
    ASSUME NEW S, Words(S), NEW s \in Seq(Letters)
    PROVE  ReplacedBy(S)[s] = Step(S, ReplacedBy(S), s)
  <1> DEFINE F(k) == CHOOSE f : ReplacesShort(S, f, k)
             H == [t \in Seq(Letters) |-> F(Len(t) + 1)[t]]
  <1>1. ASSUME NEW k \in Nat PROVE ReplacesShort(S, F(k), k)
    BY ShortExists
  <1> HIDE DEF F
  <1>2. ASSUME NEW t \in Seq(Letters) PROVE Step(S, H, t) = H[t]
    <2>1. Len(t) \in Nat /\ Len(t) + 1 \in Nat /\ Len(t) < Len(t) + 1
      BY LenProperties
    <2>2. ASSUME NEW u \in Seq(Letters), Len(u) < Len(t) PROVE H[u] = F(Len(t) + 1)[u]
      <3>1. /\ Len(u) \in Nat /\ Len(u) + 1 \in Nat /\ Len(u) < Len(u) + 1
            /\ Len(u) < Len(t) + 1
        BY <2>1, <2>2, LenProperties
      <3>2. F(Len(u) + 1)[u] = F(Len(t) + 1)[u]
        BY <1>1, <2>1, <3>1, ShortAgree
      <3> QED
        BY <3>2
    <2>3. Step(S, H, t) = Step(S, F(Len(t) + 1), t)
      <3> HIDE DEF H
      <3> QED
        BY <2>2, StepAgrees
    <2>4. F(Len(t) + 1)[t] = Step(S, F(Len(t) + 1), t)
      <3>1. ReplacesShort(S, F(Len(t) + 1), Len(t) + 1) /\ t \in Short(Len(t) + 1)
        BY <1>1, <2>1 DEF Short
      <3> QED
        BY <3>1 DEF ReplacesShort
    <2> QED
      BY <2>3, <2>4
  <1>3. H = [t \in Seq(Letters) |-> Step(S, H, t)]
    BY <1>2
  <1>4. \E f : f = [t \in Seq(Letters) |-> Step(S, f, t)]
    <2> HIDE DEF H
    <2> QED
      BY <1>3
  <1>5. ReplacedBy(S) = [t \in Seq(Letters) |-> Step(S, ReplacedBy(S), t)]
    BY <1>4 DEF ReplacedBy
  <1> QED
    BY <1>5

-----------------------------------------------------------------------------
(* The parts of a text.                                                    *)

LEMMA PartsAreUnique ==
    ASSUME NEW s, NEW w, NEW p \in Seq(Letters), NEW t \in Seq(Letters),
           NEW q \in Seq(Letters), NEW u \in Seq(Letters),
           Parts(s, p, w, t), Parts(s, q, w, u), Len(p) = Len(q), Len(w) \in Nat
    PROVE  p = q /\ t = u
  <1>1. Len(p) \in Nat /\ Len(t) \in Nat /\ Len(u) \in Nat
    BY LenProperties
  <1>2. Len(t) = Len(u)
    BY <1>1 DEF Parts
  <1>3. \A i \in 1 .. Len(p) : p[i] = q[i]
    BY DEF Parts
  <1>4. \A i \in 1 .. Len(t) : t[i] = u[i]
    BY <1>2 DEF Parts
  <1> QED
    BY <1>2, <1>3, <1>4, SeqEqual

LEMMA PartsExtend ==
    ASSUME NEW s \in Seq(Letters), NEW w \in Seq(Letters), NEW p \in Seq(Letters),
           NEW t \in Seq(Letters), NEW c \in Seq(Letters), Parts(s, p, w, t)
    PROVE  Parts(s \o c, p, w, t \o c)
  <1>1. /\ Len(s) \in Nat /\ Len(w) \in Nat /\ Len(p) \in Nat /\ Len(t) \in Nat /\ Len(c) \in Nat
        /\ Len(s \o c) = Len(s) + Len(c) /\ Len(t \o c) = Len(t) + Len(c)
        /\ \A i \in 1 .. Len(s) : (s \o c)[i] = s[i]
        /\ \A i \in 1 .. Len(c) : (s \o c)[Len(s) + i] = c[i]
        /\ \A i \in 1 .. Len(t) : (t \o c)[i] = t[i]
        /\ \A i \in 1 .. Len(c) : (t \o c)[Len(t) + i] = c[i]
    BY LettersAreSymbols, Glued
  <1> DEFINE x == s \o c
             y == t \o c
  <1> HIDE DEF x, y
  <1>2. /\ Len(x) = Len(p) + Len(w) + Len(y)
        /\ \A i \in 1 .. Len(p) : x[i] = p[i]
    BY <1>1 DEF Parts, x, y
  <1>3. ASSUME NEW i \in 1 .. Len(w) PROVE x[Len(p) + i] = w[i]
    <2>1. Len(p) + i \in 1 .. Len(s) /\ s[Len(p) + i] = w[i]
      BY <1>1 DEF Parts
    <2> QED
      BY <1>1, <2>1 DEF x
  <1>4. ASSUME NEW i \in 1 .. Len(y) PROVE x[Len(p) + Len(w) + i] = y[i]
    <2>1. CASE i <= Len(t)
      <3>1. i \in 1 .. Len(t) /\ Len(p) + Len(w) + i \in 1 .. Len(s)
        BY <1>1, <2>1 DEF Parts
      <3> QED
        BY <1>1, <3>1 DEF Parts, x, y
    <2>2. CASE i > Len(t)
      <3>1. /\ i - Len(t) \in 1 .. Len(c) /\ i = Len(t) + (i - Len(t))
            /\ Len(p) + Len(w) + i = Len(s) + (i - Len(t))
        BY <1>1, <2>2 DEF Parts, y
      <3>2. y[Len(t) + (i - Len(t))] = c[i - Len(t)]
        BY <1>1, <3>1 DEF y
      <3>3. x[Len(s) + (i - Len(t))] = c[i - Len(t)]
        BY <1>1, <3>1 DEF x
      <3> QED
        BY <3>1, <3>2, <3>3
    <2> QED
      BY <1>1, <2>1, <2>2 DEF y
  <1> QED
    BY <1>2, <1>3, <1>4 DEF Parts, x, y

LEMMA PartsPrepend ==
    ASSUME NEW s \in Seq(Letters), NEW w \in Seq(Letters), NEW p \in Seq(Letters),
           NEW t \in Seq(Letters), NEW r \in Seq(Letters), Parts(s, p, w, t)
    PROVE  Parts(r \o s, r \o p, w, t)
  <1>1. /\ Len(s) \in Nat /\ Len(w) \in Nat /\ Len(p) \in Nat /\ Len(t) \in Nat /\ Len(r) \in Nat
        /\ Len(r \o s) = Len(r) + Len(s) /\ Len(r \o p) = Len(r) + Len(p)
        /\ \A i \in 1 .. Len(r) : (r \o s)[i] = r[i] /\ (r \o p)[i] = r[i]
        /\ \A i \in 1 .. Len(s) : (r \o s)[Len(r) + i] = s[i]
        /\ \A i \in 1 .. Len(p) : (r \o p)[Len(r) + i] = p[i]
    BY LettersAreSymbols, Glued
  <1> DEFINE x == r \o s
             y == r \o p
  <1> HIDE DEF x, y
  <1>2. Len(x) = Len(y) + Len(w) + Len(t) /\ Len(y) = Len(r) + Len(p)
    BY <1>1 DEF Parts, x, y
  <1>3. ASSUME NEW i \in 1 .. Len(y) PROVE x[i] = y[i]
    <2>1. CASE i <= Len(r)
      BY <1>1, <2>1 DEF x, y
    <2>2. CASE i > Len(r)
      <3>1. /\ i - Len(r) \in 1 .. Len(p) /\ i - Len(r) \in 1 .. Len(s)
            /\ i = Len(r) + (i - Len(r))
        BY <1>1, <1>2, <2>2 DEF Parts
      <3>2. x[Len(r) + (i - Len(r))] = s[i - Len(r)]
        BY <1>1, <3>1 DEF x
      <3>3. y[Len(r) + (i - Len(r))] = p[i - Len(r)]
        BY <1>1, <3>1 DEF y
      <3> QED
        BY <3>1, <3>2, <3>3 DEF Parts
    <2> QED
      BY <1>1, <1>2, <2>1, <2>2
  <1>4. ASSUME NEW i \in 1 .. Len(w) PROVE x[Len(y) + i] = w[i]
    <2>1. /\ Len(p) + i \in 1 .. Len(s) /\ s[Len(p) + i] = w[i]
          /\ Len(y) + i = Len(r) + (Len(p) + i)
      BY <1>1, <1>2 DEF Parts
    <2> QED
      BY <1>1, <2>1 DEF x
  <1>5. ASSUME NEW i \in 1 .. Len(t) PROVE x[Len(y) + Len(w) + i] = t[i]
    <2>1. /\ Len(p) + Len(w) + i \in 1 .. Len(s) /\ s[Len(p) + Len(w) + i] = t[i]
          /\ Len(y) + Len(w) + i = Len(r) + (Len(p) + Len(w) + i)
      BY <1>1, <1>2 DEF Parts
    <2> QED
      BY <1>1, <2>1 DEF x
  <1> QED
    BY <1>2, <1>3, <1>4, <1>5 DEF Parts, x, y

-----------------------------------------------------------------------------
(* Occurrences in what was put together.                                   *)

LEMMA SpelledShift ==
    ASSUME NEW a \in Seq(Symbols), NEW b \in Seq(Symbols), NEW w \in Seq(Letters),
           NEW i \in Nat \ {0}
    PROVE  Spelled(a \o b, Len(a) + i, w) <=> Spelled(b, i, w)
  <1>1. /\ Len(a) \in Nat /\ Len(b) \in Nat /\ Len(w) \in Nat
        /\ Len(a \o b) = Len(a) + Len(b)
        /\ \A j \in 1 .. Len(b) : (a \o b)[Len(a) + j] = b[j]
    BY Glued, LenProperties
  <1>2. ASSUME i + Len(w) - 1 <= Len(b), NEW k \in 1 .. Len(w)
        PROVE  (a \o b)[Len(a) + i + k - 1] = b[i + k - 1]
    <2>1. i + k - 1 \in 1 .. Len(b) /\ Len(a) + i + k - 1 = Len(a) + (i + k - 1)
      BY <1>1, <1>2
    <2>2. (a \o b)[Len(a) + (i + k - 1)] = b[i + k - 1]
      BY <1>1, <2>1
    <2> QED
      BY <2>1, <2>2
  <1>3. Len(a) + i + Len(w) - 1 <= Len(a \o b) <=> i + Len(w) - 1 <= Len(b)
    BY <1>1
  <1>4. CASE i + Len(w) - 1 <= Len(b)
    BY <1>2, <1>3, <1>4, Zenon DEF Spelled
  <1>5. CASE ~ (i + Len(w) - 1 <= Len(b))
    BY <1>3, <1>5, Zenon DEF Spelled
  <1> QED
    BY <1>4, <1>5

LEMMA SpelledSame ==
    ASSUME NEW x, NEW y, NEW w \in Seq(Letters), NEW i \in Nat \ {0}, NEW n \in Nat,
           Spelled(x, i, w), i + Len(w) - 1 <= n, \A j \in 1 .. n : x[j] = y[j],
           Len(y) \in Nat, n <= Len(y)
    PROVE  Spelled(y, i, w)
  <1>1. Len(w) \in Nat
    BY LenProperties
  <1>2. \A k \in 1 .. Len(w) : i + k - 1 \in 1 .. n
    BY <1>1
  <1> QED
    BY <1>1, <1>2 DEF Spelled

\* No credential goes across a replacement.
LEMMA SpelledBefore ==
    ASSUME NEW x, NEW w \in Seq(Letters), NEW i \in Nat \ {0}, NEW j \in Nat,
           Spelled(x, i, w), x[j] = Marker, i <= j
    PROVE  i + Len(w) - 1 < j
  <1>1. Len(w) \in Nat /\ \A k \in 1 .. Len(w) : w[k] \in Letters
    BY LettersAreSymbols
  <1> SUFFICES ASSUME i + Len(w) - 1 >= j PROVE FALSE
    BY <1>1
  <1>2. j - i + 1 \in 1 .. Len(w) /\ i + (j - i + 1) - 1 = j
    BY <1>1
  <1>3. x[i + (j - i + 1) - 1] = w[j - i + 1]
    BY <1>2 DEF Spelled
  <1> QED
    BY <1>1, <1>2, <1>3, RedactionAssumption

-----------------------------------------------------------------------------
(* What the redactor makes of a text.                                      *)

LEMMA NothingFound ==
    ASSUME NEW S, Words(S), NEW s \in Seq(Letters), Clear(S, s, Len(s))
    PROVE  ReplacedBy(S)[s] = [out |-> <<>>, rest |-> s, count |-> 0]
  BY ReplacedSteps, ClearIs DEF Step

\* What is made of s when the first word found comes after p and before t.
Yields(S, s, p, t) ==
    ReplacedBy(S)[s] = [out   |-> p \o <<Marker>> \o ReplacedBy(S)[t].out,
                        rest  |-> ReplacedBy(S)[t].rest,
                        count |-> ReplacedBy(S)[t].count + 1]

LEMMA FoundAt ==
    ASSUME NEW S, Words(S), NEW s \in Seq(Letters), NEW i, NEW w, First(S, s, i, w),
           NEW p \in Seq(Letters), NEW t \in Seq(Letters), Parts(s, p, w, t), Len(p) = i - 1
    PROVE  Yields(S, s, p, t)
  <1>1. /\ w \in Seq(Letters) /\ Len(w) > 0 /\ Len(w) \in Nat
        /\ i \in 1 .. Len(s) /\ Spelled(s, i, w)
    BY WordsAre DEF First
  <1> DEFINE q == SubSeq(s, 1, i - 1)
             u == SubSeq(s, i + Len(w), Len(s))
  <1>2. q \in Seq(Letters) /\ u \in Seq(Letters) /\ Len(q) = i - 1 /\ Parts(s, q, w, u)
    BY <1>1, Cut
  <1>3. NextOf(S, s) = <<i, w>> /\ MatchesOf(S, s) # {}
    BY FirstIs
  <1>4. Yields(S, s, q, u)
    <2> DEFINE R == ReplacedBy(S)
    <2>1. R[s] = Step(S, R, s)
      BY ReplacedSteps
    <2>2. After(s, <<i, w>>) = u /\ SubSeq(s, 1, <<i, w>>[1] - 1) = q
      BY DEF After
    <2> HIDE DEF q, u, R
    <2>3. R[s] = [out |-> q \o <<Marker>> \o R[u].out, rest |-> R[u].rest,
                  count |-> R[u].count + 1]
      BY <1>3, <2>1, <2>2, Zenon DEF Step
    <2> QED
      BY <2>3 DEF R, Yields
  <1> HIDE DEF q, u
  <1>5. p = q /\ t = u
    BY <1>1, <1>2, PartsAreUnique
  <1> QED
    BY <1>4, <1>5

\* The parts of a text in which something is found.
LEMMA Found ==
    ASSUME NEW S, Words(S), NEW s \in Seq(Letters), ~Clear(S, s, Len(s))
    PROVE  \E i \in 1 .. Len(s), w \in S, p \in Seq(Letters), t \in Seq(Letters) :
             /\ First(S, s, i, w) /\ Parts(s, p, w, t) /\ Len(p) = i - 1 /\ Len(t) < Len(s)
             /\ Yields(S, s, p, t)
  <1>1. PICK i \in 1 .. Len(s), w \in S : First(S, s, i, w)
    BY FirstExists
  <1>2. w \in Seq(Letters) /\ Len(w) > 0 /\ Spelled(s, i, w)
    BY <1>1, WordsAre DEF First
  <1>3. PICK p \in Seq(Letters), t \in Seq(Letters) :
          Len(p) = i - 1 /\ Len(t) < Len(s) /\ Parts(s, p, w, t)
    BY <1>2, Cut
  <1>4. Yields(S, s, p, t)
    BY <1>1, <1>3, FoundAt, Zenon
  <1> QED
    BY <1>1, <1>3, <1>4

IsResult(S, R) ==
    /\ R.out \in Seq(Symbols) /\ R.rest \in Seq(Letters) /\ R.count \in Nat
    /\ R = [out |-> R.out, rest |-> R.rest, count |-> R.count]
    /\ Clear(S, R.rest, Len(R.rest))

LEMMA MarkerIsASymbol == <<Marker>> \in Seq(Symbols) /\ Len(<<Marker>>) = 1 /\ <<Marker>>[1] = Marker
  BY DEF Symbols

LEMMA ReplacedTypes ==
    ASSUME NEW S, Words(S)
    PROVE  \A s \in Seq(Letters) : IsResult(S, ReplacedBy(S)[s])
  <1> DEFINE G == {s \in Seq(Letters) : IsResult(S, ReplacedBy(S)[s])}
  <1>1. ASSUME NEW s \in Seq(Letters), \A t \in Seq(Letters) : Len(t) < Len(s) => t \in G
        PROVE  s \in G
    <2>1. CASE Clear(S, s, Len(s))
      <3>1. ReplacedBy(S)[s] = [out |-> <<>>, rest |-> s, count |-> 0]
        BY <2>1, NothingFound
      <3>2. <<>> \in Seq(Symbols)
        BY EmptySeq
      <3>3. IsResult(S, [out |-> <<>>, rest |-> s, count |-> 0])
        BY <2>1, <3>2 DEF IsResult
      <3> QED
        BY <3>1, <3>3, Zenon
    <2>2. CASE ~Clear(S, s, Len(s))
      <3>1. PICK i \in 1 .. Len(s), w \in S, p \in Seq(Letters), t \in Seq(Letters) :
              /\ Len(t) < Len(s)
              /\ Yields(S, s, p, t)
        BY <2>2, Found
      <3> DEFINE L == ReplacedBy(S)[t]
                 o == p \o <<Marker>> \o L.out
      <3>2. IsResult(S, L)
        BY <1>1, <3>1
      <3>3. ReplacedBy(S)[s] = [out |-> o, rest |-> L.rest, count |-> L.count + 1]
        BY <3>1, Zenon DEF Yields
      <3> HIDE DEF L
      <3>4. o \in Seq(Symbols)
        <4>1. p \in Seq(Symbols) /\ L.out \in Seq(Symbols)
          BY <3>2, LettersAreSymbols DEF IsResult
        <4>2. p \o <<Marker>> \in Seq(Symbols)
          BY <4>1, Glued, MarkerIsASymbol
        <4> QED
          BY <4>1, <4>2, Glued
      <3> HIDE DEF o
      <3>5. IsResult(S, [out |-> o, rest |-> L.rest, count |-> L.count + 1])
        BY <3>2, <3>4 DEF IsResult
      <3> QED
        BY <3>3, <3>5, Zenon
    <2> QED
      BY <2>1, <2>2
  <1> HIDE DEF G
  <1>2. Seq(Letters) \subseteq G
    BY <1>1, ByLength
  <1> QED
    BY <1>2 DEF G

LEMMA Assembled ==
    ASSUME NEW a \in Seq(Symbols), NEW b \in Seq(Symbols), NEW c \in Seq(Symbols),
           NEW d \in Seq(Symbols)
    PROVE  a \o ((b \o c) \o d) = (a \o b) \o (c \o d)
  <1>1. b \o c \in Seq(Symbols) /\ c \o d \in Seq(Symbols)
    BY Glued
  <1>2. (b \o c) \o d = b \o (c \o d)
    BY ConcatAssociative
  <1> DEFINE y == c \o d
  <1> HIDE DEF y
  <1>3. (a \o b) \o y = a \o (b \o y)
    BY <1>1, ConcatAssociative DEF y
  <1> QED
    BY <1>2, <1>3 DEF y

LEMMA ReleaseIsClear ==
    ASSUME NEW S, Words(S)
    PROVE  \A s \in Seq(Letters) : \A u \in Seq(Symbols) :
             Clear(S, u \o s, Len(u)) =>
               LET x == u \o (ReplacedBy(S)[s].out \o ReplacedBy(S)[s].rest)
               IN  Clear(S, x, Len(x))
  <1> DEFINE X(s, u) == u \o (ReplacedBy(S)[s].out \o ReplacedBy(S)[s].rest)
             G == {s \in Seq(Letters) : \A u \in Seq(Symbols) :
                     Clear(S, u \o s, Len(u)) => Clear(S, X(s, u), Len(X(s, u)))}
  <1>1. ASSUME NEW s \in Seq(Letters), \A t \in Seq(Letters) : Len(t) < Len(s) => t \in G,
               NEW u \in Seq(Symbols), Clear(S, u \o s, Len(u))
        PROVE  Clear(S, X(s, u), Len(X(s, u)))
    <2>0. s \in Seq(Symbols) /\ Len(s) \in Nat /\ Len(u) \in Nat
      BY LettersAreSymbols, LenProperties
    <2>1. CASE Clear(S, s, Len(s))
      <3>1. X(s, u) = u \o s
        <4>1. ReplacedBy(S)[s].out = <<>> /\ ReplacedBy(S)[s].rest = s
          <5>1. ReplacedBy(S)[s] = [out |-> <<>>, rest |-> s, count |-> 0]
            BY <2>1, NothingFound
          <5> QED
            BY <5>1
        <4> QED
          BY <4>1, ConcatEmptySeq
      <3>2. Len(u \o s) = Len(u) + Len(s)
        BY <2>0, Glued
      <3>3. ASSUME NEW w \in S, NEW i \in 1 .. Len(u \o s), Spelled(u \o s, i, w)
            PROVE  FALSE
        <4>1. i > Len(u)
          BY <1>1, <2>0, <3>2, <3>3 DEF Clear
        <4>2. i - Len(u) \in Nat \ {0} /\ i = Len(u) + (i - Len(u)) /\ i - Len(u) \in 1 .. Len(s)
          BY <2>0, <3>2, <4>1
        <4>3. Spelled(s, i - Len(u), w)
          BY <2>0, <3>3, <4>2, SpelledShift, WordsAre
        <4> QED
          BY <2>1, <4>2, <4>3 DEF Clear
      <3> HIDE DEF X
      <3> QED
        BY <3>1, <3>3 DEF Clear
    <2>2. CASE ~Clear(S, s, Len(s))
      <3>1. PICK m \in 1 .. Len(s), c \in S, p \in Seq(Letters), t \in Seq(Letters) :
              /\ First(S, s, m, c) /\ Parts(s, p, c, t) /\ Len(p) = m - 1
              /\ Len(t) < Len(s) /\ Yields(S, s, p, t)
        BY <2>2, Found
      <3> DEFINE L == ReplacedBy(S)[t]
                 v == u \o (p \o <<Marker>>)
      <3>2. /\ ReplacedBy(S)[s].out = p \o <<Marker>> \o L.out
            /\ ReplacedBy(S)[s].rest = L.rest
        <4> DEFINE o == p \o <<Marker>> \o L.out
        <4>1. ReplacedBy(S)[s] = [out |-> o, rest |-> L.rest, count |-> L.count + 1]
          BY <3>1, Zenon DEF Yields
        <4> HIDE DEF o, L
        <4>2. ReplacedBy(S)[s].out = o /\ ReplacedBy(S)[s].rest = L.rest
          BY <4>1
        <4> QED
          BY <4>2, Zenon DEF o
      <3>4. \A w \in S, i \in 1 .. Len(p) : ~Spelled(s, i, w)
        <4> SUFFICES ASSUME NEW w \in S, NEW i \in 1 .. Len(p), Spelled(s, i, w) PROVE FALSE
          OBVIOUS
        <4>1. i \in 1 .. Len(s) /\ i < m /\ m \in Nat
          BY <2>0, <3>1
        <4>2. m < i \/ m = i
          BY <3>1, <4>1 DEF First
        <4> QED
          BY <4>1, <4>2
      <3> HIDE DEF L
      <3>5. X(s, u) = v \o (L.out \o L.rest)
        <4>1. L.out \in Seq(Symbols) /\ L.rest \in Seq(Symbols) /\ p \in Seq(Symbols)
          BY ReplacedTypes, LettersAreSymbols DEF L, IsResult
        <4>2. v \o (L.out \o L.rest) = u \o (((p \o <<Marker>>) \o L.out) \o L.rest)
          <5>1. p \o <<Marker>> \in Seq(Symbols)
            BY <4>1, Glued, MarkerIsASymbol
          <5> DEFINE pm == p \o <<Marker>>
          <5> HIDE DEF pm
          <5>2. u \o ((pm \o L.out) \o L.rest) = (u \o pm) \o (L.out \o L.rest)
            <6>1. pm \in Seq(Symbols)
              BY <5>1 DEF pm
            <6>2. \A o, r \in Seq(Symbols) : u \o ((pm \o o) \o r) = (u \o pm) \o (o \o r)
              BY <6>1, Assembled
            <6> QED
              BY <4>1, <6>2, Zenon
          <5> QED
            BY <5>2 DEF pm
        <4> QED
          BY <3>2, <4>2, Zenon
      <3>6. /\ v \in Seq(Symbols) /\ Len(v) = Len(u) + Len(p) + 1 /\ v[Len(u) + Len(p) + 1] = Marker
            /\ \A j \in 1 .. Len(u) : v[j] = u[j]
            /\ \A j \in 1 .. Len(p) : v[Len(u) + j] = p[j]
            /\ Len(p) \in Nat
        <4>1. /\ p \in Seq(Symbols) /\ <<Marker>> \in Seq(Symbols) /\ Len(<<Marker>>) = 1
              /\ <<Marker>>[1] = Marker
          BY LettersAreSymbols DEF Symbols
        <4> DEFINE pm == p \o <<Marker>>
        <4>2. /\ pm \in Seq(Symbols) /\ Len(pm) = Len(p) + 1 /\ Len(p) \in Nat
              /\ pm[Len(p) + 1] = Marker /\ \A j \in 1 .. Len(p) : pm[j] = p[j]
          BY <4>1, Glued
        <4> HIDE DEF pm
        <4>3. /\ u \o pm \in Seq(Symbols) /\ Len(u \o pm) = Len(u) + Len(pm)
              /\ \A j \in 1 .. Len(u) : (u \o pm)[j] = u[j]
              /\ \A j \in 1 .. Len(pm) : (u \o pm)[Len(u) + j] = pm[j]
          BY <4>2, Glued
        <4>4. Len(p) + 1 \in 1 .. Len(pm) /\ \A j \in 1 .. Len(p) : j \in 1 .. Len(pm)
          BY <4>2
        <4>5. Len(u) + Len(p) + 1 = Len(u) + (Len(p) + 1)
          BY <2>0, <4>2
        <4>6. v = u \o pm
          BY DEF pm
        <4> HIDE DEF v
        <4> QED
          BY <4>2, <4>3, <4>4, <4>5, <4>6
      <3> HIDE DEF v
      <3>7. Clear(S, v \o t, Len(v))
        <4>1. /\ Len(u \o s) = Len(u) + Len(s) /\ Len(v \o t) = Len(v) + Len(t)
              /\ \A j \in 1 .. Len(u) : (u \o s)[j] = u[j]
              /\ \A j \in 1 .. Len(s) : (u \o s)[Len(u) + j] = s[j]
              /\ \A j \in 1 .. Len(v) : (v \o t)[j] = v[j]
              /\ Len(t) \in Nat
          BY <2>0, <3>6, LettersAreSymbols, Glued
        <4>0. Len(p) \in Nat /\ Len(u) \in Nat /\ Len(s) \in Nat /\ Len(p) < Len(s)
                /\ Len(v) = Len(u) + Len(p) + 1
          <5>1. m - 1 < Len(s) /\ Len(p) = m - 1
            BY <2>0, <3>1
          <5> QED
            BY <2>0, <3>6, <5>1
        <4>2. ASSUME NEW j \in 1 .. (Len(u) + Len(p)) PROVE (v \o t)[j] = (u \o s)[j]
          <5>1. CASE j <= Len(u)
            BY <2>0, <3>6, <4>1, <5>1
          <5>2. CASE j > Len(u)
            <6>1. /\ j - Len(u) \in 1 .. Len(p) /\ j = Len(u) + (j - Len(u)) /\ j \in 1 .. Len(v)
                  /\ j - Len(u) \in 1 .. Len(s)
              BY <4>0, <5>2
            <6>2. (v \o t)[j] = p[j - Len(u)]
              BY <3>6, <4>1, <6>1
            <6>3. (u \o s)[Len(u) + (j - Len(u))] = s[j - Len(u)]
              BY <4>1, <6>1
            <6>4. s[j - Len(u)] = p[j - Len(u)]
              BY <3>1, <6>1 DEF Parts
            <6> QED
              BY <6>1, <6>2, <6>3, <6>4
          <5> QED
            BY <4>0, <5>1, <5>2
        <4>3. ASSUME NEW w \in S, NEW i \in 1 .. Len(v), Spelled(v \o t, i, w)
              PROVE  FALSE
          <5>1. w \in Seq(Letters) /\ Len(w) \in Nat \ {0} /\ i \in Nat \ {0}
            BY WordsAre
          <5>2. (v \o t)[Len(v)] = Marker /\ i <= Len(v) /\ Len(v) \in Nat
            BY <2>0, <3>6, <4>1
          <5>3. i + Len(w) - 1 < Len(v)
            BY <4>3, <5>1, <5>2, SpelledBefore
          <5>4. /\ i + Len(w) - 1 <= Len(u) + Len(p) /\ Len(u) + Len(p) \in Nat
                /\ Len(u \o s) \in Nat /\ Len(u) + Len(p) <= Len(u \o s)
            <6>1. Len(u \o s) = Len(u) + Len(s)
              BY <4>1
            <6> QED
              BY <4>0, <5>1, <5>3, <6>1
          <5>5. Spelled(u \o s, i, w)
            BY <4>2, <4>3, <5>1, <5>4, SpelledSame
          <5>6. i > Len(u)
            BY <1>1, <2>0, <5>1, <5>5 DEF Clear
          <5>7. /\ i - Len(u) \in Nat \ {0} /\ i = Len(u) + (i - Len(u))
                /\ i - Len(u) \in 1 .. Len(p)
            BY <2>0, <3>6, <5>1, <5>4, <5>6
          <5>8. Spelled(s, i - Len(u), w)
            BY <2>0, <5>1, <5>5, <5>7, SpelledShift
          <5> QED
            BY <3>4, <5>7, <5>8
        <4> QED
          BY <4>3 DEF Clear
      <3>8. Clear(S, X(t, v), Len(X(t, v)))
        BY <1>1, <3>1, <3>6, <3>7
      <3>9. X(t, v) = X(s, u)
        BY <3>5 DEF L
      <3> HIDE DEF X
      <3> QED
        BY <3>8, <3>9
    <2> QED
      BY <2>1, <2>2
  <1>2. Seq(Letters) \subseteq G
    <2>1. \A s \in Seq(Letters) :
            (\A t \in Seq(Letters) : Len(t) < Len(s) => t \in G) => s \in G
      BY <1>1
    <2> HIDE DEF G
    <2> QED
      BY <2>1, ByLength
  <1> QED
    BY <1>2

LEMMA Associative ==
    \A a, b, c \in Seq(Symbols) : (a \o b) \o c = a \o (b \o c)
  BY ConcatAssociative

\* What was released or is held spells nothing.  Then nothing that starts in what was
\* released is completed by what is read next, if as much is held as a credential needs or
\* the last that was released is a replacement.
LEMMA NothingAcross ==
    ASSUME NEW S, Words(S), NEW M \in Nat, \A w \in S : Len(w) <= M,
           NEW a \in Seq(Symbols), NEW b \in Seq(Letters), NEW c \in Seq(Letters),
           Clear(S, a \o b, Len(a \o b)),
           a = <<>> \/ a[Len(a)] = Marker \/ Len(b) = M - 1
    PROVE  Clear(S, a \o (b \o c), Len(a))
  <1> SUFFICES ASSUME NEW w \in S, NEW i \in 1 .. Len(a), Spelled(a \o (b \o c), i, w)
               PROVE  FALSE
    BY DEF Clear
  <1>1. /\ b \in Seq(Symbols) /\ c \in Seq(Symbols) /\ b \o c \in Seq(Symbols)
        /\ a \o b \in Seq(Symbols)
    BY LettersAreSymbols, Glued
  <1>2. /\ Len(a) \in Nat /\ Len(b) \in Nat /\ Len(c) \in Nat
        /\ Len(a \o b) = Len(a) + Len(b) /\ Len(b \o c) = Len(b) + Len(c)
        /\ Len(a \o (b \o c)) = Len(a) + Len(b \o c)
    BY <1>1, Glued
  <1>3. w \in Seq(Letters) /\ Len(w) \in Nat \ {0} /\ Len(w) <= M /\ i \in Nat \ {0}
    BY WordsAre
  <1>4. (a \o b) \o c = a \o (b \o c)
    BY <1>1, Associative
  <1> DEFINE x == a \o (b \o c)
             y == a \o b
  <1>5. \A j \in 1 .. Len(y) : x[j] = y[j]
    <2>1. \A j \in 1 .. Len(y) : (y \o c)[j] = y[j]
      BY <1>1, Glued
    <2> QED
      BY <1>4, <2>1
  <1>6. x[Len(a)] = a[Len(a)]
    <2>1. Len(a) \in 1 .. Len(a)
      BY <1>2
    <2> QED
      BY <1>1, <2>1, Glued
  <1>7. Spelled(x, i, w) /\ Len(y) = Len(a) + Len(b) /\ Len(y) \in Nat
    BY <1>2
  <1>8. i + Len(w) - 1 <= Len(y)
    <2> HIDE DEF x, y
    <2>1. CASE a = <<>>
      <3>1. Len(a) = 0
        BY <2>1
      <3> QED
        BY <3>1
    <2>2. CASE a[Len(a)] = Marker
      <3>1. i + Len(w) - 1 < Len(a)
        BY <1>2, <1>3, <1>6, <1>7, <2>2, SpelledBefore
      <3> QED
        BY <1>2, <1>3, <1>7, <3>1
    <2>3. CASE Len(b) = M - 1
      BY <1>2, <1>3, <1>7, <2>3
    <2> QED
      BY <2>1, <2>2, <2>3
  <1>9. i \in 1 .. Len(y) /\ Clear(S, y, Len(y)) /\ Len(y) <= Len(y)
    BY <1>2
  <1> HIDE DEF x, y
  <1>10. Spelled(y, i, w)
    BY <1>3, <1>5, <1>7, <1>8, <1>9, SpelledSame
  <1> QED
    BY <1>9, <1>10 DEF Clear

\* If nothing starts in r, r is left as it is.
LEMMA DropPrefix ==
    ASSUME NEW S, Words(S), NEW r \in Seq(Letters), NEW b \in Seq(Letters),
           Clear(S, r \o b, Len(r))
    PROVE  LET R == ReplacedBy(S) IN
           /\ R[r \o b].count = R[b].count
           /\ \E q \in Seq(Letters) :
                /\ q = <<>> \/ (q = r /\ R[b].rest = b)
                /\ R[r \o b].rest = q \o R[b].rest
                /\ R[r \o b].out \o q = r \o R[b].out
  <1>1. /\ r \in Seq(Symbols) /\ b \in Seq(Symbols) /\ r \o b \in Seq(Letters)
        /\ Len(r) \in Nat /\ Len(b) \in Nat /\ Len(r \o b) = Len(r) + Len(b)
    BY LettersAreSymbols, GluedLetters, Glued
  <1>2. ASSUME NEW w \in S, NEW j \in 1 .. Len(r \o b), Spelled(r \o b, j, w)
        PROVE  j - Len(r) \in 1 .. Len(b) /\ Spelled(b, j - Len(r), w)
    <2>1. j > Len(r)
      BY <1>1, <1>2 DEF Clear
    <2>2. /\ j - Len(r) \in 1 .. Len(b) /\ j - Len(r) \in Nat \ {0}
          /\ j = Len(r) + (j - Len(r))
      BY <1>1, <2>1
    <2> QED
      BY <1>1, <1>2, <2>2, SpelledShift, WordsAre
  <1>3. CASE Clear(S, b, Len(b))
    <2>1. Clear(S, r \o b, Len(r \o b))
      BY <1>2, <1>3 DEF Clear
    <2>2. /\ ReplacedBy(S)[b] = [out |-> <<>>, rest |-> b, count |-> 0]
          /\ ReplacedBy(S)[r \o b] = [out |-> <<>>, rest |-> r \o b, count |-> 0]
      BY <1>1, <1>3, <2>1, NothingFound
    <2>3. <<>> \o r = r \o <<>>
      BY ConcatEmptySeq
    <2> DEFINE A == ReplacedBy(S)[r \o b]
               B == ReplacedBy(S)[b]
    <2>4. A.count = B.count /\ B.rest = b /\ A.rest = r \o B.rest /\ A.out \o r = r \o B.out
      <3>1. /\ B = [out |-> <<>>, rest |-> b, count |-> 0]
            /\ A = [out |-> <<>>, rest |-> r \o b, count |-> 0]
        BY <2>2
      <3> HIDE DEF A, B
      <3> QED
        BY <2>3, <3>1
    <2> QED
      BY <2>4, Zenon
  <1>4. CASE ~Clear(S, b, Len(b))
    <2>1. PICK i \in 1 .. Len(b), w \in S, p \in Seq(Letters), t \in Seq(Letters) :
            /\ First(S, b, i, w) /\ Parts(b, p, w, t) /\ Len(p) = i - 1 /\ Yields(S, b, p, t)
      BY <1>4, Found
    <2> DEFINE n == Len(r) + i
    <2>2. n \in 1 .. Len(r \o b) /\ i \in Nat \ {0} /\ n - 1 = Len(r) + (i - 1)
      BY <1>1
    <2>3. w \in Seq(Letters) /\ Spelled(r \o b, n, w)
      <3>1. w \in Seq(Letters) /\ Spelled(b, i, w)
        BY <2>1, WordsAre DEF First
      <3> QED
        BY <1>1, <2>2, <3>1, SpelledShift
    <2>4. ASSUME NEW j \in 1 .. Len(r \o b), NEW v \in S, Spelled(r \o b, j, v)
          PROVE  n < j \/ (n = j /\ Len(w) >= Len(v))
      <3>1. j - Len(r) \in 1 .. Len(b) /\ Spelled(b, j - Len(r), v)
        BY <1>2, <2>4
      <3>2. i < j - Len(r) \/ (i = j - Len(r) /\ Len(w) >= Len(v))
        BY <2>1, <3>1 DEF First
      <3> QED
        BY <1>1, <3>2
    <2>5. First(S, r \o b, n, w)
      BY <2>2, <2>3, <2>4 DEF First
    <2>6. Parts(r \o b, r \o p, w, t) /\ r \o p \in Seq(Letters) /\ Len(r \o p) = n - 1
      <3>1. Len(r \o p) = Len(r) + Len(p)
        BY <1>1, LettersAreSymbols, Glued
      <3> QED
        BY <2>1, <2>2, <2>3, <3>1, PartsPrepend, GluedLetters
    <2> HIDE DEF n
    <2>7. Yields(S, r \o b, r \o p, t)
      BY <1>1, <2>5, <2>6, FoundAt, Zenon
    <2> DEFINE L == ReplacedBy(S)[t]
               A == ReplacedBy(S)[r \o b]
               B == ReplacedBy(S)[b]
               m == p \o <<Marker>> \o L.out
               o == (r \o p) \o <<Marker>> \o L.out
    <2>8. /\ A = [out |-> o, rest |-> L.rest, count |-> L.count + 1]
          /\ B = [out |-> m, rest |-> L.rest, count |-> L.count + 1]
      BY <2>1, <2>7, Zenon DEF Yields
    <2>9. L.rest \in Seq(Letters) /\ L.out \in Seq(Symbols)
      BY ReplacedTypes DEF IsResult
    <2> HIDE DEF L
    <2>10. o \in Seq(Symbols) /\ o = r \o m
      <3>1. p \in Seq(Symbols) /\ <<Marker>> \in Seq(Symbols)
        BY LettersAreSymbols, MarkerIsASymbol
      <3>2. \A x \in Seq(Symbols) : (r \o p) \o <<Marker>> \o x = r \o (p \o <<Marker>> \o x)
        <4>1. TAKE x \in Seq(Symbols)
        <4>2. p \o <<Marker>> \in Seq(Symbols)
          BY <3>1, Glued
        <4>3. (r \o p) \o <<Marker>> = r \o (p \o <<Marker>>)
          BY <1>1, <3>1, Associative, Zenon
        <4>4. (r \o (p \o <<Marker>>)) \o x = r \o ((p \o <<Marker>>) \o x)
          BY <1>1, <4>2, Associative, Zenon
        <4> QED
          BY <4>3, <4>4, Zenon
      <3>3. \A x \in Seq(Symbols) : (r \o p) \o <<Marker>> \o x \in Seq(Symbols)
        BY <1>1, <3>1, Glued
      <3> QED
        BY <2>9, <3>2, <3>3, Zenon
    <2>11. o \o <<>> = o /\ <<>> \o L.rest = L.rest /\ <<>> \in Seq(Letters)
      <3> HIDE DEF o
      <3> QED
        BY <2>9, <2>10, ConcatEmptySeq, EmptySeq
    <2> HIDE DEF o, m
    <2>12. /\ A.out = o /\ A.rest = L.rest /\ A.count = L.count + 1
           /\ B.out = m /\ B.rest = L.rest /\ B.count = L.count + 1
      <3> HIDE DEF A, B
      <3> QED
        BY <2>8
    <2>13. /\ A.count = B.count /\ A.rest = <<>> \o B.rest /\ A.out \o <<>> = r \o B.out
      <3> HIDE DEF A, B
      <3> QED
        BY <2>10, <2>11, <2>12
    <2> QED
      BY <2>11, <2>13, Zenon
  <1> QED
    BY <1>3, <1>4

-----------------------------------------------------------------------------
(* If no credential is a part of another one, a text can be redacted in    *)
(* two goes.                                                               *)

PartFree(S) == \A v, w \in S : v # w => \A i \in 1 .. Len(w) : ~Spelled(w, i, v)

LEMMA SpelledInside ==
    ASSUME NEW x, NEW v \in Seq(Letters), NEW w \in Seq(Letters), Len(w) > 0,
           NEW i \in Nat \ {0}, NEW j \in Nat \ {0}, Spelled(x, i, w), Spelled(x, j, v),
           j <= i, i + Len(w) <= j + Len(v)
    PROVE  i - j + 1 \in 1 .. Len(v) /\ Spelled(v, i - j + 1, w)
  <1>1. Len(v) \in Nat /\ Len(w) \in Nat
    BY LenProperties
  <1>2. /\ i - j + 1 \in 1 .. Len(v)
        /\ (i - j + 1) + Len(w) - 1 <= Len(v)
    BY <1>1
  <1>3. ASSUME NEW k \in 1 .. Len(w) PROVE v[(i - j + 1) + k - 1] = w[k]
    <2> DEFINE n == (i - j + 1) + k - 1
    <2>1. n \in 1 .. Len(v) /\ j + n - 1 = i + k - 1
      BY <1>1
    <2> HIDE DEF n
    <2>2. x[j + n - 1] = v[n]
      BY <2>1 DEF Spelled
    <2>3. x[i + k - 1] = w[k]
      BY DEF Spelled
    <2> QED
      BY <2>1, <2>2, <2>3 DEF n
  <1> QED
    BY <1>2, <1>3 DEF Spelled

LEMMA FirstStays ==
    ASSUME NEW S, Words(S), PartFree(S), NEW s \in Seq(Letters), NEW c \in Seq(Letters),
           NEW i, NEW w, First(S, s, i, w)
    PROVE  First(S, s \o c, i, w)
  <1>1. /\ s \in Seq(Symbols) /\ c \in Seq(Symbols)
        /\ Len(s) \in Nat /\ Len(c) \in Nat /\ Len(s \o c) = Len(s) + Len(c)
        /\ \A j \in 1 .. Len(s) : (s \o c)[j] = s[j]
    BY LettersAreSymbols, Glued
  <1>2. /\ i \in 1 .. Len(s) /\ w \in S /\ Spelled(s, i, w) /\ w \in Seq(Letters)
        /\ Len(w) \in Nat \ {0} /\ i + Len(w) - 1 <= Len(s)
    BY WordsAre DEF First, Spelled
  <1> DEFINE x == s \o c
  <1>3. i \in 1 .. Len(x) /\ Len(x) \in Nat /\ Len(s) <= Len(x)
    BY <1>1, <1>2
  <1>4. \A j \in 1 .. Len(s) : x[j] = s[j] /\ s[j] = x[j]
    BY <1>1
  <1> HIDE DEF x
  <1>5. Spelled(x, i, w)
    <2>1. i \in Nat \ {0}
      BY <1>2
    <2> QED
      BY <1>1, <1>2, <1>3, <1>4, <2>1, SpelledSame
  <1>6. ASSUME NEW j \in 1 .. Len(x), NEW v \in S, Spelled(x, j, v)
        PROVE  i < j \/ (i = j /\ Len(w) >= Len(v))
    <2> SUFFICES ASSUME j <= i, j = i => Len(v) > Len(w) PROVE FALSE
      <3>1. Len(v) \in Nat
        BY WordsAre
      <3> QED
        BY <1>2, <3>1
    <2>1. /\ v \in Seq(Letters) /\ Len(v) \in Nat \ {0} /\ j \in Nat \ {0} /\ i \in Nat \ {0}
          /\ j \in 1 .. Len(s) /\ Len(s) <= Len(s)
      BY <1>1, <1>2, <1>3, WordsAre
    <2>2. CASE j + Len(v) - 1 <= Len(s)
      <3>1. Spelled(s, j, v)
        BY <1>1, <1>4, <1>6, <2>1, <2>2, SpelledSame
      <3>2. i < j \/ (i = j /\ Len(w) >= Len(v))
        BY <2>1, <3>1 DEF First
      <3> QED
        BY <1>2, <2>1, <3>2
    <2>3. CASE i + Len(w) <= j + Len(v) /\ Len(v) > Len(w)
      <3>1. i - j + 1 \in 1 .. Len(v) /\ Spelled(v, i - j + 1, w)
        BY <1>2, <1>5, <1>6, <2>1, <2>3, SpelledInside
      <3>2. v # w
        BY <1>2, <2>3
      <3> QED
        BY <1>2, <3>1, <3>2 DEF PartFree
    <2> QED
      BY <1>1, <1>2, <2>1, <2>2, <2>3
  <1> QED
    BY <1>2, <1>3, <1>5, <1>6 DEF First, x

\* W is what is made of the first part, V what is made of what was left of it and the second.
InTwoGoes(R, W, V) ==
    R.out = W.out \o V.out /\ R.rest = V.rest /\ R.count = W.count + V.count

LEMMA Composed ==
    ASSUME NEW S, Words(S), PartFree(S), NEW c \in Seq(Letters)
    PROVE  \A s \in Seq(Letters) :
             LET R == ReplacedBy(S) IN InTwoGoes(R[s \o c], R[s], R[R[s].rest \o c])
  <1> DEFINE R == ReplacedBy(S)
             G == {s \in Seq(Letters) : InTwoGoes(R[s \o c], R[s], R[R[s].rest \o c])}
  <1>1. ASSUME NEW s \in Seq(Letters), \A t \in Seq(Letters) : Len(t) < Len(s) => t \in G
        PROVE  InTwoGoes(R[s \o c], R[s], R[R[s].rest \o c])
    <2>1. CASE Clear(S, s, Len(s))
      <3>1. R[s] = [out |-> <<>>, rest |-> s, count |-> 0]
        BY <2>1, NothingFound
      <3>2. s \o c \in Seq(Letters)
        BY GluedLetters
      <3>3. IsResult(S, R[s \o c])
        BY <3>2, ReplacedTypes
      <3> HIDE DEF R
      <3>4. R[s].out = <<>> /\ R[s].rest = s /\ R[s].count = 0
        BY <3>1
      <3>5. R[s \o c].out \in Seq(Symbols) /\ R[s \o c].count \in Nat
        BY <3>3 DEF IsResult
      <3>6. <<>> \o R[s \o c].out = R[s \o c].out /\ 0 + R[s \o c].count = R[s \o c].count
        BY <3>5, ConcatEmptySeq
      <3> QED
        BY <3>4, <3>6 DEF InTwoGoes
    <2>2. CASE ~Clear(S, s, Len(s))
      <3>1. PICK i \in 1 .. Len(s), w \in S, p \in Seq(Letters), t \in Seq(Letters) :
              /\ First(S, s, i, w) /\ Parts(s, p, w, t) /\ Len(p) = i - 1
              /\ Len(t) < Len(s) /\ Yields(S, s, p, t)
        BY <2>2, Found
      <3>2. First(S, s \o c, i, w) /\ s \o c \in Seq(Letters) /\ t \o c \in Seq(Letters)
        BY <3>1, FirstStays, GluedLetters
      <3>3. Parts(s \o c, p, w, t \o c)
        BY <3>1, PartsExtend, WordsAre
      <3>4. Yields(S, s \o c, p, t \o c)
        BY <3>1, <3>2, <3>3, FoundAt, Zenon
      <3> DEFINE L == R[t]
                 V == R[L.rest \o c]
                 pm == p \o <<Marker>>
      <3>5. InTwoGoes(R[t \o c], L, V)
        BY <1>1, <3>1
      <3>6. R[s] = [out |-> pm \o L.out, rest |-> L.rest, count |-> L.count + 1]
        BY <3>1, Zenon DEF Yields
      <3>7. R[s \o c] = [out |-> pm \o R[t \o c].out, rest |-> R[t \o c].rest,
                         count |-> R[t \o c].count + 1]
        BY <3>4, Zenon DEF Yields
      <3>8. IsResult(S, L)
        BY ReplacedTypes
      <3>9. pm \in Seq(Symbols)
        BY LettersAreSymbols, Glued, MarkerIsASymbol
      <3>10. IsResult(S, V)
        <4>1. L.rest \o c \in Seq(Letters)
          BY <3>8, GluedLetters DEF IsResult
        <4> QED
          BY <4>1, ReplacedTypes
      <3> HIDE DEF pm
      <3>11. L.out \in Seq(Symbols) /\ L.count \in Nat /\ V.out \in Seq(Symbols) /\ V.count \in Nat
        BY <3>8, <3>10 DEF IsResult
      <3>12. (pm \o L.out) \o V.out = pm \o (L.out \o V.out)
        BY <3>9, <3>11, Associative, Zenon
      <3>13. R[s].out = pm \o L.out /\ R[s].rest = L.rest /\ R[s].count = L.count + 1
        <4> DEFINE o == pm \o L.out
        <4> HIDE DEF R, o
        <4> QED
          BY <3>6 DEF o
      <3>14. /\ R[s \o c].out = pm \o (L.out \o V.out) /\ R[s \o c].rest = V.rest
             /\ R[s \o c].count = L.count + V.count + 1
        <4> HIDE DEF R
        <4>1. /\ R[s \o c].out = pm \o R[t \o c].out /\ R[s \o c].rest = R[t \o c].rest
              /\ R[s \o c].count = R[t \o c].count + 1
          BY <3>7
        <4> QED
          BY <3>5, <4>1, Zenon DEF InTwoGoes
      <3>15. L.count + V.count + 1 = (L.count + 1) + V.count
        <4>1. \A x, y \in Nat : x + y + 1 = (x + 1) + y
          OBVIOUS
        <4> QED
          BY <3>11, <4>1, Zenon
      <3>16. R[R[s].rest \o c] = V
        BY <3>13, Zenon
      <3> HIDE DEF R, L, V
      <3> QED
        BY <3>12, <3>13, <3>14, <3>15, <3>16, Zenon DEF InTwoGoes
    <2> QED
      BY <2>1, <2>2
  <1>2. Seq(Letters) \subseteq G
    <2>1. \A s \in Seq(Letters) :
            (\A t \in Seq(Letters) : Len(t) < Len(s) => t \in G) => s \in G
      BY <1>1
    <2> HIDE DEF G
    <2> QED
      BY <2>1, ByLength
  <1> QED
    BY <1>2

-----------------------------------------------------------------------------
(* What is released at once, and what is held.                             *)

\* Either nothing is replaced, or the last that is released at once is a replacement.
LEMMA EndsReplaced ==
    ASSUME NEW S, Words(S)
    PROVE  \A s \in Seq(Letters) : LET R == ReplacedBy(S)[s] IN
             IF R.out = <<>> THEN R.rest = s ELSE R.out[Len(R.out)] = Marker
  <1> DEFINE P(s, R) == IF R.out = <<>> THEN R.rest = s ELSE R.out[Len(R.out)] = Marker
             G == {s \in Seq(Letters) : P(s, ReplacedBy(S)[s])}
  <1>1. ASSUME NEW s \in Seq(Letters), \A t \in Seq(Letters) : Len(t) < Len(s) => t \in G
        PROVE  P(s, ReplacedBy(S)[s])
    <2>1. CASE Clear(S, s, Len(s))
      <3>1. ReplacedBy(S)[s] = [out |-> <<>>, rest |-> s, count |-> 0]
        BY <2>1, NothingFound
      <3> QED
        BY <3>1
    <2>2. CASE ~Clear(S, s, Len(s))
      <3>1. PICK i \in 1 .. Len(s), w \in S, p \in Seq(Letters), t \in Seq(Letters) :
              Len(t) < Len(s) /\ Yields(S, s, p, t)
        BY <2>2, Found
      <3> DEFINE L == ReplacedBy(S)[t]
                 pm == p \o <<Marker>>
                 o == pm \o L.out
      <3>2. ReplacedBy(S)[s] = [out |-> o, rest |-> L.rest, count |-> L.count + 1]
        BY <3>1, Zenon DEF Yields
      <3>3. IsResult(S, L) /\ P(t, L)
        BY <1>1, <3>1, ReplacedTypes
      <3>4. pm \in Seq(Symbols) /\ Len(pm) \in Nat \ {0} /\ pm[Len(pm)] = Marker
        <4>1. /\ p \in Seq(Symbols) /\ <<Marker>> \in Seq(Symbols)
              /\ Len(<<Marker>>) = 1 /\ <<Marker>>[1] = Marker
          BY LettersAreSymbols, MarkerIsASymbol
        <4>2. /\ pm \in Seq(Symbols) /\ Len(pm) = Len(p) + 1 /\ Len(p) \in Nat
              /\ pm[Len(p) + 1] = Marker
          BY <4>1, Glued
        <4> HIDE DEF pm
        <4> QED
          BY <4>2
      <3> HIDE DEF L, pm
      <3>5. o[Len(o)] = Marker /\ Len(o) # 0
        <4>1. L.out \in Seq(Symbols) /\ (L.out = <<>> \/ L.out[Len(L.out)] = Marker)
          BY <3>3 DEF IsResult
        <4>2. \A x \in Seq(Symbols) :
                x = <<>> \/ x[Len(x)] = Marker =>
                   (pm \o x)[Len(pm \o x)] = Marker /\ Len(pm \o x) # 0
          <5>1. ASSUME NEW x \in Seq(Symbols), x = <<>>
                PROVE  (pm \o x)[Len(pm \o x)] = Marker /\ Len(pm \o x) # 0
            <6>1. pm \o x = pm
              BY <3>4, <5>1, ConcatEmptySeq
            <6> QED
              BY <3>4, <6>1
          <5>2. ASSUME NEW x \in Seq(Symbols), x # <<>>, x[Len(x)] = Marker
                PROVE  (pm \o x)[Len(pm \o x)] = Marker /\ Len(pm \o x) # 0
            <6>1. Len(x) \in Nat \ {0}
              BY <5>2, LenProperties, EmptySeq
            <6>2. /\ Len(pm \o x) = Len(pm) + Len(x)
                  /\ \A j \in 1 .. Len(x) : (pm \o x)[Len(pm) + j] = x[j]
              BY <3>4, Glued
            <6>3. (pm \o x)[Len(pm) + Len(x)] = x[Len(x)]
              BY <6>1, <6>2
            <6> QED
              BY <3>4, <5>2, <6>1, <6>2, <6>3
          <5> QED
            BY <5>1, <5>2
        <4> QED
          BY <4>1, <4>2, Zenon
      <3> HIDE DEF o
      <3>6. ReplacedBy(S)[s].out = o
        BY <3>2
      <3>7. o # <<>>
        BY <3>5
      <3> QED
        BY <3>5, <3>6, <3>7
    <2> QED
      BY <2>1, <2>2
  <1> HIDE DEF P
  <1>2. Seq(Letters) \subseteq G
    <2>1. \A s \in Seq(Letters) :
            (\A t \in Seq(Letters) : Len(t) < Len(s) => t \in G) => s \in G
      BY <1>1
    <2> HIDE DEF G
    <2> QED
      BY <2>1, ByLength
  <1>3. \A s \in Seq(Letters) : P(s, ReplacedBy(S)[s])
    BY <1>2
  <1> QED
    BY <1>3 DEF P

\* A finite set of numbers has a largest one.
LEMMA LargestOfFinite ==
    ASSUME NEW B, IsFiniteSet(B), B \subseteq Nat, B # {}
    PROVE  Max(B) \in B /\ \A x \in B : Max(B) >= x
  <1>1. PICK n \in Nat : ExistsSurjection(1 .. n, B)
    BY FS_NatSurjection
  <1>2. PICK f \in Surjection(1 .. n, B) : TRUE
    BY <1>1 DEF ExistsSurjection
  <1>3. f \in [1 .. n -> B] /\ \A x \in B : \E i \in 1 .. n : f[i] = x
    BY <1>2 DEF Surjection
  <1> DEFINE T == {k \in Nat : k = 0 \/ k > n \/
                     \E m \in 1 .. k : \A i \in 1 .. k : f[m] >= f[i]}
  <1>4. ASSUME NEW k \in Nat, k \in T PROVE k + 1 \in T
    <2>1. CASE k + 1 > n
      BY <2>1
    <2>2. CASE k + 1 <= n
      <3>0. \A i \in 1 .. (k + 1) : f[i] \in Nat
        <4>1. \A i \in 1 .. (k + 1) : i \in 1 .. n
          BY <2>2
        <4>2. \A i \in 1 .. n : f[i] \in Nat
          BY <1>3
        <4> QED
          BY <4>1, <4>2
      <3>1. CASE k = 0
        <4>1. \A i \in 1 .. (k + 1) : i = 1
          BY <3>1
        <4>2. f[1] >= f[1] /\ 1 \in 1 .. (k + 1)
          BY <3>0, <3>1
        <4> QED
          BY <4>1, <4>2
      <3>2. CASE k # 0
        <4>1. PICK m \in 1 .. k : \A i \in 1 .. k : f[m] >= f[i]
          BY <1>4, <2>2, <3>2
        <4>2. \A i \in 1 .. (k + 1) : i \in 1 .. k \/ i = k + 1
          OBVIOUS
        <4>3. m \in 1 .. (k + 1) /\ k + 1 \in 1 .. (k + 1)
          OBVIOUS
        <4>4. CASE f[m] >= f[k + 1]
          <5>1. \A i \in 1 .. (k + 1) : f[m] >= f[i]
            BY <4>1, <4>2, <4>4
          <5> QED
            BY <4>3, <5>1
        <4>5. CASE ~ (f[m] >= f[k + 1])
          <5>1. \A i \in 1 .. (k + 1) : f[k + 1] >= f[i]
            BY <3>0, <4>1, <4>2, <4>3, <4>5
          <5> QED
            BY <4>3, <5>1
        <4> QED
          BY <4>4, <4>5
      <3> QED
        BY <3>1, <3>2
    <2> QED
      BY <2>1, <2>2
  <1>5. n \in T
    <2>1. 0 \in T
      OBVIOUS
    <2> HIDE DEF T
    <2> QED
      BY <1>4, <2>1, SetInduction
  <1>6. n # 0
    <2>1. PICK x \in B : TRUE
      OBVIOUS
    <2>2. PICK i \in 1 .. n : f[i] = x
      BY <1>3, <2>1
    <2> QED
      BY <2>2
  <1>7. PICK m \in 1 .. n : \A i \in 1 .. n : f[m] >= f[i]
    BY <1>5, <1>6
  <1>8. f[m] \in B /\ \A x \in B : f[m] >= x
    BY <1>3, <1>7
  <1> QED
    BY <1>8 DEF Max

-----------------------------------------------------------------------------
(* The inductive invariant, as a relation of the redactor's values.        *)

Longest(S) == IF S = {} THEN 1 ELSE Max({Len(w) : w \in S})
SafeOf(S, s) == IF Len(s) > Longest(S) - 1 THEN Len(s) - (Longest(S) - 1) ELSE 0

Typed(S, in, held, out, n) ==
    /\ IsFiniteSet(S) /\ Words(S)
    /\ in \in Seq(Letters) /\ held \in Seq(Letters) /\ out \in Seq(Symbols) /\ n \in Nat

\* What was released and what is held spell nothing, not even together.
Guarded(S, held, out) == Clear(S, out \o held, Len(out \o held)) /\ Len(held) < Longest(S)

\* As much is held as a credential needs to be completed, or what was released last is a
\* replacement, across which there is no credential.
Holding(S, held, out) ==
    out = <<>> \/ out[Len(out)] = Marker \/ Len(held) = Longest(S) - 1

\* While reading: r was released of what the whole input would still hold.
ExactSoFar(S, in, held, out, n) ==
    LET W == ReplacedBy(S)[in] IN
    \E r \in Seq(Letters) :
        /\ W.rest = r \o held /\ out = W.out \o r /\ n = W.count
        /\ r = <<>> \/ Len(held) = Longest(S) - 1

ExactAtEnd(S, in, out, n) ==
    LET W == ReplacedBy(S)[in] IN out = W.out \o W.rest /\ n = W.count

LEMMA LongestIs ==
    ASSUME NEW S, Words(S), IsFiniteSet(S)
    PROVE  Longest(S) \in Nat \ {0} /\ \A w \in S : Len(w) <= Longest(S)
  <1>1. CASE S = {}
    BY <1>1 DEF Longest
  <1>2. CASE S # {}
    <2> DEFINE B == {Len(w) : w \in S}
    <2>1. \A w \in S : Len(w) \in Nat \ {0}
      BY WordsAre
    <2>2. B \subseteq Nat \ {0} /\ B # {}
      BY <1>2, <2>1
    <2>3. IsFiniteSet(B)
      <3> DEFINE f == [w \in S |-> Len(w)]
      <3>1. f \in [S -> B] /\ \A x \in B : \E w \in S : f[w] = x
        OBVIOUS
      <3> HIDE DEF f, B
      <3>2. f \in Surjection(S, B)
        BY <3>1 DEF Surjection
      <3> QED
        BY <3>2, FS_Surjection
    <2>4. Longest(S) = Max(B)
      BY <1>2 DEF Longest
    <2>5. \A w \in S : Len(w) \in B
      OBVIOUS
    <2> HIDE DEF B
    <2>6. Max(B) \in B /\ \A x \in B : Max(B) >= x
      BY <2>2, <2>3, LargestOfFinite
    <2>7. Max(B) \in Nat \ {0}
      BY <2>2, <2>6
    <2>8. ASSUME NEW w \in S PROVE Len(w) <= Max(B)
      BY <2>1, <2>5, <2>6, <2>7
    <2> QED
      BY <2>4, <2>7, <2>8
  <1> QED
    BY <1>1, <1>2

\* What is released of s, and what is held.
LEMMA HeldBack ==
    ASSUME NEW S, Words(S), IsFiniteSet(S), NEW s \in Seq(Letters)
    PROVE  LET a == SubSeq(s, 1, SafeOf(S, s))
               b == SubSeq(s, SafeOf(S, s) + 1, Len(s))
           IN  /\ a \in Seq(Letters) /\ b \in Seq(Letters) /\ a \o b = s
               /\ Len(b) < Longest(S) /\ (a = <<>> \/ Len(b) = Longest(S) - 1)
               /\ Len(s) >= Longest(S) - 1 => Len(b) = Longest(S) - 1
  <1> DEFINE k == SafeOf(S, s)
             M == Longest(S)
  <1>1. M \in Nat \ {0} /\ Len(s) \in Nat /\ \A j \in 1 .. Len(s) : s[j] \in Letters
    BY LongestIs, LettersAreSymbols
  <1>2. k = IF Len(s) > M - 1 THEN Len(s) - (M - 1) ELSE 0
    BY DEF SafeOf
  <1> HIDE DEF k, M
  <1>3. k \in 0 .. Len(s)
    BY <1>1, <1>2
  <1> DEFINE a == SubSeq(s, 1, k)
             b == SubSeq(s, k + 1, Len(s))
  <1>4. a \in Seq(Letters) /\ Len(a) = k /\ \A j \in 1 .. k : a[j] = s[j]
    <2>1. \A j \in 1 .. k : s[j] \in Letters
      BY <1>1, <1>3
    <2>2. /\ a \in Seq(Letters) /\ Len(a) = (IF 1 <= k THEN k - 1 + 1 ELSE 0)
          /\ \A j \in 1 .. (k - 1 + 1) : a[j] = s[1 + j - 1]
      BY <1>3, <2>1, SubSeqProperties
    <2> HIDE DEF a
    <2>3. Len(a) = k
      BY <1>3, <2>2
    <2>4. k - 1 + 1 = k /\ \A j \in 1 .. k : 1 + j - 1 = j
      BY <1>3
    <2> QED
      BY <2>2, <2>3, <2>4
  <1>5. /\ b \in Seq(Letters) /\ Len(b) = Len(s) - k
        /\ \A j \in 1 .. Len(b) : b[j] = s[k + j]
    <2>1. \A j \in (k + 1) .. Len(s) : s[j] \in Letters
      BY <1>1, <1>3
    <2>0. k + 1 \in Int /\ Len(s) \in Int
      BY <1>1, <1>3
    <2>2. /\ b \in Seq(Letters)
          /\ Len(b) = (IF k + 1 <= Len(s) THEN Len(s) - (k + 1) + 1 ELSE 0)
          /\ \A j \in 1 .. (Len(s) - (k + 1) + 1) : b[j] = s[(k + 1) + j - 1]
      BY <2>0, <2>1, SubSeqProperties
    <2> HIDE DEF b
    <2>3. Len(b) = (IF k + 1 <= Len(s) THEN Len(s) - (k + 1) + 1 ELSE 0)
      BY <2>2
    <2>4. Len(b) = Len(s) - k /\ Len(s) - (k + 1) + 1 = Len(s) - k
      BY <1>1, <1>3, <2>3
    <2>5. \A j \in 1 .. Len(b) : (k + 1) + j - 1 = k + j
      BY <1>3, <2>4
    <2> QED
      BY <2>2, <2>4, <2>5
  <1> HIDE DEF a, b
  <1>6. a \o b = s
    <2>1. a \in Seq(Symbols) /\ b \in Seq(Symbols) /\ s \in Seq(Symbols)
      BY <1>4, <1>5, LettersAreSymbols
    <2>2. /\ a \o b \in Seq(Symbols) /\ Len(a \o b) = Len(a) + Len(b)
          /\ \A j \in 1 .. Len(a) : (a \o b)[j] = a[j]
          /\ \A j \in 1 .. Len(b) : (a \o b)[Len(a) + j] = b[j]
      BY <2>1, Glued
    <2>3. Len(a \o b) = Len(s)
      BY <1>1, <1>3, <1>4, <1>5, <2>2
    <2>4. ASSUME NEW j \in 1 .. Len(s) PROVE (a \o b)[j] = s[j]
      <3>1. CASE j <= k
        BY <1>3, <1>4, <2>2, <3>1
      <3>2. CASE j > k
        <4>1. j - k \in 1 .. Len(b) /\ j = k + (j - k)
          BY <1>1, <1>3, <1>5, <3>2
        <4>2. (a \o b)[k + (j - k)] = b[j - k] /\ b[j - k] = s[k + (j - k)]
          BY <1>4, <1>5, <2>2, <4>1
        <4> QED
          BY <4>1, <4>2
      <3>3. j <= k \/ j > k
        BY <1>1, <1>3
      <3> QED
        BY <3>1, <3>2, <3>3, Zenon
    <2>5. \A j \in 1 .. Len(a \o b) : (a \o b)[j] = s[j]
      BY <2>3, <2>4
    <2> QED
      BY <2>1, <2>2, <2>3, <2>5, SeqEqual
  <1>7. /\ Len(b) < M /\ (k = 0 \/ Len(b) = M - 1)
        /\ Len(s) >= M - 1 => Len(b) = M - 1
    BY <1>1, <1>2, <1>5
  <1>8. a = <<>> \/ Len(b) = M - 1
    BY <1>4, <1>7, EmptySeq
  <1> QED
    BY <1>4, <1>5, <1>6, <1>7, <1>8 DEF a, b, k, M

-----------------------------------------------------------------------------
(* What feed and finish keep, as a relation of values.                     *)

\* Nothing that is read is redacted before it can be, and what is released spells nothing.
LEMMA FeedGuards ==
    ASSUME NEW S, NEW in, NEW held, NEW out, NEW n, Typed(S, in, held, out, n),
           Guarded(S, held, out), Holding(S, held, out), NEW c \in Seq(Letters)
    PROVE  LET D == ReplacedBy(S)[held \o c]
               a == SubSeq(D.rest, 1, SafeOf(S, D.rest))
               b == SubSeq(D.rest, SafeOf(S, D.rest) + 1, Len(D.rest))
           IN  /\ Typed(S, in \o c, b, (out \o D.out) \o a, n + D.count)
               /\ Guarded(S, b, (out \o D.out) \o a) /\ Holding(S, b, (out \o D.out) \o a)
  <1> DEFINE D == ReplacedBy(S)[held \o c]
             a == SubSeq(D.rest, 1, SafeOf(S, D.rest))
             b == SubSeq(D.rest, SafeOf(S, D.rest) + 1, Len(D.rest))
             M == Longest(S)
             o == (out \o D.out) \o a
  <1>1. /\ IsFiniteSet(S) /\ Words(S) /\ in \in Seq(Letters) /\ held \in Seq(Letters)
        /\ out \in Seq(Symbols) /\ n \in Nat /\ M \in Nat \ {0} /\ \A w \in S : Len(w) <= M
    BY LongestIs DEF Typed
  <1>2. held \o c \in Seq(Letters) /\ in \o c \in Seq(Letters)
    BY <1>1, GluedLetters
  <1>3. /\ D.out \in Seq(Symbols) /\ D.rest \in Seq(Letters) /\ D.count \in Nat
    BY <1>1, <1>2, ReplacedTypes DEF IsResult
  <1>4. IF D.out = <<>> THEN D.rest = held \o c ELSE D.out[Len(D.out)] = Marker
    BY <1>1, <1>2, EndsReplaced
  <1>5. Clear(S, out \o (D.out \o D.rest), Len(out \o (D.out \o D.rest)))
    <2>1. Clear(S, out \o (held \o c), Len(out))
      BY <1>1, NothingAcross DEF Guarded, Holding
    <2> QED
      BY <1>1, <1>2, <2>1, ReleaseIsClear
  <1> HIDE DEF D
  <1>6. /\ a \in Seq(Letters) /\ b \in Seq(Letters) /\ a \o b = D.rest
        /\ Len(b) < M /\ (a = <<>> \/ Len(b) = M - 1)
        /\ Len(D.rest) >= M - 1 => Len(b) = M - 1
    BY <1>1, <1>3, HeldBack
  <1> HIDE DEF a, b, M
  <1>7. a \in Seq(Symbols) /\ b \in Seq(Symbols) /\ out \o D.out \in Seq(Symbols)
    BY <1>1, <1>3, <1>6, LettersAreSymbols, Glued
  <1>8. o \in Seq(Symbols)
    BY <1>7, Glued
  <1>9. o \o b = out \o (D.out \o D.rest)
    <2>1. \A x \in Seq(Symbols) : ((out \o x) \o a) \o b = out \o (x \o (a \o b))
      <3>1. TAKE x \in Seq(Symbols)
      <3>2. out \o x \in Seq(Symbols) /\ a \o b \in Seq(Symbols)
        BY <1>1, <1>7, Glued
      <3>3. ((out \o x) \o a) \o b = (out \o x) \o (a \o b)
        <4> DEFINE ox == out \o x
        <4>1. ox \in Seq(Symbols)
          BY <3>2
        <4> HIDE DEF ox
        <4>2. (ox \o a) \o b = ox \o (a \o b)
          BY <1>7, <4>1, Associative
        <4> QED
          BY <4>2, Zenon DEF ox
      <3>4. (out \o x) \o (a \o b) = out \o (x \o (a \o b))
        BY <1>1, <3>2, Associative, Zenon
      <3> QED
        BY <3>3, <3>4, Zenon
    <2>2. ((out \o D.out) \o a) \o b = out \o (D.out \o (a \o b))
      BY <1>3, <2>1, Zenon
    <2> QED
      BY <1>6, <2>2, Zenon
  <1>10. Guarded(S, b, o)
    <2>1. Clear(S, o \o b, Len(o \o b))
      BY <1>5, <1>9, Zenon
    <2> QED
      BY <1>6, <2>1, Zenon DEF Guarded, M
  <1>11. Holding(S, b, o)
    <2>1. CASE Len(b) = M - 1
      BY <2>1, Zenon DEF Holding, M
    <2>2. CASE Len(b) # M - 1 /\ D.out # <<>>
      <3>1. a = <<>> /\ D.out[Len(D.out)] = Marker
        BY <1>4, <1>6, <2>2
      <3>2. o = out \o D.out
        BY <1>7, <3>1, ConcatEmptySeq
      <3>3. \A x \in Seq(Symbols) : x # <<>> => (out \o x)[Len(out \o x)] = x[Len(x)]
        <4>1. TAKE x \in Seq(Symbols)
        <4>2. HAVE x # <<>>
        <4>3. Len(x) \in 1 .. Len(x)
          BY <4>2, LenProperties, EmptySeq
        <4>4. Len(out \o x) = Len(out) + Len(x) /\ (out \o x)[Len(out) + Len(x)] = x[Len(x)]
          BY <1>1, <4>3, Glued
        <4> QED
          BY <4>4
      <3>4. (out \o D.out)[Len(out \o D.out)] = D.out[Len(D.out)]
        BY <1>3, <2>2, <3>3, Zenon
      <3>5. o[Len(o)] = Marker
        BY <3>1, <3>2, <3>4, Zenon
      <3> QED
        BY <3>5, Zenon DEF Holding
    <2>3. CASE Len(b) # M - 1 /\ D.out = <<>>
      <3>1. a = <<>> /\ D.rest = held \o c
        BY <1>4, <1>6, <2>3
      <3>2. o = out
        <4>1. out \o <<>> = out
          BY <1>1, ConcatEmptySeq
        <4> QED
          BY <2>3, <3>1, <4>1
      <3>3. Len(held) # M - 1
        <4>1. Len(held \o c) = Len(held) + Len(c) /\ Len(c) \in Nat /\ Len(held) \in Nat
          BY <1>1, LettersAreSymbols, Glued
        <4>2. ~ (Len(held \o c) >= M - 1)
          BY <1>6, <2>3, <3>1
        <4> QED
          BY <1>1, <4>1, <4>2
      <3>4. out = <<>> \/ out[Len(out)] = Marker
        BY <3>3 DEF Holding, M
      <3> QED
        BY <3>2, <3>4, Zenon DEF Holding
    <2> QED
      BY <2>1, <2>2, <2>3
  <1>12. Typed(S, in \o c, b, o, n + D.count)
    <2>1. n + D.count \in Nat
      <3>1. \A x, y \in Nat : x + y \in Nat
        OBVIOUS
      <3> QED
        BY <1>1, <1>3, <3>1, Zenon
    <2> QED
      BY <1>1, <1>2, <1>6, <1>8, <2>1, Zenon DEF Typed
  <1> QED
    BY <1>10, <1>11, <1>12, Zenon DEF a, b, D

\* Finish releases what is held as it is.
ReleasesHeld(S, in, held, out, n) ==
    LET D == ReplacedBy(S)[held]
    IN  /\ (out \o D.out) \o D.rest = out \o held /\ n + D.count = n
        /\ Typed(S, in, <<>>, out \o held, n) /\ Guarded(S, <<>>, out \o held)

LEMMA HeldIsClear ==
    ASSUME NEW S, NEW in, NEW held, NEW out, NEW n, Typed(S, in, held, out, n),
           Guarded(S, held, out)
    PROVE  ReleasesHeld(S, in, held, out, n)
  <1>1. /\ IsFiniteSet(S) /\ Words(S) /\ in \in Seq(Letters) /\ held \in Seq(Letters)
        /\ held \in Seq(Symbols) /\ out \in Seq(Symbols) /\ n \in Nat
        /\ Longest(S) \in Nat \ {0}
    BY LongestIs, LettersAreSymbols DEF Typed
  <1>2. /\ out \o held \in Seq(Symbols) /\ Len(out) \in Nat /\ Len(held) \in Nat
        /\ Len(out \o held) = Len(out) + Len(held)
    BY <1>1, Glued
  <1>3. Clear(S, held, Len(held))
    <2> SUFFICES ASSUME NEW w \in S, NEW i \in 1 .. Len(held), Spelled(held, i, w)
                 PROVE  FALSE
      BY DEF Clear
    <2>1. i \in Nat \ {0} /\ Len(out) + i \in 1 .. Len(out \o held)
      BY <1>2
    <2>2. Spelled(out \o held, Len(out) + i, w)
      BY <1>1, <2>1, SpelledShift, WordsAre
    <2> QED
      BY <2>1, <2>2 DEF Guarded, Clear
  <1>4. ReplacedBy(S)[held] = [out |-> <<>>, rest |-> held, count |-> 0]
    BY <1>1, <1>3, NothingFound
  <1>5. /\ ReplacedBy(S)[held].out = <<>> /\ ReplacedBy(S)[held].rest = held
        /\ ReplacedBy(S)[held].count = 0
    BY <1>4
  <1>6. out \o <<>> = out /\ (out \o held) \o <<>> = out \o held /\ n + 0 = n
    <2> DEFINE x == out \o held
    <2>1. x \in Seq(Symbols)
      BY <1>2
    <2> HIDE DEF x
    <2>2. x \o <<>> = x
      BY <2>1, ConcatEmptySeq
    <2> QED
      BY <1>1, <2>2, ConcatEmptySeq DEF x
  <1>7. Guarded(S, <<>>, out \o held)
    <2>1. Len(<<>>) < Longest(S)
      BY <1>1
    <2> QED
      BY <1>6, <2>1, Zenon DEF Guarded
  <1>8. Typed(S, in, <<>>, out \o held, n)
    BY <1>1, <1>2, EmptySeq DEF Typed
  <1> QED
    BY <1>4, <1>5, <1>6, <1>7, <1>8, Zenon DEF ReleasesHeld

\* Reading one more chunk is redacting the input with it.
LEMMA FeedExact ==
    ASSUME NEW S, NEW in, NEW held, NEW out, NEW n, Typed(S, in, held, out, n),
           PartFree(S), ExactSoFar(S, in, held, out, n), NEW c \in Seq(Letters)
    PROVE  LET D == ReplacedBy(S)[held \o c]
               a == SubSeq(D.rest, 1, SafeOf(S, D.rest))
               b == SubSeq(D.rest, SafeOf(S, D.rest) + 1, Len(D.rest))
           IN  ExactSoFar(S, in \o c, b, (out \o D.out) \o a, n + D.count)
  <1> DEFINE R == ReplacedBy(S)
             y == held \o c
             D == R[y]
             a == SubSeq(D.rest, 1, SafeOf(S, D.rest))
             b == SubSeq(D.rest, SafeOf(S, D.rest) + 1, Len(D.rest))
             M == Longest(S)
             W == R[in]
  <1>1. /\ IsFiniteSet(S) /\ Words(S) /\ in \in Seq(Letters) /\ held \in Seq(Letters)
        /\ out \in Seq(Symbols) /\ n \in Nat /\ M \in Nat \ {0} /\ \A w \in S : Len(w) <= M
    BY LongestIs DEF Typed
  <1>2. PICK r \in Seq(Letters) :
          /\ W.rest = r \o held /\ out = W.out \o r /\ n = W.count
          /\ r = <<>> \/ Len(held) = M - 1
    BY DEF ExactSoFar
  <1> DEFINE V == R[r \o y]
  <1>3. y \in Seq(Letters) /\ in \o c \in Seq(Letters) /\ r \o y \in Seq(Letters)
    BY <1>1, GluedLetters
  <1>4. /\ r \in Seq(Symbols) /\ held \in Seq(Symbols) /\ c \in Seq(Symbols)
        /\ Len(held) \in Nat /\ Len(c) \in Nat /\ Len(y) = Len(held) + Len(c)
    BY <1>1, LettersAreSymbols, Glued
  <1>5. InTwoGoes(R[in \o c], W, V)
    <2>1. InTwoGoes(R[in \o c], W, R[W.rest \o c])
      BY <1>1, Composed
    <2>2. (r \o held) \o c = r \o y
      BY <1>4, Associative, Zenon
    <2>3. W.rest \o c = r \o y
      BY <1>2, <2>2, Zenon
    <2> QED
      BY <2>1, <2>3, Zenon
  <1>6. IsResult(S, D) /\ IsResult(S, V) /\ IsResult(S, W)
    BY <1>1, <1>3, ReplacedTypes
  <1>7. Clear(S, r \o y, Len(r))
    <2>1. Clear(S, r \o held, Len(r \o held))
      BY <1>2, <1>6, Zenon DEF IsResult
    <2> HIDE DEF R, M
    <2>2. r = <<>> \/ r[Len(r)] = Marker \/ Len(held) = M - 1
      BY <1>2
    <2> QED
      BY <1>1, <1>4, <2>1, <2>2, NothingAcross
  <1>8. /\ V.count = D.count
        /\ \E q \in Seq(Letters) : /\ q = <<>> \/ (q = r /\ D.rest = y)
                                   /\ V.rest = q \o D.rest /\ V.out \o q = r \o D.out
    BY <1>1, <1>3, <1>7, DropPrefix
  <1>9. PICK q \in Seq(Letters) : /\ q = <<>> \/ (q = r /\ D.rest = y)
                                  /\ V.rest = q \o D.rest /\ V.out \o q = r \o D.out
    BY <1>8
  <1>10. /\ D.rest \in Seq(Letters) /\ D.out \in Seq(Symbols) /\ D.count \in Nat
         /\ V.out \in Seq(Symbols) /\ W.out \in Seq(Symbols) /\ W.count \in Nat
    BY <1>6 DEF IsResult
  <1> HIDE DEF V, D, W, R
  <1>11. /\ a \in Seq(Letters) /\ b \in Seq(Letters) /\ a \o b = D.rest
         /\ Len(b) < M /\ (a = <<>> \/ Len(b) = M - 1)
         /\ Len(D.rest) >= M - 1 => Len(b) = M - 1
    BY <1>1, <1>10, HeldBack
  <1> HIDE DEF a, b, M, y
  <1>12. /\ q \in Seq(Symbols) /\ a \in Seq(Symbols) /\ b \in Seq(Symbols)
         /\ q \o a \in Seq(Letters)
    BY <1>11, LettersAreSymbols, GluedLetters
  <1> DEFINE Z == R[in \o c]
  <1>13. Z.out = W.out \o V.out /\ Z.rest = V.rest /\ Z.count = W.count + V.count
    BY <1>5, Zenon DEF InTwoGoes
  <1>14. Z.rest = (q \o a) \o b
    <2>1. (q \o a) \o b = q \o (a \o b)
      BY <1>12, Associative, Zenon
    <2> QED
      BY <1>9, <1>11, <1>13, <2>1, Zenon
  <1>15. (out \o D.out) \o a = Z.out \o (q \o a)
    <2>1. \A w, d, v \in Seq(Symbols) :
            v \o q = r \o d => ((w \o r) \o d) \o a = (w \o v) \o (q \o a)
      <3>1. TAKE w, d, v \in Seq(Symbols)
      <3>2. HAVE v \o q = r \o d
      <3>3. (w \o r) \o d = (w \o v) \o q
        <4>1. (w \o r) \o d = w \o (r \o d)
          BY <1>4, Associative
        <4>2. (w \o v) \o q = w \o (v \o q)
          BY <1>12, Associative
        <4> QED
          BY <3>2, <4>1, <4>2, Zenon
      <3>4. w \o v \in Seq(Symbols)
        BY Glued
      <3>5. ((w \o v) \o q) \o a = (w \o v) \o (q \o a)
        <4> DEFINE x == w \o v
        <4>1. x \in Seq(Symbols)
          BY <3>4
        <4> HIDE DEF x
        <4>2. (x \o q) \o a = x \o (q \o a)
          BY <1>12, <4>1, Associative
        <4> QED
          BY <4>2, Zenon DEF x
      <3> QED
        BY <3>3, <3>5, Zenon
    <2>2. ((W.out \o r) \o D.out) \o a = (W.out \o V.out) \o (q \o a)
      BY <1>9, <1>10, <2>1, Zenon
    <2> QED
      BY <1>2, <1>13, <2>2, Zenon
  <1>16. n + D.count = Z.count
    BY <1>2, <1>8, <1>13, Zenon
  <1>17. q \o a = <<>> \/ Len(b) = M - 1
    <2>1. CASE q = <<>> /\ a = <<>>
      <3>1. <<>> \o <<>> = <<>>
        BY ConcatEmptySeq, EmptySeq
      <3> QED
        BY <2>1, <3>1, Zenon
    <2>2. CASE q # <<>>
      <3>1. D.rest = y /\ Len(held) = M - 1
        BY <1>2, <1>9, <2>2
      <3>2. Len(D.rest) >= M - 1
        BY <1>1, <1>4, <3>1
      <3> QED
        BY <1>11, <3>2
    <2>3. CASE a # <<>>
      BY <1>11, <2>3
    <2> QED
      BY <2>1, <2>2, <2>3
  <1>18. ExactSoFar(S, in \o c, b, (out \o D.out) \o a, n + D.count)
    BY <1>12, <1>14, <1>15, <1>16, <1>17, Zenon DEF ExactSoFar, M, R
  <1> QED
    BY <1>18, Zenon DEF a, b, D, y, R

-----------------------------------------------------------------------------
(* The specification keeps the invariant.                                  *)

\* What is released and held spells no credential, enough is held, and what was released is
\* what the whole input makes, up to what is held.
RedactorInvariant ==
    /\ Typed(secrets, input, buffer, output, redactions) /\ finished \in BOOLEAN
    /\ Guarded(secrets, buffer, output)
    /\ ~finished => Holding(secrets, buffer, output)
    /\ PartFree(secrets) =>
          IF finished THEN ExactAtEnd(secrets, input, output, redactions)
          ELSE ExactSoFar(secrets, input, buffer, output, redactions)

LEMMA RedactorStarts == RedactorInit \/ RedactorUnused => RedactorInvariant
  <1> SUFFICES ASSUME RedactorInit \/ RedactorUnused PROVE RedactorInvariant
    OBVIOUS
  <1> DEFINE W == ReplacedBy(secrets)[<<>>]
  <1>1. /\ input = <<>> /\ buffer = <<>> /\ output = <<>> /\ redactions = 0
        /\ finished \in BOOLEAN
    BY DEF RedactorInit, RedactorUnused
  <1>2. IsFiniteSet(secrets) /\ Words(secrets)
    BY RedactionAssumption, FS_EmptySet DEF RedactorInit, RedactorUnused, Words
  <1>3. <<>> \in Seq(Letters) /\ <<>> \in Seq(Symbols) /\ Len(<<>>) = 0 /\ <<>> \o <<>> = <<>>
    BY EmptySeq, ConcatEmptySeq
  <1>4. Clear(secrets, <<>>, Len(<<>>))
    BY DEF Clear
  <1>5. W.out = <<>> /\ W.rest = <<>> /\ W.count = 0
    <2>1. W = [out |-> <<>>, rest |-> <<>>, count |-> 0]
      BY <1>2, <1>3, <1>4, NothingFound
    <2> HIDE DEF W
    <2> QED
      BY <2>1
  <1>6. Typed(secrets, input, buffer, output, redactions)
    BY <1>1, <1>2, <1>3 DEF Typed
  <1>7. Guarded(secrets, buffer, output)
    <2>1. Longest(secrets) \in Nat \ {0}
      BY <1>2, LongestIs
    <2>2. Len(<<>>) < Longest(secrets)
      BY <2>1
    <2> QED
      BY <1>1, <1>3, <1>4, <2>2, Zenon DEF Guarded
  <1>8. Holding(secrets, buffer, output)
    BY <1>1 DEF Holding
  <1>9. ExactAtEnd(secrets, input, output, redactions)
    BY <1>1, <1>3, <1>5, Zenon DEF ExactAtEnd
  <1>10. ExactSoFar(secrets, input, buffer, output, redactions)
    BY <1>1, <1>3, <1>5, Zenon DEF ExactSoFar
  <1> QED
    BY <1>1, <1>6, <1>7, <1>8, <1>9, <1>10 DEF RedactorInvariant

LEMMA FeedKeeps ==
    ASSUME RedactorInvariant, NEW chunk \in Chunks, Feed(chunk)
    PROVE  RedactorInvariant'
  <1> DEFINE D == ReplacedBy(secrets)[buffer \o chunk]
             k == SafeOf(secrets, D.rest)
  <1>1. chunk \in Seq(Letters)
    <2>1. PICK n \in 1 .. (MaxInput - Len(input)) : chunk \in [1 .. n -> Letters]
      BY DEF Chunks
    <2>2. n \in Nat
      OBVIOUS
    <2> QED
      BY <2>1, <2>2
  <1>2. SafeLength(D.rest) = k
    <2> HIDE DEF D
    <2> QED
      BY DEF SafeLength, SafeOf, Retained, MaximumSecretLength, Longest
  <1>3. /\ ~finished /\ secrets' = secrets /\ finished' = finished
        /\ input' = input \o chunk /\ redactions' = redactions + D.count
        /\ output' = (output \o D.out) \o SubSeq(D.rest, 1, k)
        /\ buffer' = SubSeq(D.rest, k + 1, Len(D.rest))
    BY <1>2, ReplacedIs, Zenon DEF Feed
  <1>4. /\ Typed(secrets, input, buffer, output, redactions)
        /\ Guarded(secrets, buffer, output) /\ Holding(secrets, buffer, output)
        /\ PartFree(secrets) => ExactSoFar(secrets, input, buffer, output, redactions)
    BY <1>3 DEF RedactorInvariant
  <1>5. /\ Typed(secrets', input', buffer', output', redactions')
        /\ Guarded(secrets', buffer', output') /\ Holding(secrets', buffer', output')
    BY <1>1, <1>3, <1>4, FeedGuards, Zenon
  <1>6. PartFree(secrets) => ExactSoFar(secrets', input', buffer', output', redactions')
    BY <1>1, <1>3, <1>4, FeedExact, Zenon
  <1> HIDE DEF D, k
  <1> QED
    BY <1>3, <1>5, <1>6, Zenon DEF RedactorInvariant

LEMMA FinishKeeps ==
    ASSUME RedactorInvariant, Finish
    PROVE  RedactorInvariant'
  <1> DEFINE D == ReplacedBy(secrets)[buffer]
  <1>1. /\ ~finished /\ secrets' = secrets /\ finished' = TRUE
        /\ input' = input /\ redactions' = redactions + D.count
        /\ output' = (output \o D.out) \o D.rest /\ buffer' = <<>>
    BY ReplacedIs, Zenon DEF Finish
  <1>2. /\ Typed(secrets, input, buffer, output, redactions)
        /\ Guarded(secrets, buffer, output)
        /\ PartFree(secrets) => ExactSoFar(secrets, input, buffer, output, redactions)
    BY <1>1 DEF RedactorInvariant
  <1>3. /\ output' = output \o buffer /\ redactions' = redactions
        /\ Typed(secrets', input', buffer', output', redactions')
        /\ Guarded(secrets', buffer', output')
    <2>1. /\ (output \o D.out) \o D.rest = output \o buffer
          /\ redactions + D.count = redactions
          /\ Typed(secrets, input, <<>>, output \o buffer, redactions)
          /\ Guarded(secrets, <<>>, output \o buffer)
      <3>1. ReleasesHeld(secrets, input, buffer, output, redactions)
        BY <1>2, HeldIsClear
      <3> QED
        BY <3>1, Zenon DEF ReleasesHeld
    <2>2. output' = output \o buffer /\ redactions' = redactions
      BY <1>1, <2>1, Zenon
    <2> QED
      BY <1>1, <2>1, <2>2, Zenon
  <1>4. ASSUME PartFree(secrets) PROVE ExactAtEnd(secrets', input', output', redactions')
    <2> DEFINE W == ReplacedBy(secrets)[input]
    <2>1. PICK r \in Seq(Letters) :
            W.rest = r \o buffer /\ output = W.out \o r /\ redactions = W.count
      BY <1>2, <1>4 DEF ExactSoFar
    <2>2. W.out \in Seq(Symbols) /\ buffer \in Seq(Symbols) /\ r \in Seq(Symbols)
      BY <1>2, ReplacedTypes, LettersAreSymbols DEF Typed, IsResult
    <2>3. (W.out \o r) \o buffer = W.out \o (r \o buffer)
      BY <2>2, Associative, Zenon
    <2> QED
      BY <1>1, <1>3, <2>1, <2>3, Zenon DEF ExactAtEnd
  <1> QED
    BY <1>1, <1>3, <1>4, Zenon DEF RedactorInvariant

LEMMA RedactorInductive == Spec => []RedactorInvariant
  <1>1. Init => RedactorInvariant
    BY RedactorStarts DEF Init
  <1>2. RedactorInvariant /\ [Next]_vars => RedactorInvariant'
    <2> SUFFICES ASSUME RedactorInvariant, [Next]_vars PROVE RedactorInvariant'
      OBVIOUS
    <2>1. ASSUME NEW chunk \in Chunks, Feed(chunk) PROVE RedactorInvariant'
      BY <2>1, FeedKeeps
    <2>2. CASE Finish
      BY <2>2, FinishKeeps
    <2>3. CASE UNCHANGED redactorVars
      BY <2>3 DEF RedactorInvariant, redactorVars
    <2> QED
      BY <2>1, <2>2, <2>3 DEF Next, Redact, vars
  <1> QED
    BY <1>1, <1>2, PTL DEF Spec

\* However the pipe cuts the input, for any letters and any credentials: no run of released
\* bytes between two replacements contains a credential, not even one that was read in
\* parts (a credential spelled with bytes of a replacement is not looked at); less is held than the longest
\* credential; and, if no credential is a part of another one, what was returned at the end
\* of the file is what the whole input makes when it is redacted in one piece
\* (_StreamingRedactor, executor.py:219-261).
THEOREM RedactionIsExact == Spec => []RedactionExact
  <1>1. RedactorInvariant => RedactionExact
    <2> SUFFICES ASSUME RedactorInvariant PROVE RedactionExact
      OBVIOUS
    <2>1. /\ Typed(secrets, input, buffer, output, redactions)
          /\ Guarded(secrets, buffer, output)
          /\ finished /\ PartFree(secrets) => ExactAtEnd(secrets, input, output, redactions)
      BY DEF RedactorInvariant
    <2>2. /\ Words(secrets) /\ buffer \in Seq(Letters) /\ buffer \in Seq(Symbols)
          /\ output \in Seq(Symbols)
      BY <2>1, LettersAreSymbols DEF Typed
    <2>3. NoCredentialBetween
      <3> SUFFICES ASSUME NEW w \in secrets, NEW i \in 1 .. Len(output), OccursAt(output, i, w)
                   PROVE  FALSE
        BY DEF NoCredentialBetween
      <3> DEFINE x == output \o buffer
      <3>1. /\ Len(output) \in Nat /\ Len(x) \in Nat /\ Len(output) <= Len(x)
            /\ \A j \in 1 .. Len(output) : output[j] = x[j]
        BY <2>2, Glued
      <3>2. w \in Seq(Letters) /\ Len(w) \in Nat /\ i \in Nat \ {0} /\ i \in 1 .. Len(x)
        BY <2>2, <3>1, WordsAre
      <3>3. Spelled(output, i, w)
        BY <2>2, <3>2, OccursIs
      <3>4. i + Len(w) - 1 <= Len(output)
        BY <3>3 DEF Spelled
      <3>5. Clear(secrets, x, Len(x))
        BY <2>1 DEF Guarded
      <3> HIDE DEF x
      <3>6. Spelled(x, i, w)
        BY <3>1, <3>2, <3>3, <3>4, SpelledSame
      <3> QED
        BY <3>2, <3>5, <3>6 DEF Clear
    <2>4. Len(buffer) < MaximumSecretLength
      BY <2>1 DEF Guarded, Longest, MaximumSecretLength
    <2>5. FactorFree => PartFree(secrets)
      <3>1. ASSUME NEW v \in secrets, NEW w \in secrets, NEW i \in 1 .. Len(w)
            PROVE  OccursAt(w, i, v) <=> Spelled(w, i, v)
        BY <2>2, OccursIs, WordsAre, LettersAreSymbols
      <3> QED
        BY <3>1 DEF FactorFree, PartFree
    <2>6. ASSUME finished, FactorFree
          PROVE  OneShot = [output |-> output, redactions |-> redactions]
      <3>1. ExactAtEnd(secrets, input, output, redactions)
        BY <2>1, <2>5, <2>6
      <3> QED
        BY <3>1, ReplacedIs, Zenon DEF OneShot, ExactAtEnd
    <2> QED
      BY <2>3, <2>4, <2>6 DEF RedactionExact
  <1> QED
    BY <1>1, RedactorInductive, PTL
=============================================================================
