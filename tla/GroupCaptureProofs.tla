------------------------- MODULE GroupCaptureProofs -------------------------
(***************************************************************************)
(* Theorems about GroupCapture, for every group, every client and every    *)
(* call that UseOK admits.                                                 *)
(*                                                                         *)
(* OwnInv is inductive, and so is its first part, AccountsOK, by itself:   *)
(* CallsInStep says which counters a call has open at each of its steps    *)
(* and what it has yet to do with them, so that each step moves as many    *)
(* counters as its call opens or closes (Counted, TaskGoes); a lemma per   *)
(* kind of step shows that it does.  LinesInStep says when a ready line    *)
(* may be out of date, or a tick on its way; it is preserved for the       *)
(* groups in LinesHold.                                                    *)
(*                                                                         *)
(* TellOK adds what a call that is alone has seen of the members so far,   *)
(* and CutsOK which fires of the trigger an orderly capture is of: the     *)
(* first is why PollsTell holds, both are why CaptureIsOwn does.           *)
(*                                                                         *)
(* A sequence of any steps is one of Seq of its own range (IsSequence);    *)
(* what recursive functions count is shown by Induction over a set.        *)
(***************************************************************************)
EXTENDS GroupCapture, SequenceTheorems, FiniteSetTheorems, TLAPS

-----------------------------------------------------------------------------
(* Induction over the naturals, by counting.                               *)
LEMMA Induction ==
  ASSUME NEW S, 0 \in S, \A n \in Nat : n \in S => n + 1 \in S
  PROVE  Nat \subseteq S
<1> SUFFICES ASSUME NEW m \in Nat, m \notin S PROVE FALSE
  OBVIOUS
<1> DEFINE T == {k \in 0..m : k \notin S}
           U == T \ {m}
           pred == [k \in T |-> k - 1]
<1>1. IsFiniteSet(T)
  BY FS_Interval, FS_Subset, T \subseteq 0..m, 0 \in Int, m \in Int
<1>2. IsFiniteSet(U) /\ Cardinality(U) < Cardinality(T)
  <2>1. m \in T
    OBVIOUS
  <2>2. Cardinality(T) \in Nat
    BY <1>1, FS_CardinalityType
  <2>3. IsFiniteSet(U) /\ Cardinality(U) = Cardinality(T) - 1
    BY <1>1, <2>1, FS_RemoveElement
  <2> QED
    BY <2>2, <2>3
<1>3. pred \in [T -> U]
  <2> SUFFICES ASSUME NEW k \in T PROVE k - 1 \in U
    OBVIOUS
  <2>1. k # 0 /\ k - 1 \in Nat /\ (k - 1) + 1 = k
    OBVIOUS
  <2>2. k - 1 \notin S
    BY <2>1
  <2> QED
    BY <2>1, <2>2
<1>4. \E x, y \in T : x # y /\ pred[x] = pred[y]
  <2> HIDE DEF T, U, pred
  <2> QED
    BY <1>1, <1>2, <1>3, FS_PigeonHole
<1> QED
  BY <1>4

(* A set of naturals has a smallest one.                                   *)
LEMMA SmallestIsLeast ==
  ASSUME NEW S \in SUBSET Nat, S # {}
  PROVE  Smallest(S) \in S /\ \A k \in S : Smallest(S) <= k
<1> SUFFICES ASSUME \A n \in S : \E k \in S : ~(n <= k) PROVE FALSE
  BY DEF Smallest
<1> DEFINE Above == {n \in Nat : \A k \in S : n <= k}
<1>1. 0 \in Above
  OBVIOUS
<1>2. ASSUME NEW n \in Nat, n \in Above PROVE n + 1 \in Above
  <2>1. n \notin S
    BY <1>2
  <2> QED
    BY <1>2, <2>1
<1>3. Nat \subseteq Above
  <2> HIDE DEF Above
  <2> QED
    BY <1>1, <1>2, Induction
<1>4. PICK s \in S : TRUE
  OBVIOUS
<1>5. s + 1 <= s
  BY <1>3
<1> QED
  BY <1>5
-----------------------------------------------------------------------------
(* Sequences of anything.                                                  *)

LEMMA SequenceParts ==
  ASSUME NEW s, IsSequence(s)
  PROVE  Len(s) \in Nat /\ DOMAIN s = 1..Len(s) /\ (s # <<>> => Len(s) > 0)
BY LenProperties, EmptySeq DEF IsSequence

LEMMA SequenceOver ==
  ASSUME NEW E, NEW s \in Seq(E)
  PROVE  IsSequence(s)
<1> DEFINE R == {s[k] : k \in DOMAIN s}
<1>1. Len(s) \in Nat /\ s \in [1..Len(s) -> E] /\ DOMAIN s = 1..Len(s)
  BY LenProperties
<1>2. s \in [1..Len(s) -> R]
  BY <1>1
<1>3. s \in Seq(R)
  BY <1>1, <1>2, SeqDef
<1> QED
  BY <1>3 DEF IsSequence

LEMMA FunctionIsSequence ==
  ASSUME NEW n \in Nat, NEW E, NEW f \in [1..n -> E]
  PROVE  IsSequence(f) /\ Len(f) = n /\ DOMAIN f = 1..n
<1>1. f \in Seq(E)
  BY SeqDef
<1>2. Len(f) \in Nat /\ DOMAIN f = 1..Len(f)
  BY <1>1, LenProperties
<1>3. 1..Len(f) = 1..n
  BY <1>2
<1>4. Len(f) = n
  BY <1>2, <1>3
<1> QED
  BY <1>1, <1>3, <1>4, SequenceOver

LEMMA TailParts ==
  ASSUME NEW s, IsSequence(s), s # <<>>
  PROVE  /\ IsSequence(Tail(s)) /\ Len(Tail(s)) = Len(s) - 1 /\ DOMAIN Tail(s) = 1..Len(s)-1
         /\ \A k \in 1..Len(s)-1 : Tail(s)[k] = s[k + 1]
         /\ Head(s) = s[1] /\ Len(s) \in Nat /\ Len(s) > 0 /\ DOMAIN s = 1..Len(s)
<1> DEFINE R == {s[k] : k \in DOMAIN s}
<1>1. s \in Seq(R)
  BY DEF IsSequence
<1>2. /\ Tail(s) \in Seq(R) /\ Len(Tail(s)) = Len(s) - 1
      /\ \A k \in 1..Len(Tail(s)) : Tail(s)[k] = s[k + 1]
  BY <1>1, HeadTailProperties
<1>3. DOMAIN Tail(s) = 1..Len(Tail(s)) /\ Len(s) \in Nat /\ Len(s) > 0 /\ DOMAIN s = 1..Len(s)
  BY <1>1, <1>2, LenProperties, EmptySeq
<1>4. Head(s) = s[1]
  BY <1>1
<1> QED
  BY <1>2, <1>3, <1>4, SequenceOver

LEMMA JoinParts ==
  ASSUME NEW s, IsSequence(s), NEW u, IsSequence(u)
  PROVE  /\ IsSequence(s \o u) /\ Len(s \o u) = Len(s) + Len(u) /\ DOMAIN (s \o u) = 1..Len(s)+Len(u)
         /\ \A k \in 1..Len(s)+Len(u) : (s \o u)[k] = IF k <= Len(s) THEN s[k] ELSE u[k - Len(s)]
         /\ Len(s) \in Nat /\ Len(u) \in Nat
<1> DEFINE R == {s[k] : k \in DOMAIN s} \union {u[k] : k \in DOMAIN u}
<1>1. s \in Seq(R) /\ u \in Seq(R)
  BY SeqMonotonic DEF IsSequence
<1> HIDE DEF R
<1>2. /\ s \o u \in Seq(R) /\ Len(s \o u) = Len(s) + Len(u)
      /\ \A k \in 1..Len(s)+Len(u) : (s \o u)[k] = IF k <= Len(s) THEN s[k] ELSE u[k - Len(s)]
  BY <1>1, ConcatProperties
<1>3. DOMAIN (s \o u) = 1..Len(s \o u) /\ Len(s) \in Nat /\ Len(u) \in Nat
  BY <1>1, <1>2, LenProperties
<1> QED
  BY <1>2, <1>3, SequenceOver

LEMMA AppendParts ==
  ASSUME NEW s, IsSequence(s), NEW e
  PROVE  /\ IsSequence(Append(s, e)) /\ Len(Append(s, e)) = Len(s) + 1 /\ DOMAIN Append(s, e) = 1..Len(s)+1
         /\ \A k \in 1..Len(s) : Append(s, e)[k] = s[k]
         /\ Append(s, e)[Len(s) + 1] = e /\ Append(s, e) # <<>> /\ Len(s) \in Nat
<1> DEFINE R == {s[k] : k \in DOMAIN s} \union {e}
<1>1. s \in Seq(R) /\ e \in R
  BY SeqMonotonic DEF IsSequence
<1> HIDE DEF R
<1>2. /\ Append(s, e) \in Seq(R) /\ Append(s, e) # <<>> /\ Len(Append(s, e)) = Len(s) + 1
      /\ \A k \in 1..Len(s) : Append(s, e)[k] = s[k]
      /\ Append(s, e)[Len(s) + 1] = e
  BY <1>1, AppendProperties
<1>3. DOMAIN Append(s, e) = 1..Len(Append(s, e)) /\ Len(s) \in Nat
  BY <1>1, <1>2, LenProperties
<1> QED
  BY <1>2, <1>3, SequenceOver

(* What is left of a sequence after its first n.                           *)
LEMMA RestParts ==
  ASSUME NEW s, IsSequence(s), NEW n \in 0..Len(s)
  PROVE  /\ IsSequence(SubSeq(s, n + 1, Len(s))) /\ Len(SubSeq(s, n + 1, Len(s))) = Len(s) - n
         /\ DOMAIN SubSeq(s, n + 1, Len(s)) = 1..Len(s)-n
         /\ \A k \in 1..Len(s)-n : SubSeq(s, n + 1, Len(s))[k] = s[k + n]
<1> DEFINE R == {s[k] : k \in DOMAIN s}
           u == SubSeq(s, n + 1, Len(s))
<1>1. Len(s) \in Nat /\ DOMAIN s = 1..Len(s)
  BY SequenceParts
<1>2. \A k \in n + 1..Len(s) : s[k] \in R
  BY <1>1
<1>3. n + 1 \in Int /\ Len(s) \in Int /\ n \in Nat
  BY <1>1
<1>4. /\ u \in Seq(R)
      /\ Len(u) = IF n + 1 <= Len(s) THEN Len(s) - (n + 1) + 1 ELSE 0
      /\ \A k \in 1..Len(s) - (n + 1) + 1 : u[k] = s[n + 1 + k - 1]
  <2> HIDE DEF R
  <2> QED
    BY <1>2, <1>3, SubSeqProperties
<1>5. Len(u) = Len(s) - n
  <2>1. n \in Nat /\ n <= Len(s) /\ Len(s) \in Nat
    BY <1>1
  <2> HIDE DEF u
  <2>2. CASE n + 1 <= Len(s)
    BY <1>4, <2>1, <2>2
  <2>3. CASE ~(n + 1 <= Len(s))
    BY <1>4, <2>1, <2>3
  <2> QED
    BY <2>2, <2>3
<1>6. \A k \in 1..Len(s)-n : u[k] = s[k + n]
  <2> SUFFICES ASSUME NEW k \in 1..Len(s)-n PROVE u[k] = s[k + n]
    OBVIOUS
  <2>1. k \in 1..Len(s) - (n + 1) + 1 /\ n + 1 + k - 1 = k + n
    BY <1>1
  <2> QED
    BY <1>4, <2>1
<1>7. DOMAIN u = 1..Len(u)
  BY <1>4, LenProperties
<1> HIDE DEF u
<1> QED
  BY <1>4, <1>5, <1>6, <1>7, SequenceOver DEF u
-----------------------------------------------------------------------------
(* The words of a readback.                                                *)

LEMMA Division ==
  ASSUME NEW a \in Int, NEW d \in Nat, d > 0
  PROVE  a \div d \in Int /\ (d * (a \div d)) <= a /\ a < (d * (a \div d)) + d
OBVIOUS

LEMMA DivisionGrows ==
  ASSUME NEW a \in Int, NEW b \in Int, a <= b, NEW d \in Nat, d > 0
  PROVE  a \div d <= b \div d
<1> DEFINE p == a \div d
           q == b \div d
<1>1. p \in Int /\ (d * p) <= a
  BY Division
<1>2. q \in Int /\ b < (d * q) + d
  BY Division
<1> HIDE DEF p, q
<1>3. (d * p) < (d * (q + 1)) /\ (d * q) + d = d * (q + 1)
  BY <1>1, <1>2
<1>4. p < q + 1
  <2> SUFFICES ASSUME q + 1 <= p PROVE FALSE
    BY <1>1, <1>2
  <2>1. PICK k \in Nat : p = (q + 1) + k
    <3>1. p - (q + 1) \in Nat /\ p = (q + 1) + (p - (q + 1))
      BY <1>1, <1>2
    <3> QED
      BY <3>1
  <2>2. d * p = (d * (q + 1)) + (d * k) /\ (d * k) \in Nat /\ (d * (q + 1)) \in Int
    BY <1>2, <2>1
  <2> QED
    BY <1>3, <2>2
<1>5. p <= q
  BY <1>1, <1>2, <1>4
<1> QED
  BY <1>5 DEF p, q

LEMMA WordsAreNat ==
  ASSUME NEW m, MemberOK(m), NEW start \in Int, NEW count \in Int
  PROVE  TransferWords(m, start, count) \in Nat /\ MovedWords(m, start, count) \in Nat
<1>1. m.spw \in Nat /\ m.spw > 0 /\ m.wps \in Nat
  BY DEF MemberOK
<1> DEFINE a == start \div m.spw
           b == (start + count - 1) \div m.spw
<1>2. a \in Int /\ b \in Int
  BY <1>1, Division, start + count - 1 \in Int
<1>3. count > 0 => a <= b
  <2> SUFFICES ASSUME count > 0 PROVE a <= b
    OBVIOUS
  <2>1. start + count - 1 \in Int /\ start <= start + count - 1
    OBVIOUS
  <2> QED
    BY <1>1, <2>1, DivisionGrows
<1>4. count * m.wps \in Int /\ (count > 0 => count * m.wps \in Nat)
  <2>1. count \in Nat => count * m.wps \in Nat
    BY <1>1
  <2> QED
    BY <1>1, <2>1
<1>5. TransferWords(m, start, count) = IF count <= 0 THEN 0 ELSE IF m.wps > 1 THEN count * m.wps ELSE b - a + 1
  BY DEF TransferWords
<1>6. MovedWords(m, start, count) =
        IF (IF m.wps > 1 THEN count * m.wps ELSE b - a + 1) < 0 THEN 0
        ELSE IF m.wps > 1 THEN count * m.wps ELSE b - a + 1
  BY DEF MovedWords
<1> HIDE DEF a, b
<1> QED
  BY <1>2, <1>3, <1>4, <1>5, <1>6

(* The running count of the words, and of the bursts, is a function.       *)
LEMMA CountExists ==
  ASSUME NEW m, NEW regions, NEW n \in Nat
  PROVE  \E out : out = [k \in 0..n |-> IF k = 0 THEN 0
                                       ELSE out[k - 1] + TransferWords(m, regions[k][1], regions[k][2])]
<1> DEFINE W(k) == TransferWords(m, regions[k][1], regions[k][2])
           P(l, out) == out = [k \in 0..l |-> IF k = 0 THEN 0 ELSE out[k - 1] + W(k)]
           S == {l \in Nat : \E out : P(l, out)}
<1> HIDE DEF W
<1>1. 0 \in S
  <2> DEFINE out == [k \in 0..0 |-> 0]
  <2>1. P(0, out)
    OBVIOUS
  <2> QED
    BY <2>1
<1>2. ASSUME NEW l \in Nat, l \in S PROVE l + 1 \in S
  <2>1. PICK out : P(l, out)
    BY <1>2
  <2> DEFINE more == [k \in 0..l + 1 |-> IF k = l + 1 THEN out[l] + W(l + 1) ELSE out[k]]
  <2>2. P(l + 1, more)
    <3> SUFFICES ASSUME NEW k \in 0..l + 1
                 PROVE  more[k] = IF k = 0 THEN 0 ELSE more[k - 1] + W(k)
      OBVIOUS
    <3>1. CASE k = l + 1
      BY <3>1
    <3>2. CASE k \in 0..l
      <4>1. out[k] = IF k = 0 THEN 0 ELSE out[k - 1] + W(k)
        BY <2>1, <3>2
      <4>2. more[k] = out[k] /\ (k # 0 => more[k - 1] = out[k - 1])
        BY <3>2
      <4> QED
        BY <4>1, <4>2
    <3> QED
      BY <3>1, <3>2
  <2>3. l + 1 \in Nat
    OBVIOUS
  <2> HIDE DEF P, more
  <2> QED
    BY <2>2, <2>3
<1>3. Nat \subseteq S
  <2> HIDE DEF S
  <2> QED
    BY <1>1, <1>2, Induction
<1>4. PICK out : P(n, out)
  BY <1>3
<1> QED
  BY <1>4 DEF W

BurstsUpTo(out, m, regions, largest, n) ==
  out = [k \in 0..n |-> IF k = 0 THEN <<>>
                        ELSE out[k - 1] \o Bursts(MovedWords(m, regions[k][1], regions[k][2]), largest)]
LEMMA BurstsExist ==
  ASSUME NEW m, NEW regions, NEW largest, NEW n \in Nat
  PROVE  \E out : BurstsUpTo(out, m, regions, largest, n)
<1> DEFINE W(k) == Bursts(MovedWords(m, regions[k][1], regions[k][2]), largest)
           P(l, out) == out = [k \in 0..l |-> IF k = 0 THEN <<>> ELSE out[k - 1] \o W(k)]
           S == {l \in Nat : \E out : P(l, out)}
<1> HIDE DEF W
<1>1. 0 \in S
  <2> DEFINE out == [k \in 0..0 |-> <<>>]
  <2>1. P(0, out)
    OBVIOUS
  <2> QED
    BY <2>1
<1>2. ASSUME NEW l \in Nat, l \in S PROVE l + 1 \in S
  <2>1. PICK out : P(l, out)
    BY <1>2
  <2> DEFINE more == [k \in 0..l + 1 |-> IF k = l + 1 THEN out[l] \o W(l + 1) ELSE out[k]]
  <2>2. P(l + 1, more)
    <3> SUFFICES ASSUME NEW k \in 0..l + 1
                 PROVE  more[k] = IF k = 0 THEN <<>> ELSE more[k - 1] \o W(k)
      OBVIOUS
    <3>1. CASE k = l + 1
      <4>1. k # 0 /\ k - 1 = l /\ l # l + 1 /\ l \in 0..l + 1
        BY <3>1
      <4>2. more[k] = out[l] \o W(k) /\ more[k - 1] = out[l]
        BY <3>1, <4>1
      <4> HIDE DEF more
      <4> QED
        BY <4>1, <4>2
    <3>2. CASE k \in 0..l
      <4>1. out[k] = IF k = 0 THEN <<>> ELSE out[k - 1] \o W(k)
        BY <2>1, <3>2
      <4>2. more[k] = out[k] /\ (k # 0 => more[k - 1] = out[k - 1])
        BY <3>2
      <4> QED
        BY <4>1, <4>2
    <3> QED
      BY <3>1, <3>2
  <2>3. l + 1 \in Nat
    OBVIOUS
  <2> HIDE DEF P, more
  <2> QED
    BY <2>2, <2>3
<1>3. Nat \subseteq S
  <2> HIDE DEF S
  <2> QED
    BY <1>1, <1>2, Induction
<1>4. PICK out : P(n, out)
  BY <1>3
<1> QED
  BY <1>4 DEF W, BurstsUpTo

(* Regions: each a start and a count.                                      *)
RegionsOK(regions) ==
  Len(regions) \in Nat /\ \A k \in 1..Len(regions) : regions[k][1] \in Int /\ regions[k][2] \in Int

LEMMA PlannedWordsAreNat ==
  ASSUME NEW m, MemberOK(m), NEW regions, RegionsOK(regions)
  PROVE  PlannedWords(m, regions) \in Nat
<1> DEFINE n == Len(regions)
           W(k) == TransferWords(m, regions[k][1], regions[k][2])
           f == CHOOSE out : out = [k \in 0..n |-> IF k = 0 THEN 0
                                     ELSE out[k - 1] + TransferWords(m, regions[k][1], regions[k][2])]
<1>1. n \in Nat
  BY DEF RegionsOK
<1>2. f = [k \in 0..n |-> IF k = 0 THEN 0 ELSE f[k - 1] + TransferWords(m, regions[k][1], regions[k][2])]
  BY <1>1, CountExists
<1>3. PlannedWords(m, regions) = f[n]
  BY DEF PlannedWords
<1>4. \A k \in 1..n : W(k) \in Nat
  BY WordsAreNat DEF RegionsOK
<1>5. \A k \in 0..n : f[k] = IF k = 0 THEN 0 ELSE f[k - 1] + W(k)
  BY <1>2
<1> HIDE DEF f, W, n
<1> DEFINE S == {k \in Nat : k <= n => f[k] \in Nat}
<1>6. 0 \in S
  BY <1>1, <1>5
<1>7. ASSUME NEW k \in Nat, k \in S PROVE k + 1 \in S
  <2> SUFFICES ASSUME k + 1 <= n PROVE f[k + 1] \in Nat
    OBVIOUS
  <2>1. f[k] \in Nat
    BY <1>1, <1>7
  <2>2. k + 1 \in 0..n /\ k + 1 \in 1..n /\ k + 1 # 0 /\ (k + 1) - 1 = k
    BY <1>1
  <2>3. f[k + 1] = f[k] + W(k + 1)
    BY <1>5, <2>2
  <2> QED
    BY <1>4, <2>1, <2>2, <2>3
<1>8. Nat \subseteq S
  <2> HIDE DEF S
  <2> QED
    BY <1>6, <1>7, Induction
<1> QED
  BY <1>1, <1>3, <1>8

LEMMA BurstsAreNat ==
  ASSUME NEW words \in Nat, NEW largest \in Nat \ {0}
  PROVE  Bursts(words, largest) \in Seq(Nat)
<1> DEFINE n == (words + largest - 1) \div largest
<1>1. n \in Int /\ (largest * n) <= words + largest - 1
  BY Division, words + largest - 1 \in Int
<1>2. n \in Nat
  <2>1. 0 \div largest = 0
    OBVIOUS
  <2>2. 0 \div largest <= n
    <3>1. 0 \in Int /\ words + largest - 1 \in Int /\ 0 <= words + largest - 1 /\ largest > 0 /\ largest \in Nat
      OBVIOUS
    <3> QED
      BY <3>1, DivisionGrows
  <2> QED
    BY <1>1, <2>1, <2>2
<1> HIDE DEF n
<1>3. ASSUME NEW k \in 1..n PROVE Least(largest, words - (k - 1) * largest) \in Nat
  <2>1. PICK d \in Nat : n = k + d
    <3>1. n - k \in Nat /\ n = k + (n - k)
      BY <1>2
    <3> QED
      BY <3>1
  <2>2. k \in Nat /\ (largest * n) = (largest * k) + (largest * d) /\ (largest * d) \in Nat /\ (largest * k) \in Nat
    BY <1>2, <2>1
  <2>3. (k - 1) * largest = (largest * k) - largest
    BY <2>2
  <2>4. (largest * k) - largest <= words - 1
    BY <1>1, <2>2
  <2> QED
    BY <2>2, <2>3, <2>4 DEF Least
<1>4. [k \in 1..n |-> Least(largest, words - (k - 1) * largest)] \in [1..n -> Nat]
  BY <1>3
<1>5. Bursts(words, largest) = [k \in 1..n |-> Least(largest, words - (k - 1) * largest)]
  BY DEF Bursts, n
<1>6. Bursts(words, largest) \in [1..n -> Nat]
  BY <1>4, <1>5
<1> QED
  BY <1>2, <1>6, SeqDef

LEMMA PlannedBurstsAreNat ==
  ASSUME NEW m, MemberOK(m), NEW regions, RegionsOK(regions), NEW largest \in Nat \ {0}
  PROVE  PlannedBursts(m, regions, largest) \in Seq(Nat)
<1> DEFINE n == Len(regions)
           W(k) == Bursts(MovedWords(m, regions[k][1], regions[k][2]), largest)
           f == CHOOSE out : out = [k \in 0..n |-> IF k = 0 THEN <<>>
                  ELSE out[k - 1] \o Bursts(MovedWords(m, regions[k][1], regions[k][2]), largest)]
<1>1. n \in Nat
  BY DEF RegionsOK
<1>2. BurstsUpTo(f, m, regions, largest, n)
  <2>1. PICK out : BurstsUpTo(out, m, regions, largest, Len(regions))
    <3>1. Len(regions) \in Nat
      BY <1>1
    <3> QED
      BY <3>1, BurstsExist
  <2> QED
    BY <2>1, Zenon DEF BurstsUpTo
<1>3. PlannedBursts(m, regions, largest) = f[n]
  BY DEF PlannedBursts
<1>4. \A k \in 1..n : W(k) \in Seq(Nat)
  BY WordsAreNat, BurstsAreNat DEF RegionsOK
<1>5. \A k \in 0..n : f[k] = IF k = 0 THEN <<>> ELSE f[k - 1] \o W(k)
  <2> HIDE DEF f
  <2> QED
    BY <1>2 DEF BurstsUpTo
<1> HIDE DEF f, W, n
<1> DEFINE S == {k \in Nat : k <= n => f[k] \in Seq(Nat)}
<1>6. 0 \in S
  <2>1. <<>> \in Seq(Nat)
    OBVIOUS
  <2>2. 0 \in 0..n
    BY <1>1
  <2>3. f[0] = <<>>
    BY <1>5, <2>2
  <2> QED
    BY <2>1, <2>3
<1>7. ASSUME NEW k \in Nat, k \in S PROVE k + 1 \in S
  <2> SUFFICES ASSUME k + 1 <= n PROVE f[k + 1] \in Seq(Nat)
    OBVIOUS
  <2>1. f[k] \in Seq(Nat)
    BY <1>1, <1>7
  <2>2. k + 1 \in 0..n /\ k + 1 \in 1..n /\ k + 1 # 0 /\ (k + 1) - 1 = k
    BY <1>1
  <2>3. f[k + 1] = f[k] \o W(k + 1)
    BY <1>5, <2>2
  <2> QED
    BY <1>4, <2>1, <2>2, <2>3, ConcatProperties
<1>8. Nat \subseteq S
  <2> HIDE DEF S
  <2> QED
    BY <1>6, <1>7, Induction
<1> QED
  BY <1>1, <1>3, <1>8
-----------------------------------------------------------------------------
(* The members of a group.                                                 *)

LEMMA MembersOK ==
  ASSUME use \in Uses
  PROVE  /\ Len(use.members) \in Nat /\ Len(use.members) > 0 /\ Members = 1..Len(use.members)
         /\ \A i \in Members : MemberOK(M(i))
         /\ use.max_burst \in Nat \ {0}
<1>1. UseOK(use)
  BY GroupAssumption
<1>2. IsSequence(use.members) /\ use.members # <<>> /\ use.max_burst \in Nat \ {0}
      /\ \A i \in DOMAIN use.members : MemberOK(use.members[i])
  BY <1>1 DEF UseOK
<1> QED
  BY <1>2, SequenceParts DEF Members, M

LEMMA OpenedOK ==
  ASSUME NEW i, NEW kept, KeptOK(i, kept), NEW base, NEW count
  PROVE  KeptOK(i, Opened(kept, base, count))
<1> DEFINE o == Opened(kept, base, count)
<1>1. DOMAIN o = 1..Windows(i)
  BY DEF Opened, KeptOK
<1>2. ASSUME NEW w \in 1..Windows(i)
      PROVE  DOMAIN o[w] = {"base", "count", "head", "shot"} /\ o[w].head \in Int /\ o[w].shot \in Shot
  <2>1. o[w] = [kept[w] EXCEPT !.shot = None] \/ o[w] = kept[w]
    BY DEF Opened, KeptOK
  <2>2. DOMAIN kept[w] = {"base", "count", "head", "shot"} /\ kept[w].head \in Int /\ kept[w].shot \in Shot
    BY DEF KeptOK
  <2>3. None \in Shot
    BY DEF Shot
  <2> HIDE DEF o
  <2> QED
    BY <2>1, <2>2, <2>3
<1> HIDE DEF o
<1>3. KeptOK(i, o)
  BY <1>1, <1>2 DEF KeptOK
<1> QED
  BY <1>3 DEF o

LEMMA ArmOK ==
  ASSUME use \in Uses, NEW i \in Members, NEW c, CoreOK(i, c), RunOK(i, regs[i])
  PROVE  CoreOK(i, Arm(i, c))
<1>1. MemberOK(M(i))
  BY MembersOK
<1>2. CASE c.mode # "idle"
  BY <1>2 DEF Arm
<1>3. CASE c.mode = "idle"
  <2> DEFINE kept == IF M(i).rle THEN [c.kept EXCEPT ![1].shot = None] ELSE Opened(c.kept, 0, regs[i].count)
             a == [c EXCEPT !.mode = "armed", !.full = FALSE, !.run = regs[i], !.window = 0, !.shot = None,
                            !.triggered = FALSE, !.end = IF M(i).rle THEN 1 ELSE c.end, !.kept = kept]
  <2>1. Arm(i, c) = a
    BY <1>3 DEF Arm
  <2>2. KeptOK(i, c.kept)
    BY DEF CoreOK
  <2>3. KeptOK(i, kept)
    <3>1. CASE M(i).rle
      <4>1. Windows(i) = 1 /\ None \in Shot
        BY <3>1 DEF Windows, Shot
      <4>2. kept = [c.kept EXCEPT ![1].shot = None]
        BY <3>1
      <4>3. DOMAIN c.kept = 1..1 /\ DOMAIN c.kept[1] = {"base", "count", "head", "shot"} /\ c.kept[1].head \in Int
        BY <2>2, <4>1 DEF KeptOK
      <4> HIDE DEF kept
      <4>4. DOMAIN kept = 1..1 /\ DOMAIN kept[1] = {"base", "count", "head", "shot"}
            /\ kept[1].head \in Int /\ kept[1].shot = None
        BY <4>2, <4>3
      <4> QED
        BY <4>1, <4>4 DEF KeptOK
    <3>2. CASE ~M(i).rle
      BY <2>2, <3>2, OpenedOK
    <3> QED
      BY <3>1, <3>2
  <2> HIDE DEF kept
  <2>4. DOMAIN c = {"mode", "full", "triggered", "window", "shot", "end", "run", "kept"} /\ c.end \in 1..M(i).depth
    BY DEF CoreOK
  <2>5. /\ DOMAIN a = {"mode", "full", "triggered", "window", "shot", "end", "run", "kept"}
        /\ a.mode = "armed" /\ a.full = FALSE /\ a.triggered = FALSE /\ a.window = 0 /\ a.shot = None
        /\ a.run = regs[i] /\ a.kept = kept /\ a.end = IF M(i).rle THEN 1 ELSE c.end
    BY <2>4
  <2> HIDE DEF a
  <2>6. 0 \in 0..Windows(i) /\ None \in Shot /\ a.end \in 1..M(i).depth
    BY <1>1, <2>4, <2>5 DEF Windows, Shot, MemberOK
  <2>7. ~M(i).rle => 0 < regs[i].windows
    BY DEF RunOK
  <2>8. CoreOK(i, a)
    BY <2>3, <2>5, <2>6, <2>7 DEF CoreOK
  <2> QED
    BY <2>1, <2>8
<1> QED
  BY <1>2, <1>3

LEMMA AbortOK ==
  ASSUME NEW i, NEW c, CoreOK(i, c)
  PROVE  CoreOK(i, Abort(c))
<1> DEFINE a == Abort(c)
<1>1. DOMAIN c = {"mode", "full", "triggered", "window", "shot", "end", "run", "kept"}
  BY DEF CoreOK
<1>2. /\ DOMAIN a = {"mode", "full", "triggered", "window", "shot", "end", "run", "kept"}
      /\ a.mode = "idle" /\ a.full = c.full /\ a.triggered = c.triggered /\ a.window = c.window /\ a.shot = None
      /\ a.run = c.run /\ a.kept = c.kept /\ a.end = c.end
  BY <1>1 DEF Abort
<1>3. None \in Shot
  BY DEF Shot
<1> HIDE DEF a
<1>4. CoreOK(i, a)
  BY <1>2, <1>3 DEF CoreOK
<1> QED
  BY <1>4 DEF a

LEMMA AcceptOK ==
  ASSUME use \in Uses, NEW i \in Members, NEW c, CoreOK(i, c), NEW shot \in 1..MaxFires
  PROVE  CoreOK(i, Accept(i, c, shot))
<1> DEFINE a == Accept(i, c, shot)
<1>1. MemberOK(M(i)) /\ MaxFires \in Nat
  BY MembersOK, GroupAssumption
<1>2. DOMAIN c = {"mode", "full", "triggered", "window", "shot", "end", "run", "kept"}
  BY DEF CoreOK
<1>3. shot \in Shot /\ None \in Shot
  BY DEF Shot
<1>4. CASE M(i).rle /\ c.mode = "armed"
  <2>1. a = [c EXCEPT !.mode = "capturing", !.triggered = TRUE, !.shot = shot, !.end = c.run.pre_lines + 1]
    BY <1>4 DEF Accept
  <2> HIDE DEF a
  <2>2. /\ DOMAIN a = {"mode", "full", "triggered", "window", "shot", "end", "run", "kept"}
        /\ a.mode = "capturing" /\ a.full = c.full /\ a.triggered = TRUE /\ a.window = c.window /\ a.shot = shot
        /\ a.run = c.run /\ a.kept = c.kept /\ a.end = c.run.pre_lines + 1
    BY <1>2, <2>1
  <2>3. c.run.pre_lines \in 0..M(i).depth-1 /\ M(i).depth \in Nat
    BY <1>1, <1>4 DEF CoreOK, RunOK, MemberOK
  <2>4. a.end \in 1..M(i).depth
    BY <2>2, <2>3
  <2>5. CoreOK(i, a)
    BY <1>3, <1>4, <2>2, <2>4 DEF CoreOK
  <2> QED
    BY <2>5 DEF a
<1>5. CASE ~M(i).rle /\ c.mode = "armed" /\ c.full
  <2> DEFINE slot == [base |-> c.window * c.run.count, count |-> c.run.count, shot |-> None,
                      head |-> c.window * c.run.count + (shot % c.run.count)]
             kept == [c.kept EXCEPT ![c.window + 1] = slot]
  <2>1. a = [c EXCEPT !.mode = "capturing", !.triggered = TRUE, !.shot = shot, !.kept = kept]
    BY <1>5 DEF Accept
  <2>2. c.run.count \in Nat /\ c.run.count > 0 /\ c.window \in Nat /\ c.window + 1 \in 1..Windows(i)
    <3>1. c.window < c.run.windows /\ c.run.windows \in 1..M(i).max_windows /\ c.run.count \in Nat \ {0}
          /\ c.window \in 0..Windows(i) /\ Windows(i) = M(i).max_windows /\ M(i).max_windows \in Nat
      BY <1>1, <1>5 DEF CoreOK, RunOK, MemberOK, Windows
    <3> QED
      BY <3>1
  <2>3. slot.head \in Int
    <3>1. c.window * c.run.count \in Int /\ shot % c.run.count \in Int
      BY <2>2, <1>1
    <3> QED
      BY <3>1
  <2>4. DOMAIN slot = {"base", "count", "head", "shot"} /\ slot.shot \in Shot
    BY <1>3
  <2> HIDE DEF slot
  <2>5. KeptOK(i, kept)
    <3>1. KeptOK(i, c.kept)
      BY DEF CoreOK
    <3> QED
      BY <2>3, <2>4, <3>1 DEF KeptOK
  <2> HIDE DEF kept, a
  <2>6. /\ DOMAIN a = {"mode", "full", "triggered", "window", "shot", "end", "run", "kept"}
        /\ a.mode = "capturing" /\ a.full = c.full /\ a.triggered = TRUE /\ a.window = c.window /\ a.shot = shot
        /\ a.run = c.run /\ a.kept = kept /\ a.end = c.end
    BY <1>2, <2>1
  <2>7. CoreOK(i, a)
    BY <1>3, <1>5, <2>5, <2>6 DEF CoreOK
  <2> QED
    BY <2>7 DEF a
<1>6. CASE ~(M(i).rle /\ c.mode = "armed") /\ ~(~M(i).rle /\ c.mode = "armed" /\ c.full)
  BY <1>6 DEF Accept
<1> QED
  BY <1>4, <1>5, <1>6
-----------------------------------------------------------------------------
(* The types, a step on.                                                   *)

CoresNext == DOMAIN core' = Members /\ \A i \in Members : CoreOK(i, core'[i])
RegsNext == DOMAIN regs' = Members /\ \A i \in Members : RunOK(i, regs'[i])
LinesNext == /\ seen' \in [Members -> BOOLEAN] /\ fires' \in 0..MaxFires /\ fired' \in BOOLEAN
             /\ ticks' \in [Members -> Seq(1..fires')]
FetchNext == fetch' \in [{0} \union Members -> [total : Nat, done : Nat, depth : Nat]]
HostNext == /\ DOMAIN host' = Members
            /\ \A i \in Members : /\ host'[i] \in [pre_lines : Nat, triggered : BOOLEAN]
                                  /\ host'[i].pre_lines \in 0..M(i).depth-1

LEMMA TypeNext ==
  ASSUME TypeOK, use' = use, CoresNext, RegsNext, LinesNext, FetchNext, HostNext
  PROVE  TypeOK'
<1>1. use' \in Uses /\ Members' = Members
  BY DEF TypeOK, Members
<1>2. DOMAIN core' = Members' /\ \A i \in Members' : CoreOK(i, core[i])'
  <2>1. DOMAIN core' = Members'
    BY <1>1 DEF CoresNext
  <2>2. ASSUME NEW i \in Members' PROVE CoreOK(i, core[i])'
    <3>1. CoreOK(i, core'[i]) /\ M(i)' = M(i)
      BY <1>1 DEF CoresNext, M
    <3>2. KeptOK(i, core[i].kept)' /\ RunOK(i, core[i].run)' /\ Windows(i)' = Windows(i)
      BY <3>1 DEF CoreOK, KeptOK, RunOK, Windows, M, Shot
    <3> QED
      BY <3>1, <3>2, Zenon DEF CoreOK, Shot
  <2> QED
    BY <2>1, <2>2
<1>3. DOMAIN regs' = Members' /\ \A i \in Members' : RunOK(i, regs[i])'
  BY <1>1, Zenon DEF RegsNext, RunOK, M
<1>4. DOMAIN host' = Members'
      /\ \A i \in Members' : /\ host'[i] \in [pre_lines : Nat, triggered : BOOLEAN]
                             /\ host'[i].pre_lines \in 0..M(i)'.depth-1
  BY <1>1, Zenon DEF HostNext, M
<1> QED
  BY <1>1, <1>2, <1>3, <1>4, Zenon DEF TypeOK, LinesNext, FetchNext

(* What does not move keeps its type.                                      *)
LEMMA TypeKept ==
  ASSUME TypeOK
  PROVE  /\ core' = core => CoresNext
         /\ regs' = regs => RegsNext
         /\ seen' = seen /\ fires' = fires /\ ticks' = ticks /\ Latched => LinesNext
         /\ fetch' = fetch => FetchNext
         /\ host' = host => HostNext
<1>1. Latched => fired' \in BOOLEAN
  BY DEF Latched
<1> QED
  BY <1>1, Zenon DEF TypeOK, CoresNext, RegsNext, LinesNext, FetchNext, HostNext

LEMMA CoreNext ==
  ASSUME TypeOK, NEW i \in Members, NEW c, CoreOK(i, c), core' = [core EXCEPT ![i] = c]
  PROVE  CoresNext
BY DEF TypeOK, CoresNext

LEMMA FillTypes ==
  ASSUME TypeOK, NEW i \in Members, Fill(i)
  PROVE  CoresNext
<1>1. MemberOK(M(i)) /\ CoreOK(i, core[i])
  BY MembersOK DEF TypeOK
<1>2. PICK end \in IF M(i).rle THEN 1..Most(1, core[i].run.pre_lines) ELSE {core[i].end} :
        core' = [core EXCEPT ![i].full = TRUE, ![i].end = end]
  BY DEF Fill
<1> DEFINE c == [core[i] EXCEPT !.full = TRUE, !.end = end]
<1>3. core' = [core EXCEPT ![i] = c]
  BY <1>2 DEF TypeOK
<1>4. end \in 1..M(i).depth
  <2>1. CASE M(i).rle
    <3>1. core[i].run.pre_lines \in 0..M(i).depth-1 /\ M(i).depth \in Nat \ {0} /\ end \in 1..Most(1, core[i].run.pre_lines)
      BY <1>1, <1>2, <2>1 DEF CoreOK, RunOK, MemberOK
    <3> QED
      BY <3>1 DEF Most
  <2>2. CASE ~M(i).rle
    BY <1>1, <1>2, <2>2 DEF CoreOK
  <2> QED
    BY <2>1, <2>2
<1>5. /\ DOMAIN c = {"mode", "full", "triggered", "window", "shot", "end", "run", "kept"}
      /\ c.mode = core[i].mode /\ c.full = TRUE /\ c.triggered = core[i].triggered /\ c.window = core[i].window
      /\ c.shot = core[i].shot /\ c.run = core[i].run /\ c.kept = core[i].kept /\ c.end = end
  BY <1>1 DEF CoreOK
<1> HIDE DEF c
<1>6. CoreOK(i, c)
  BY <1>1, <1>4, <1>5 DEF CoreOK
<1> QED
  BY <1>3, <1>6, CoreNext

LEMMA CompleteRawTypes ==
  ASSUME TypeOK, NEW i \in Members, CompleteRaw(i)
  PROVE  CoresNext
<1> DEFINE c == core[i]
           n == c.window + 1
           kept == [c.kept EXCEPT ![n].shot = c.shot]
           opened == Opened(kept, n * c.run.count, c.run.count)
           rested == [c EXCEPT !.mode = "idle", !.window = n, !.kept = kept, !.shot = None]
           again == [c EXCEPT !.mode = "armed", !.full = FALSE, !.window = n, !.shot = None, !.kept = opened]
<1>1. MemberOK(M(i)) /\ CoreOK(i, c)
  BY MembersOK DEF TypeOK
<1>2. /\ c.mode = "capturing" /\ ~M(i).rle
      /\ core' = [core EXCEPT ![i] = IF n = c.run.windows THEN rested ELSE again]
  BY DEF CompleteRaw
<1> HIDE DEF c
<1>3. c.window < c.run.windows /\ c.run.windows \in 1..M(i).max_windows /\ Windows(i) = M(i).max_windows
      /\ M(i).max_windows \in Nat /\ c.window \in Nat
  BY <1>1, <1>2 DEF CoreOK, RunOK, MemberOK, Windows
<1>4. n \in 1..Windows(i) /\ (n # c.run.windows => n < c.run.windows)
  BY <1>3
<1> HIDE DEF n
<1>5. KeptOK(i, kept)
  <2>1. KeptOK(i, c.kept) /\ c.shot \in Shot
    BY <1>1 DEF CoreOK
  <2>2. DOMAIN kept = 1..Windows(i)
    BY <2>1 DEF KeptOK
  <2>3. ASSUME NEW w \in 1..Windows(i)
        PROVE  DOMAIN kept[w] = {"base", "count", "head", "shot"} /\ kept[w].head \in Int /\ kept[w].shot \in Shot
    <3>1. DOMAIN c.kept[w] = {"base", "count", "head", "shot"} /\ c.kept[w].head \in Int /\ c.kept[w].shot \in Shot
      BY <2>1 DEF KeptOK
    <3>2. kept[w] = IF w = n THEN [c.kept[w] EXCEPT !.shot = c.shot] ELSE c.kept[w]
      BY <2>1 DEF KeptOK
    <3> HIDE DEF kept
    <3> QED
      BY <2>1, <3>1, <3>2
  <2> HIDE DEF kept
  <2> QED
    BY <2>2, <2>3 DEF KeptOK
<1>6. KeptOK(i, opened)
  BY <1>5, OpenedOK
<1> HIDE DEF kept, opened
<1>7. DOMAIN c = {"mode", "full", "triggered", "window", "shot", "end", "run", "kept"} /\ None \in Shot
  BY <1>1 DEF CoreOK, Shot
<1>8. CoreOK(i, rested)
  <2>1. /\ DOMAIN rested = {"mode", "full", "triggered", "window", "shot", "end", "run", "kept"}
        /\ rested.mode = "idle" /\ rested.full = c.full /\ rested.triggered = c.triggered /\ rested.window = n
        /\ rested.shot = None /\ rested.run = c.run /\ rested.kept = kept /\ rested.end = c.end
    BY <1>7
  <2>2. n \in 0..Windows(i)
    BY <1>3, <1>4
  <2> HIDE DEF rested
  <2> QED
    BY <1>1, <1>5, <1>7, <2>1, <2>2 DEF CoreOK
<1>9. n # c.run.windows => CoreOK(i, again)
  <2>1. /\ DOMAIN again = {"mode", "full", "triggered", "window", "shot", "end", "run", "kept"}
        /\ again.mode = "armed" /\ again.full = FALSE /\ again.triggered = c.triggered /\ again.window = n
        /\ again.shot = None /\ again.run = c.run /\ again.kept = opened /\ again.end = c.end
    BY <1>7
  <2>2. n \in 0..Windows(i)
    BY <1>3, <1>4
  <2> HIDE DEF again
  <2> QED
    BY <1>1, <1>4, <1>6, <1>7, <2>1, <2>2 DEF CoreOK
<1> HIDE DEF rested, again
<1>10. CASE n = c.run.windows
  BY <1>2, <1>8, <1>10, CoreNext
<1>11. CASE n # c.run.windows
  BY <1>2, <1>9, <1>11, CoreNext
<1> QED
  BY <1>10, <1>11

LEMMA CompleteRleTypes ==
  ASSUME TypeOK, NEW i \in Members, CompleteRle(i)
  PROVE  CoresNext
<1>1. MemberOK(M(i)) /\ CoreOK(i, core[i])
  BY MembersOK DEF TypeOK
<1>2. M(i).rle
  BY DEF CompleteRle
<1>3. PICK end \in core[i].end..Least(core[i].end + 1, M(i).depth) :
        core' = [core EXCEPT ![i].mode = "idle", ![i].shot = None, ![i].window = 1,
                             ![i].end = end, ![i].kept[1].shot = core[i].shot]
  BY Zenon DEF CompleteRle
<1> DEFINE kept == [core[i].kept EXCEPT ![1].shot = core[i].shot]
           c == [core[i] EXCEPT !.mode = "idle", !.shot = None, !.window = 1, !.end = end, !.kept = kept]
<1>4. core' = [core EXCEPT ![i] = c]
  BY <1>1, <1>3 DEF TypeOK, CoreOK
<1>5. end \in 1..M(i).depth
  BY <1>1, <1>3 DEF CoreOK, MemberOK, Least
<1>6. Windows(i) = 1 /\ None \in Shot
  BY <1>2 DEF Windows, Shot
<1>7. KeptOK(i, kept)
  <2>1. KeptOK(i, core[i].kept) /\ core[i].shot \in Shot
    BY <1>1 DEF CoreOK
  <2>2. DOMAIN core[i].kept = 1..1 /\ DOMAIN core[i].kept[1] = {"base", "count", "head", "shot"}
        /\ core[i].kept[1].head \in Int
    BY <1>6, <2>1 DEF KeptOK
  <2>3. DOMAIN kept = 1..1 /\ DOMAIN kept[1] = {"base", "count", "head", "shot"}
        /\ kept[1].head \in Int /\ kept[1].shot = core[i].shot
    BY <2>2
  <2> HIDE DEF kept
  <2> QED
    BY <1>6, <2>1, <2>3 DEF KeptOK
<1> HIDE DEF kept
<1>8. /\ DOMAIN c = {"mode", "full", "triggered", "window", "shot", "end", "run", "kept"}
      /\ c.mode = "idle" /\ c.full = core[i].full /\ c.triggered = core[i].triggered /\ c.window = 1
      /\ c.shot = None /\ c.run = core[i].run /\ c.kept = kept /\ c.end = end
  BY <1>1 DEF CoreOK
<1> HIDE DEF c
<1>9. 1 \in 0..Windows(i)
  BY <1>6
<1>10. CoreOK(i, c)
  BY <1>1, <1>2, <1>5, <1>6, <1>7, <1>8, <1>9 DEF CoreOK
<1> QED
  BY <1>4, <1>10, CoreNext

LEMMA FireTypes ==
  ASSUME TypeOK, Fire, Latched
  PROVE  CoresNext /\ LinesNext
<1>1. fires + 1 \in 1..MaxFires /\ fires' = fires + 1 /\ fires \in Nat /\ fires + 1 \in 0..MaxFires
  BY GroupAssumption DEF Fire, TypeOK
<1>2. CoresNext
  <2>1. core' = [i \in Members |-> IF M(i).crossed THEN core[i] ELSE Accept(i, core[i], fires + 1)]
    BY DEF Fire
  <2>2. ASSUME NEW i \in Members PROVE CoreOK(i, core'[i])
    <3>1. CoreOK(i, core[i]) /\ CoreOK(i, Accept(i, core[i], fires + 1))
      BY <1>1, AcceptOK DEF TypeOK
    <3>2. core'[i] = core[i] \/ core'[i] = Accept(i, core[i], fires + 1)
      BY <2>1
    <3> QED
      BY <3>1, <3>2
  <2> QED
    BY <2>1, <2>2 DEF CoresNext
<1>3. ticks' \in [Members -> Seq(1..fires')]
  <2>1. ticks' = [i \in Members |-> IF M(i).crossed THEN Append(ticks[i], fires + 1) ELSE ticks[i]]
    BY DEF Fire
  <2>2. ASSUME NEW i \in Members PROVE ticks'[i] \in Seq(1..fires')
    <3>1. ticks[i] \in Seq(1..fires)
      BY DEF TypeOK
    <3>2. 1..fires \subseteq 1..fires' /\ fires + 1 \in 1..fires'
      BY <1>1
    <3>3. ticks[i] \in Seq(1..fires')
      BY <3>1, <3>2, SeqMonotonic
    <3>4. Append(ticks[i], fires + 1) \in Seq(1..fires')
      BY <3>2, <3>3, AppendProperties
    <3> QED
      BY <2>1, <3>3, <3>4
  <2> QED
    BY <2>1, <2>2
<1>4. fired' \in BOOLEAN
  BY DEF Latched
<1>5. seen' \in [Members -> BOOLEAN]
  BY DEF Fire, TypeOK
<1> QED
  BY <1>1, <1>2, <1>3, <1>4, <1>5 DEF LinesNext

LEMMA TickTypes ==
  ASSUME TypeOK, NEW i \in Members, Tick(i), Latched
  PROVE  CoresNext /\ LinesNext
<1>1. fires \in 0..MaxFires /\ ticks[i] \in Seq(1..fires) /\ ticks[i] # <<>> /\ fires \in Nat /\ MaxFires \in Nat
  BY GroupAssumption DEF Tick, TypeOK
<1>2. Head(ticks[i]) \in 1..fires /\ Tail(ticks[i]) \in Seq(1..fires)
  BY <1>1, HeadTailProperties
<1>3. Head(ticks[i]) \in 1..MaxFires
  BY <1>1, <1>2
<1>4. CoreOK(i, Accept(i, core[i], Head(ticks[i])))
  BY <1>3, AcceptOK DEF TypeOK
<1>5. core' = [core EXCEPT ![i] = Accept(i, core[i], Head(ticks[i]))]
  BY DEF Tick
<1>6. CoresNext
  BY <1>4, <1>5, CoreNext
<1>7. ticks' = [ticks EXCEPT ![i] = Tail(ticks[i])] /\ fires' = fires /\ seen' = seen
  BY DEF Tick
<1>8. ticks' \in [Members -> Seq(1..fires')]
  BY <1>2, <1>7 DEF TypeOK
<1>9. fired' \in BOOLEAN
  BY DEF Latched
<1> QED
  BY <1>6, <1>7, <1>8, <1>9 DEF LinesNext, TypeOK

LEMMA SeeTypes ==
  ASSUME TypeOK, NEW i \in Members, See(i), Latched
  PROVE  LinesNext
<1>1. seen' = [seen EXCEPT ![i] = ~seen[i]] /\ ticks' = ticks /\ fires' = fires
  BY DEF See
<1>2. fired' \in BOOLEAN
  BY DEF Latched
<1> QED
  BY <1>1, <1>2 DEF TypeOK, LinesNext
-----------------------------------------------------------------------------
(* The step a call is at.                                                  *)

LEMMA HeadStep ==
  ASSUME CallsInStep, NEW t \in Tasks, Busy(t)
  PROVE  /\ CallOK(job[t]) /\ IsSequence(job[t].todo) /\ job[t].todo # <<>>
         /\ Head(job[t].todo) = job[t].todo[1] /\ StepOK(Head(job[t].todo)) /\ 1 \in DOMAIN job[t].todo
         /\ DOMAIN job = Tasks /\ DOMAIN job[t] = DOMAIN Call(job[t].call)
<1>1. CallOK(job[t]) /\ job[t].todo # <<>> /\ DOMAIN job = Tasks
  BY DEF CallsInStep, Busy
<1>2. IsSequence(job[t].todo) /\ DOMAIN job[t] = DOMAIN Call(job[t].call)
      /\ \A k \in DOMAIN job[t].todo : StepOK(job[t].todo[k])
  BY <1>1, Zenon DEF CallOK
<1>3. Head(job[t].todo) = job[t].todo[1] /\ Len(job[t].todo) \in Nat /\ Len(job[t].todo) > 0
      /\ DOMAIN job[t].todo = 1..Len(job[t].todo)
  BY <1>1, <1>2, TailParts
<1>4. 1 \in DOMAIN job[t].todo
  BY <1>3
<1> QED
  BY <1>1, <1>2, <1>3, <1>4

LEMMA ConfigureTypes ==
  ASSUME TypeOK, CallsInStep, NEW t \in Tasks, Configure(t)
  PROVE  RegsNext /\ HostNext
<1> DEFINE s == Head(job[t].todo)
<1>1. Busy(t) /\ s.op = "configure"
  BY DEF Configure, Now
<1>2. s.m \in Members /\ RunOK(s.m, s.params)
  BY <1>1, HeadStep DEF StepOK
<1>3. regs' = [regs EXCEPT ![s.m] = s.params]
      /\ host' = [host EXCEPT ![s.m].pre_lines = IF M(s.m).rle THEN s.params.pre_lines ELSE host[s.m].pre_lines]
  BY DEF Configure
<1> HIDE DEF s
<1>4. RegsNext
  BY <1>2, <1>3 DEF TypeOK, RegsNext
<1>5. HostNext
  <2>1. DOMAIN host' = Members
    BY <1>3 DEF TypeOK
  <2>2. ASSUME NEW i \in Members
        PROVE  /\ host'[i] \in [pre_lines : Nat, triggered : BOOLEAN]
               /\ host'[i].pre_lines \in 0..M(i).depth-1
    <3>1. host[i] \in [pre_lines : Nat, triggered : BOOLEAN] /\ host[i].pre_lines \in 0..M(i).depth-1
      BY DEF TypeOK
    <3>2. CASE i = s.m /\ M(i).rle
      <4>1. host'[i] = [host[i] EXCEPT !.pre_lines = s.params.pre_lines]
        BY <1>2, <1>3, <3>2 DEF TypeOK
      <4>2. s.params.pre_lines \in 0..M(i).depth-1 /\ M(i).depth \in Nat
        BY <1>2, <3>2, MembersOK DEF RunOK, TypeOK, MemberOK
      <4> QED
        BY <3>1, <4>1, <4>2
    <3>3. CASE ~(i = s.m /\ M(i).rle)
      <4>1. host'[i] = host[i]
        BY <1>2, <1>3, <3>1, <3>3 DEF TypeOK
      <4> QED
        BY <3>1, <4>1
    <3> QED
      BY <3>2, <3>3
  <2> QED
    BY <2>1, <2>2 DEF HostNext
<1> QED
  BY <1>4, <1>5

LEMMA ArmTypes ==
  ASSUME TypeOK, CallsInStep, NEW t \in Tasks, ArmMember(t)
  PROVE  CoresNext
<1> DEFINE m == Head(job[t].todo).m
<1>1. Busy(t) /\ Head(job[t].todo).op = "arm"
  BY DEF ArmMember, Now
<1>2. m \in Members
  BY <1>1, HeadStep DEF StepOK
<1>3. core' = [core EXCEPT ![m] = Arm(m, core[m])]
  BY DEF ArmMember
<1> HIDE DEF m
<1>4. CoreOK(m, Arm(m, core[m]))
  BY <1>2, ArmOK DEF TypeOK
<1> QED
  BY <1>2, <1>3, <1>4, CoreNext

LEMMA AbortTypes ==
  ASSUME TypeOK, CallsInStep, NEW t \in Tasks, AbortMember(t)
  PROVE  CoresNext
<1> DEFINE m == Head(job[t].todo).m
<1>1. Busy(t) /\ Head(job[t].todo).op = "abort"
  BY DEF AbortMember, Now
<1>2. m \in Members
  BY <1>1, HeadStep DEF StepOK
<1>3. core' = [core EXCEPT ![m] = Abort(core[m])]
  BY DEF AbortMember
<1> HIDE DEF m
<1>4. CoreOK(m, Abort(core[m]))
  BY <1>2, AbortOK DEF TypeOK
<1> QED
  BY <1>2, <1>3, <1>4, CoreNext

LEMMA PollTypes ==
  ASSUME TypeOK, CallsInStep, NEW t \in Tasks, PollMember(t)
  PROVE  HostNext
<1> DEFINE m == Head(job[t].todo).m
<1>1. Busy(t) /\ Head(job[t].todo).op = "poll"
  BY DEF PollMember, Now
<1>2. m \in Members
  BY <1>1, HeadStep DEF StepOK
<1>3. host' = [host EXCEPT ![m].triggered = core[m].triggered]
  BY DEF PollMember
<1> HIDE DEF m
<1>4. core[m].triggered \in BOOLEAN
  BY <1>2 DEF TypeOK, CoreOK
<1>5. ASSUME NEW i \in Members
      PROVE  /\ host'[i] \in [pre_lines : Nat, triggered : BOOLEAN]
             /\ host'[i].pre_lines \in 0..M(i).depth-1
  BY <1>2, <1>3, <1>4 DEF TypeOK
<1> QED
  BY <1>3, <1>5 DEF HostNext, TypeOK
-----------------------------------------------------------------------------
(* The counters.                                                           *)

Counters == [{0} \union Members -> [total : Nat, done : Nat, depth : Int]]

LEMMA StartedCounts ==
  ASSUME NEW fs \in Counters, NEW ids
  PROVE  /\ Started(fs, ids) \in Counters
         /\ \A x \in {0} \union Members : Started(fs, ids)[x].depth = fs[x].depth + IF x \in ids THEN 1 ELSE 0
<1> DEFINE g == Started(fs, ids)
<1>1. ASSUME NEW x \in {0} \union Members
      PROVE  g[x] \in [total : Nat, done : Nat, depth : Int] /\ g[x].depth = fs[x].depth + IF x \in ids THEN 1 ELSE 0
  <2>1. fs[x] \in [total : Nat, done : Nat, depth : Int] /\ g[x] = IF x \in ids THEN BeginOf(fs[x]) ELSE fs[x]
    BY DEF Counters, Started
  <2>2. BeginOf(fs[x]) \in [total : Nat, done : Nat, depth : Int] /\ BeginOf(fs[x]).depth = fs[x].depth + 1
    BY <2>1 DEF BeginOf
  <2> HIDE DEF g
  <2> QED
    BY <2>1, <2>2
<1>2. g = [x \in {0} \union Members |-> g[x]]
  BY DEF Started, Counters
<1> HIDE DEF g
<1>3. g \in Counters
  BY <1>1, <1>2 DEF Counters
<1> QED
  BY <1>1, <1>3 DEF g

LEMMA ExpectedCounts ==
  ASSUME NEW fs \in Counters, NEW m \in {0} \union Members, NEW words \in Nat
  PROVE  /\ Expected(fs, m, words) \in Counters
         /\ \A x \in {0} \union Members : Expected(fs, m, words)[x].depth = fs[x].depth
BY DEF Expected, Counters

LEMMA MovedCounts ==
  ASSUME NEW fs \in Counters, NEW m \in {0} \union Members, NEW words \in Nat
  PROVE  /\ [fs EXCEPT ![m].done = fs[m].done + words] \in Counters
         /\ \A x \in {0} \union Members : [fs EXCEPT ![m].done = fs[m].done + words][x].depth = fs[x].depth
BY DEF Counters

LEMMA TimesIsNat ==
  ASSUME NEW open, IsSequence(open), NEW x
  PROVE  /\ Times(open, x) \in Nat /\ IsFiniteSet({k \in DOMAIN open : open[k] = x})
         /\ (Times(open, x) = 0 <=> \A k \in DOMAIN open : open[k] # x)
<1> DEFINE S == {k \in DOMAIN open : open[k] = x}
<1>1. Len(open) \in Nat /\ DOMAIN open = 1..Len(open)
  BY SequenceParts
<1>2. IsFiniteSet(1..Len(open)) /\ S \in SUBSET (1..Len(open))
  BY <1>1, FS_Interval
<1>3. IsFiniteSet(S)
  BY <1>2, FS_Subset
<1>4. Cardinality(S) \in Nat /\ (Cardinality(S) = 0 <=> S = {})
  <2> HIDE DEF S
  <2> QED
    BY <1>3, FS_CardinalityType, FS_EmptySet
<1> QED
  BY <1>3, <1>4 DEF Times

LEMMA ClosedCounts ==
  ASSUME NEW fs \in Counters, NEW open, IsSequence(open)
  PROVE  /\ Closed(fs, open) \in Counters
         /\ \A x \in {0} \union Members : Closed(fs, open)[x].depth = fs[x].depth - Times(open, x)
<1>1. \A x : Times(open, x) \in Nat
  BY TimesIsNat
<1> QED
  BY <1>1 DEF Closed, EndOf, Counters

(* What the counters of each phase count.                                  *)
LEMMA GroupOpenParts ==
  ASSUME use \in Uses
  PROVE  /\ IsSequence(GroupOpen) /\ Len(GroupOpen) = Len(use.members) + 1
         /\ DOMAIN GroupOpen = 1..Len(use.members)+1
         /\ \A k \in 1..Len(use.members)+1 : GroupOpen[k] = k - 1
<1> DEFINE n == Len(use.members) + 1
<1>1. n \in Nat
  BY MembersOK
<1>2. GroupOpen \in [1..n -> Nat]
  BY <1>1 DEF GroupOpen
<1>3. GroupOpen = [k \in 1..n |-> k - 1]
  BY DEF GroupOpen
<1> HIDE DEF n
<1>4. IsSequence(GroupOpen) /\ Len(GroupOpen) = n /\ DOMAIN GroupOpen = 1..n
  BY <1>1, <1>2, FunctionIsSequence
<1> QED
  BY <1>3, <1>4 DEF n

LEMMA TimesOpen ==
  ASSUME use \in Uses, NEW x \in {0} \union Members, NEW m \in Members
  PROVE  /\ Times(<<>>, x) = 0
         /\ Times(GroupOpen, x) = 1
         /\ Times(Append(GroupOpen, m), x) = IF x = m THEN 2 ELSE 1
         /\ Times(<<m>>, x) = IF x = m THEN 1 ELSE 0
<1> DEFINE n == Len(use.members)
<1>1. n \in Nat /\ Members = 1..n
  BY MembersOK
<1>2. /\ IsSequence(GroupOpen) /\ Len(GroupOpen) = n + 1 /\ DOMAIN GroupOpen = 1..n+1
      /\ \A k \in 1..n+1 : GroupOpen[k] = k - 1
  BY GroupOpenParts
<1>3. /\ DOMAIN Append(GroupOpen, m) = 1..(n + 1)+1
      /\ \A k \in 1..n+1 : Append(GroupOpen, m)[k] = GroupOpen[k]
      /\ Append(GroupOpen, m)[(n + 1) + 1] = m
  BY <1>2, AppendParts
<1> HIDE DEF n
<1>4. Times(<<>>, x) = 0
  <2>1. {k \in DOMAIN <<>> : <<>>[k] = x} = {}
    OBVIOUS
  <2> QED
    BY <2>1, FS_EmptySet DEF Times
<1>5. Times(GroupOpen, x) = 1
  <2>1. {k \in DOMAIN GroupOpen : GroupOpen[k] = x} = {x + 1}
    BY <1>1, <1>2
  <2> QED
    BY <2>1, FS_Singleton DEF Times
<1>6. Times(Append(GroupOpen, m), x) = IF x = m THEN 2 ELSE 1
  <2> DEFINE a == Append(GroupOpen, m)
  <2>1. {k \in DOMAIN a : a[k] = x} = IF x = m THEN {x + 1} \union {n + 2} ELSE {x + 1}
    BY <1>1, <1>2, <1>3
  <2>2. IsFiniteSet({x + 1}) /\ Cardinality({x + 1}) = 1
    BY FS_Singleton
  <2>3. x = m => n + 2 \notin {x + 1}
    BY <1>1
  <2>4. x = m => Cardinality({x + 1} \union {n + 2}) = 2
    BY <2>2, <2>3, FS_AddElement
  <2> QED
    BY <2>1, <2>2, <2>4 DEF Times
<1>7. Times(<<m>>, x) = IF x = m THEN 1 ELSE 0
  <2>1. {k \in DOMAIN <<m>> : <<m>>[k] = x} = IF x = m THEN {1} ELSE {}
    OBVIOUS
  <2> QED
    BY <2>1, FS_Singleton, FS_EmptySet DEF Times
<1> QED
  BY <1>4, <1>5, <1>6, <1>7

OpenShape(open) ==
  \/ open = <<>>
  \/ open = GroupOpen
  \/ \E m \in Members : open = Append(GroupOpen, m) \/ open = <<m>>

LEMMA ShapeParts ==
  ASSUME use \in Uses, NEW open, OpenShape(open)
  PROVE  /\ IsSequence(open) /\ DOMAIN open \subseteq 1..Len(use.members)+2
         /\ (\E k \in DOMAIN open : open[k] = 0) => \A x \in Members : \E k \in DOMAIN open : open[k] = x
<1> DEFINE n == Len(use.members)
<1>1. n \in Nat /\ Members = 1..n
  BY MembersOK
<1>2. /\ IsSequence(GroupOpen) /\ Len(GroupOpen) = n + 1 /\ DOMAIN GroupOpen = 1..n+1
      /\ \A k \in 1..n+1 : GroupOpen[k] = k - 1
  BY GroupOpenParts
<1> HIDE DEF n
<1>3. CASE open = <<>>
  <2>1. <<>> \in Seq({})
    OBVIOUS
  <2>2. IsSequence(<<>>)
    BY <2>1, SequenceOver
  <2>3. DOMAIN <<>> = {}
    OBVIOUS
  <2> QED
    BY <1>3, <2>2, <2>3
<1>4. CASE open = GroupOpen
  <2>1. \A x \in Members : x + 1 \in 1..n+1 /\ GroupOpen[x + 1] = x
    BY <1>1, <1>2
  <2>2. 1..n+1 \subseteq 1..n+2
    BY <1>1
  <2> QED
    BY <1>2, <1>4, <2>1, <2>2 DEF n
<1>5. ASSUME NEW m \in Members, open = Append(GroupOpen, m)
      PROVE  /\ IsSequence(open) /\ DOMAIN open \subseteq 1..n+2
             /\ \A x \in Members : \E k \in DOMAIN open : open[k] = x
  <2>1. /\ IsSequence(open) /\ DOMAIN open = 1..(n + 1)+1
        /\ \A k \in 1..n+1 : open[k] = GroupOpen[k]
    BY <1>2, <1>5, AppendParts
  <2>2. \A x \in Members : x + 1 \in 1..n+1 /\ x + 1 \in 1..(n + 1)+1 /\ GroupOpen[x + 1] = x
    BY <1>1, <1>2
  <2>3. 1..(n + 1)+1 \subseteq 1..n+2
    BY <1>1
  <2> QED
    BY <2>1, <2>2, <2>3
<1>6. ASSUME NEW m \in Members, open = <<m>>
      PROVE  /\ IsSequence(open) /\ DOMAIN open \subseteq 1..n+2
             /\ \A k \in DOMAIN open : open[k] # 0
  <2>1. open \in Seq(Members)
    BY <1>6
  <2>2. DOMAIN open = {1} /\ open[1] = m
    BY <1>6
  <2> QED
    BY <1>1, <2>1, <2>2, SequenceOver
<1>7. CASE \E m \in Members : open = Append(GroupOpen, m)
  BY <1>5, <1>7 DEF n
<1>8. CASE \E m \in Members : open = <<m>>
  BY <1>6, <1>8 DEF n
<1> QED
  BY <1>3, <1>4, <1>7, <1>8 DEF OpenShape

LEMMA CallShape ==
  ASSUME NEW j, CallOK(j)
  PROVE  OpenShape(j.open)
BY DEF CallOK, OpenShape, Arming, Waiting, Sizing, Transferring, ReadingOwn

LEMMA JobShape ==
  ASSUME CallsInStep, NEW t \in Tasks
  PROVE  OpenShape(job[t].open)
<1>1. CASE Busy(t)
  BY <1>1, CallShape DEF CallsInStep
<1>2. CASE ~Busy(t)
  BY <1>2 DEF CallsInStep, Idle, OpenShape
<1> QED
  BY <1>1, <1>2

LEMMA Injected ==
  ASSUME NEW S, IsFiniteSet(S), NEW T, IsFiniteSet(T), NEW f \in [S -> T],
         \A x, y \in S : f[x] = f[y] => x = y
  PROVE  Cardinality(S) <= Cardinality(T)
<1>1. Cardinality(S) \in Nat /\ Cardinality(T) \in Nat
  BY FS_CardinalityType
<1> SUFFICES ASSUME Cardinality(T) < Cardinality(S) PROVE FALSE
  BY <1>1
<1>2. \E x, y \in S : x # y /\ f[x] = f[y]
  BY FS_PigeonHole
<1> QED
  BY <1>2

(* The counters of a task and those of the others.                         *)
OpenIn(T, f, n, x) == {h \in T \X (1..n) : h[2] \in DOMAIN f[h[1]] /\ f[h[1]][h[2]] = x}

LEMMA TaskCounts ==
  ASSUME NEW T, IsFiniteSet(T), NEW n \in Nat, NEW f, NEW t \in T, NEW x,
         IsSequence(f[t]), DOMAIN f[t] \subseteq 1..n
  PROVE  /\ Cardinality(OpenIn(T \ {t}, f, n, x)) \in Nat
         /\ Cardinality(OpenIn(T, f, n, x)) = Cardinality(OpenIn(T \ {t}, f, n, x)) + Times(f[t], x)
<1> DEFINE H == {h \in T \X (1..n) : h[2] \in DOMAIN f[h[1]] /\ f[h[1]][h[2]] = x}
           O == {h \in (T \ {t}) \X (1..n) : h[2] \in DOMAIN f[h[1]] /\ f[h[1]][h[2]] = x}
           S == {k \in DOMAIN f[t] : f[t][k] = x}
           Mine == {h \in {t} \X (1..n) : h[2] \in DOMAIN f[t] /\ f[t][h[2]] = x}
<1>1. IsFiniteSet(T \X (1..n))
  <2>1. IsFiniteSet(1..n)
    BY FS_Interval, 1 \in Int, n \in Int
  <2> QED
    BY <2>1, FS_Product
<1>2. IsFiniteSet(H) /\ O \in SUBSET (T \X (1..n)) /\ Mine \in SUBSET (T \X (1..n)) /\ H = O \union Mine /\ O \cap Mine = {}
  <2>1. H \in SUBSET (T \X (1..n)) /\ O \in SUBSET (T \X (1..n)) /\ Mine \in SUBSET (T \X (1..n))
    OBVIOUS
  <2>2. IsFiniteSet(H)
    BY <1>1, <2>1, FS_Subset
  <2>3. H \subseteq O \union Mine
    <3> SUFFICES ASSUME NEW h \in H PROVE h \in O \union Mine
      OBVIOUS
    <3>1. h \in T \X (1..n) /\ h[2] \in DOMAIN f[h[1]] /\ f[h[1]][h[2]] = x
      OBVIOUS
    <3>2. CASE h[1] = t
      <4>1. h \in {t} \X (1..n)
        BY <3>1, <3>2
      <4> QED
        BY <3>1, <3>2, <4>1
    <3>3. CASE h[1] # t
      <4>1. h \in (T \ {t}) \X (1..n)
        BY <3>1, <3>3
      <4> QED
        BY <3>1, <4>1
    <3> QED
      BY <3>2, <3>3
  <2>4. O \union Mine \subseteq H
    OBVIOUS
  <2>5. O \cap Mine = {}
    OBVIOUS
  <2> HIDE DEF H, O, Mine
  <2> QED
    BY <2>1, <2>2, <2>3, <2>4, <2>5
<1>3. IsFiniteSet(O) /\ IsFiniteSet(Mine)
  <2> HIDE DEF O, Mine, H
  <2> QED
    BY <1>1, <1>2, FS_Subset
<1>4. IsFiniteSet(S)
  BY TimesIsNat
<1>5. Cardinality(S) <= Cardinality(Mine)
  <2> DEFINE g == [k \in S |-> <<t, k>>]
  <2>1. g \in [S -> Mine] /\ \A a, b \in S : g[a] = g[b] => a = b
    OBVIOUS
  <2> HIDE DEF g, S, Mine
  <2> QED
    BY <1>3, <1>4, <2>1, Injected
<1>6. Cardinality(Mine) <= Cardinality(S)
  <2> DEFINE g == [h \in Mine |-> h[2]]
  <2>1. g \in [Mine -> S] /\ \A a, b \in Mine : g[a] = g[b] => a = b
    OBVIOUS
  <2> HIDE DEF g, S, Mine
  <2> QED
    BY <1>3, <1>4, <2>1, Injected
<1>7. Cardinality(S) \in Nat /\ Cardinality(Mine) \in Nat /\ Cardinality(O) \in Nat
  <2> HIDE DEF S, Mine, O
  <2> QED
    BY <1>3, <1>4, FS_CardinalityType
<1>8. Cardinality(Mine) = Times(f[t], x)
  <2>1. Times(f[t], x) = Cardinality(S)
    BY DEF Times
  <2> HIDE DEF S, Mine
  <2> QED
    BY <1>5, <1>6, <1>7, <2>1
<1>9. Cardinality(H) = Cardinality(O) + Cardinality(Mine) - 0
  <2> HIDE DEF H, O, Mine
  <2> QED
    BY <1>2, <1>3, FS_Union, FS_EmptySet
<1> HIDE DEF H, O, Mine
<1>10. IsFiniteSet(O) /\ Cardinality(O) \in Nat /\ Cardinality(H) = Cardinality(O) + Times(f[t], x)
  BY <1>3, <1>7, <1>8, <1>9
<1> QED
  BY <1>10 DEF H, O, OpenIn

(* A step that moves each counter by what the task has opened and closed   *)
(* keeps them balanced.                                                    *)
CountsStep(t) ==
  /\ fetch' \in Counters
  /\ \A x \in {0} \union Members :
       fetch'[x].depth = (fetch[x].depth - Times(job[t].open, x)) + Times(job'[t].open, x)
OthersOpen(t) == \A u \in Tasks \ {t} : job'[u].open = job[u].open

LEMMA OpenCounts ==
  ASSUME TypeOK, CallsInStep, NEW t \in Tasks, NEW x
  PROVE  Times(job[t].open, x) \in Nat
BY JobShape, ShapeParts, TimesIsNat DEF TypeOK

LEMMA BalancedNext ==
  ASSUME TypeOK, CallsInStep, FetchBalanced, use' = use, NEW t \in Tasks,
         OpenShape(job'[t].open), OthersOpen(t), CountsStep(t)
  PROVE  FetchNext /\ FetchBalanced'
<1> DEFINE n == Len(use.members) + 2
           f == [u \in Tasks |-> job[u].open]
           g == [u \in Tasks |-> job'[u].open]
           O(h, x) == OpenIn(Tasks \ {t}, h, n, x)
<1>1. use \in Uses /\ n \in Nat /\ IsFiniteSet(Tasks)
  BY MembersOK, GroupAssumption DEF TypeOK
<1>2. IsSequence(f[t]) /\ DOMAIN f[t] \subseteq 1..n /\ f[t] = job[t].open
  BY <1>1, JobShape, ShapeParts
<1>3. IsSequence(g[t]) /\ DOMAIN g[t] \subseteq 1..n /\ g[t] = job'[t].open
  BY <1>1, ShapeParts
<1>4. \A x : Open(x) = OpenIn(Tasks, f, n, x)
  BY DEF Open, OpenIn
<1>5. \A x : Open(x)' = OpenIn(Tasks, g, n, x)
  BY DEF Open, OpenIn
<1>6. \A x : O(f, x) = O(g, x)
  <2>1. \A u \in Tasks \ {t} : f[u] = g[u]
    BY DEF OthersOpen
  <2> HIDE DEF f, g, n
  <2> QED
    BY <2>1 DEF OpenIn
<1> HIDE DEF f, g, n
<1>7. \A x : Cardinality(OpenIn(Tasks, f, n, x)) = Cardinality(O(f, x)) + Times(f[t], x) /\ Cardinality(O(f, x)) \in Nat
  BY <1>1, <1>2, TaskCounts
<1>8. \A x : Cardinality(OpenIn(Tasks, g, n, x)) = Cardinality(O(g, x)) + Times(g[t], x)
  <2>1. PICK h : h = g
    OBVIOUS
  <2>2. IsSequence(h[t]) /\ DOMAIN h[t] \subseteq 1..n
    BY <1>3, <2>1
  <2>3. \A x : Cardinality(OpenIn(Tasks, h, n, x)) = Cardinality(OpenIn(Tasks \ {t}, h, n, x)) + Times(h[t], x)
    BY <1>1, <2>2, TaskCounts
  <2> QED
    BY <2>1, <2>3
<1>9. \A x : Times(f[t], x) \in Nat /\ Times(g[t], x) \in Nat
  BY <1>2, <1>3, TimesIsNat
<1>10. DOMAIN fetch = {0} \union Members /\ DOMAIN fetch' = {0} \union Members
  BY DEF TypeOK, CountsStep, Counters
<1> HIDE DEF O
<1>11. ASSUME NEW x \in {0} \union Members
       PROVE  fetch'[x].depth = Cardinality(Open(x)') /\ fetch'[x].depth \in Nat
  <2>1. fetch[x].depth = Cardinality(O(f, x)) + Times(f[t], x)
    BY <1>4, <1>7, <1>10 DEF FetchBalanced
  <2>2. fetch'[x].depth = (fetch[x].depth - Times(f[t], x)) + Times(g[t], x)
    BY <1>2, <1>3 DEF CountsStep
  <2>3. Cardinality(Open(x)') = Cardinality(O(f, x)) + Times(g[t], x)
    BY <1>5, <1>6, <1>8
  <2> QED
    BY <1>7, <1>9, <2>1, <2>2, <2>3
<1>12. FetchBalanced'
  BY <1>10, <1>11 DEF FetchBalanced
<1>13. FetchNext
  <2>1. \A x \in {0} \union Members : fetch'[x] \in [total : Nat, done : Nat, depth : Nat]
    BY <1>11 DEF CountsStep, Counters
  <2> QED
    BY <1>10, <2>1 DEF FetchNext, CountsStep, Counters
<1> QED
  BY <1>12, <1>13
-----------------------------------------------------------------------------
(* The calls, a step on.                                                   *)

WaitingNext(j) ==
  \/ j.open = <<>> /\ Only(j, {"status"}) /\ j.call.op = "capture" /\ Remembered'
  \/ j.open = <<>> /\ Only(j, {"abort"}) /\ (j.call.op = "capture" => Remembered')
  \/ j.open = <<>> /\ Only(j, {"poll"})
NextOK(j) ==
  /\ DOMAIN j = DOMAIN Call(j.call)
  /\ IsSequence(j.todo) /\ j.todo # <<>> /\ \A k \in DOMAIN j.todo : StepOK(j.todo[k])
  /\ \/ Arming(j)
     \/ WaitingNext(j)
     \/ Sizing(j)
     \/ \E m \in Members : Transferring(j, m) \/ ReadingOwn(j, m)

Keeps(k, j) ==
  /\ DOMAIN k = DOMAIN j
  /\ k.call = j.call /\ k.todo = j.todo /\ k.open = j.open /\ k.plan = j.plan /\ k.window = j.window
  /\ k.words = j.words /\ k.during = j.during

LEMMA SameCall ==
  ASSUME NEW j, CallOK(j), j.todo # <<>>, NEW k, Keeps(k, j), Remembered => Remembered'
  PROVE  NextOK(k)
<1>1. DOMAIN k = DOMAIN Call(k.call) /\ IsSequence(k.todo) /\ k.todo # <<>> /\ \A l \in DOMAIN k.todo : StepOK(k.todo[l])
  BY DEF Keeps, CallOK
<1>2. Arming(j) => Arming(k)
  BY DEF Keeps, Arming, Only
<1>3. Waiting(j) => WaitingNext(k)
  BY DEF Keeps, Waiting, WaitingNext, Only
<1>4. Sizing(j) => Sizing(k)
  BY DEF Keeps, Sizing, Only, First
<1>5. \A m : (Transferring(j, m) => Transferring(k, m)) /\ (ReadingOwn(j, m) => ReadingOwn(k, m))
  BY DEF Keeps, Transferring, ReadingOwn, Only, First
<1>6. Arming(j) \/ Waiting(j) \/ Sizing(j) \/ \E m \in Members : Transferring(j, m) \/ ReadingOwn(j, m)
  BY Zenon DEF CallOK
<1> QED
  BY <1>1, <1>2, <1>3, <1>4, <1>5, <1>6, Zenon DEF NextOK

LEMMA NextHolds ==
  ASSUME use' = use, NEW t, NextOK(job'[t])
  PROVE  Busy(t)' /\ CallOK(job[t])'
<1> DEFINE j == job'[t]
<1>1. Members' = Members /\ GroupOpen' = GroupOpen
  BY DEF Members, GroupOpen
<1>2. \A i : M(i)' = M(i)
  BY DEF M
<1>3. \A i, run : RunOK(i, run)' <=> RunOK(i, run)
  BY <1>2 DEF RunOK
<1>4. \A plan : AllReadable(plan)' <=> AllReadable(plan)
  BY <1>1, <1>2 DEF AllReadable
<1>5. \A w, o : ArmedBy(w, o)' <=> ArmedBy(w, o)
  BY DEF ArmedBy
<1>6. DOMAIN j = DOMAIN Call(j.call) /\ IsSequence(j.todo) /\ j.todo # <<>> /\ \A k \in DOMAIN j.todo : StepOK(j.todo[k])
  BY DEF NextOK
<1>7. (\A k \in DOMAIN job[t].todo : StepOK(job[t].todo[k]))'
  BY <1>1, <1>3, <1>6 DEF StepOK
<1>8. DOMAIN Call(j.call) = DOMAIN Call(job[t].call)'
  BY DEF Call
<1>9. (DOMAIN job[t] = DOMAIN Call(job[t].call) /\ IsSequence(job[t].todo) /\ job[t].todo # <<>>)'
  BY <1>6, <1>8
<1>10. Arming(j) => Arming(job[t])'
  BY <1>4, <1>5 DEF Arming, Only
<1>11. WaitingNext(j) => Waiting(job[t])'
  BY DEF WaitingNext, Waiting, Only
<1>12. Sizing(j) => Sizing(job[t])'
  BY <1>1, <1>4 DEF Sizing, Only, First
<1>13. \A m : (Transferring(j, m) => Transferring(job[t], m)') /\ (m \in Members /\ ReadingOwn(j, m) => ReadingOwn(job[t], m)')
  BY <1>1, <1>2, <1>4 DEF Transferring, ReadingOwn, Only, First
<1>14. Arming(j) \/ WaitingNext(j) \/ Sizing(j) \/ \E m \in Members : Transferring(j, m) \/ ReadingOwn(j, m)
  BY Zenon DEF NextOK
<1> HIDE DEF j
<1>15. (\/ Arming(job[t])
        \/ Waiting(job[t])
        \/ Sizing(job[t])
        \/ \E m \in Members : Transferring(job[t], m) \/ ReadingOwn(job[t], m))'
  BY <1>1, <1>10, <1>11, <1>12, <1>13, <1>14, Zenon
<1>16. CallOK(job[t])'
  BY <1>7, <1>9, <1>15, Zenon DEF CallOK
<1> QED
  BY <1>9, <1>16 DEF Busy

LEMMA CallsNext ==
  ASSUME CallsInStep, use' = use, NEW t \in Tasks, NEW c, NEW j, job' = [Jobs(t, c) EXCEPT ![t] = j],
         j = Idle \/ NextOK(j), Remembered => Remembered', armed' # None => Remembered'
  PROVE  /\ CallsInStep' /\ OthersOpen(t) /\ DOMAIN job' = Tasks /\ job'[t] = j
         /\ \A u \in Tasks \ {t} : Busy(u)' => Busy(u) /\ Keeps(job'[u], job[u])
<1>1. DOMAIN job' = Tasks /\ job'[t] = j
  BY DEF Jobs
<1>2. ASSUME NEW u \in Tasks \ {t}
      PROVE  /\ (IF Busy(u) THEN CallOK(job[u]) ELSE job[u] = Idle)'
             /\ job'[u].open = job[u].open
             /\ Busy(u)' => Busy(u) /\ Keeps(job'[u], job[u])
  <2>1. job'[u] = IF Busy(t) \/ Quiet(c) \/ ~Busy(u) THEN job[u] ELSE [job[u] EXCEPT !.alone = FALSE]
    BY DEF Jobs
  <2>2. CASE Busy(u)
    <3>1. CallOK(job[u]) /\ job[u].todo # <<>>
      BY <2>2 DEF CallsInStep, Busy
    <3>2. DOMAIN job[u] = {"call", "todo", "open", "plan", "window", "got", "words", "tries", "alone", "whole",
                           "rest", "fresh", "during"}
      BY <3>1, DOMAIN job[u] = DOMAIN Call(job[u].call) DEF CallOK, Call
    <3>3. Keeps(job'[u], job[u])
      BY <2>1, <3>2 DEF Keeps
    <3>4. NextOK(job'[u])
      BY <3>1, <3>3, SameCall
    <3>5. Busy(u)' /\ CallOK(job[u])'
      BY <3>4, NextHolds
    <3>6. job'[u].open = job[u].open
      BY <3>3 DEF Keeps
    <3> QED
      BY <2>2, <3>3, <3>5, <3>6
  <2>3. CASE ~Busy(u)
    <3>1. job[u] = Idle /\ job'[u] = job[u]
      BY <2>1, <2>3 DEF CallsInStep
    <3>2. ~Busy(u)' /\ (job[u] = Idle)'
      BY <3>1 DEF Busy, Idle
    <3> QED
      BY <3>1, <3>2
  <2> QED
    BY <2>2, <2>3
<1>3. (IF Busy(t) THEN CallOK(job[t]) ELSE job[t] = Idle)'
  <2>1. CASE j = Idle
    BY <1>1, <2>1 DEF Busy, Idle
  <2>2. CASE NextOK(j)
    <3>1. NextOK(job'[t])
      BY <1>1, <2>2
    <3>2. Busy(t)' /\ CallOK(job[t])'
      BY <3>1, NextHolds
    <3> QED
      BY <3>2
  <2> QED
    BY <2>1, <2>2
<1>4. \A u \in Tasks : (IF Busy(u) THEN CallOK(job[u]) ELSE job[u] = Idle)'
  BY <1>2, <1>3
<1>5. CallsInStep'
  BY <1>1, <1>4, Zenon DEF CallsInStep
<1>6. OthersOpen(t)
  BY <1>2 DEF OthersOpen
<1> QED
  BY <1>1, <1>2, <1>5, <1>6

LEMMA NextShape ==
  ASSUME NEW j, NextOK(j)
  PROVE  OpenShape(j.open)
BY DEF NextOK, OpenShape, Arming, WaitingNext, Sizing, Transferring, ReadingOwn

(* What every step of a call keeps, and what it has to show for that.      *)
TasksNext == CallsInStep' /\ FetchNext /\ FetchBalanced' /\ PollStaysOffTheLink'
StaysOff(j) == j.call.op = "poll" => ~j.during
Counted(open, fs) ==
  /\ fs \in Counters
  /\ \A x \in {0} \union Members : fs[x].depth = (fetch[x].depth - Times(open[1], x)) + Times(open[2], x)

LEMMA TaskGoes ==
  ASSUME TasksOK, use' = use, NEW t \in Tasks, NEW c, NEW j, job' = [Jobs(t, c) EXCEPT ![t] = j],
         j = Idle \/ (NextOK(j) /\ StaysOff(j)), Remembered => Remembered', armed' # None => Remembered',
         Counted(<<job[t].open, j.open>>, fetch')
  PROVE  TasksNext
<1>1. /\ CallsInStep' /\ OthersOpen(t) /\ DOMAIN job' = Tasks /\ job'[t] = j
      /\ \A u \in Tasks \ {t} : Busy(u)' => Busy(u) /\ Keeps(job'[u], job[u])
  BY CallsNext DEF TasksOK
<1>2. OpenShape(job'[t].open)
  BY <1>1, NextShape DEF Idle, OpenShape
<1>3. CountsStep(t)
  BY <1>1 DEF Counted, CountsStep
<1>4. FetchNext /\ FetchBalanced'
  BY <1>1, <1>2, <1>3, BalancedNext DEF TasksOK
<1>5. PollStaysOffTheLink'
  <2> SUFFICES ASSUME NEW u \in Tasks, Busy(u)' PROVE StaysOff(job'[u])
    BY DEF PollStaysOffTheLink, StaysOff
  <2>1. CASE u = t
    <3>1. j.todo # <<>>
      BY <1>1, <2>1 DEF Busy
    <3>2. j # Idle
      BY <3>1 DEF Idle
    <3> QED
      BY <1>1, <2>1, <3>2
  <2>2. CASE u # t
    <3>1. Busy(u) /\ Keeps(job'[u], job[u])
      BY <1>1, <2>2
    <3>2. StaysOff(job[u])
      BY <3>1 DEF TasksOK, PollStaysOffTheLink, StaysOff
    <3> QED
      BY <3>1, <3>2 DEF Keeps, StaysOff
  <2> QED
    BY <2>1, <2>2
<1> QED
  BY <1>1, <1>4, <1>5 DEF TasksNext

(* The counters through the parts of a step: open is what the call has     *)
(* open before the step and at this point of it.                           *)
Ids == {0} \union Members

LEMMA CountedSame ==
  ASSUME TasksOK, NEW t \in Tasks
  PROVE  Counted(<<job[t].open, job[t].open>>, fetch) /\ DOMAIN fetch = Ids
<1>1. fetch \in Counters
  BY DEF TasksOK, TypeOK, Counters
<1>2. \A x : Times(job[t].open, x) \in Nat
  BY OpenCounts DEF TasksOK
<1> QED
  BY <1>1, <1>2 DEF Counted, Counters, Ids

LEMMA CountedStarts ==
  ASSUME NEW o, NEW p, NEW q, NEW fs, Counted(<<o, p>>, fs), NEW ids,
         \A x \in Ids : /\ Times(o, x) \in Nat /\ Times(p, x) \in Nat
                        /\ Times(q, x) = Times(p, x) + IF x \in ids THEN 1 ELSE 0,
         fetch \in Counters
  PROVE  Counted(<<o, q>>, Started(fs, ids))
<1>1. /\ Started(fs, ids) \in Counters
      /\ \A x \in Ids : Started(fs, ids)[x].depth = fs[x].depth + IF x \in ids THEN 1 ELSE 0
  <2>1. fs \in Counters
    BY DEF Counted
  <2>2. Started(fs, ids) \in Counters
    BY <2>1, StartedCounts
  <2>3. \A x \in {0} \union Members : Started(fs, ids)[x].depth = fs[x].depth + IF x \in ids THEN 1 ELSE 0
    BY <2>1, StartedCounts
  <2> QED
    BY <2>2, <2>3 DEF Ids
<1>2. \A x \in Ids : fs[x].depth = (fetch[x].depth - Times(o, x)) + Times(p, x) /\ fetch[x].depth \in Int
  BY DEF Counted, Ids, Counters
<1>3. \A x \in Ids : Started(fs, ids)[x].depth = (fetch[x].depth - Times(o, x)) + Times(q, x)
  BY <1>1, <1>2
<1> QED
  BY <1>1, <1>3 DEF Counted, Ids

LEMMA CountedExpects ==
  ASSUME NEW o, NEW p, NEW fs, Counted(<<o, p>>, fs), NEW m \in Ids, NEW words \in Nat
  PROVE  /\ Counted(<<o, p>>, Expected(fs, m, words))
         /\ Counted(<<o, p>>, [fs EXCEPT ![m].done = fs[m].done + words])
<1>1. fs \in Counters
  BY DEF Counted
<1>2. /\ Expected(fs, m, words) \in Counters
      /\ \A x \in Ids : Expected(fs, m, words)[x].depth = fs[x].depth
  BY <1>1, ExpectedCounts DEF Ids
<1> DEFINE g == [fs EXCEPT ![m].done = fs[m].done + words]
<1>3. g \in Counters /\ \A x \in Ids : g[x].depth = fs[x].depth
  BY <1>1, MovedCounts DEF Ids
<1> HIDE DEF g
<1>4. Counted(<<o, p>>, g)
  BY <1>3 DEF Counted, Ids
<1> QED
  BY <1>2, <1>4 DEF Counted, Ids, g

LEMMA CountedCloses ==
  ASSUME NEW o, NEW p, NEW q, NEW fs, Counted(<<o, p>>, fs), NEW open, IsSequence(open),
         \A x \in Ids : /\ Times(o, x) \in Nat /\ Times(p, x) \in Nat
                        /\ Times(q, x) = Times(p, x) - Times(open, x),
         fetch \in Counters
  PROVE  Counted(<<o, q>>, Closed(fs, open))
<1>1. /\ Closed(fs, open) \in Counters
      /\ \A x \in Ids : Closed(fs, open)[x].depth = fs[x].depth - Times(open, x)
  BY ClosedCounts DEF Counted, Ids
<1>2. \A x \in Ids : fs[x].depth = (fetch[x].depth - Times(o, x)) + Times(p, x) /\ fetch[x].depth \in Int
  BY DEF Counted, Ids, Counters
<1>3. \A x : Times(open, x) \in Nat
  BY TimesIsNat
<1>4. \A x \in Ids : Closed(fs, open)[x].depth = (fetch[x].depth - Times(o, x)) + Times(q, x)
  BY <1>1, <1>2, <1>3
<1> QED
  BY <1>1, <1>4 DEF Counted, Ids

LEMMA TimesNone == \A x : Times(<<>>, x) = 0
<1> SUFFICES ASSUME NEW x PROVE Times(<<>>, x) = 0
  OBVIOUS
<1>1. {k \in DOMAIN <<>> : <<>>[k] = x} = {}
  OBVIOUS
<1> QED
  BY <1>1, FS_EmptySet DEF Times

(* A call ends, or raises: all it has open closes.                         *)
LEMMA CountedEnds ==
  ASSUME TasksOK, NEW t \in Tasks
  PROVE  Counted(<<job[t].open, <<>>>>, Closed(fetch, job[t].open))
<1>1. \A x : Times(job[t].open, x) \in Nat
  BY OpenCounts DEF TasksOK
<1>2. IsSequence(job[t].open)
  BY JobShape, ShapeParts DEF TasksOK, TypeOK
<1>3. \A x \in Ids : Times(<<>>, x) = Times(job[t].open, x) - Times(job[t].open, x)
  BY <1>1, TimesNone
<1>4. fetch \in Counters
  BY CountedSame DEF Counted
<1> QED
  BY <1>1, <1>2, <1>3, <1>4, CountedSame, CountedCloses

LEMMA RememberedKept ==
  ASSUME CallsInStep, use' = use, armed' = armed
  PROVE  (Remembered => Remembered') /\ (armed' # None => Remembered')
<1>1. Members' = Members /\ \A i : M(i)' = M(i)
  BY DEF Members, M
<1>2. Remembered => Remembered'
  BY <1>1 DEF Remembered, ArmedBy, AllReadable
<1> QED
  BY <1>2 DEF CallsInStep

LEMMA FailNext ==
  ASSUME TasksOK, NEW t \in Tasks, Fail(t)
  PROVE  TasksNext
<1>1. /\ use' = use /\ armed' = armed /\ fetch' = Closed(fetch, job[t].open)
      /\ job' = [Jobs(t, job[t].call) EXCEPT ![t] = Idle]
  BY DEF Fail, Ends
<1>2. Counted(<<job[t].open, Idle.open>>, fetch')
  BY <1>1, CountedEnds DEF Idle
<1>3. (Remembered => Remembered') /\ (armed' # None => Remembered')
  BY <1>1, RememberedKept DEF TasksOK
<1> QED
  BY <1>1, <1>2, <1>3, TaskGoes
-----------------------------------------------------------------------------
(* An arm, or a capture, begins.                                           *)

ArmWindow(c) == Merged(DefaultWindow, c.fields)
ArmPlan(c) == Plan(ArmWindow(c), use.members, c.overrides)
Planned(c) == c \in Arms(use) /\ ~PlanRefused(ArmWindow(c), use.members, c.overrides)

LEMMA PlanParts ==
  ASSUME use \in Uses, NEW c, Planned(c)
  PROVE  /\ ArmWindow(c).windows \in Nat \ {0}
         /\ \A i \in Members : Valid(ArmPlan(c), i) => RunOK(i, ArmPlan(c)[i]) /\ Readable(M(i), ArmPlan(c)[i])
         /\ (\A i \in Members : Valid(ArmPlan(c), i)) => ArmedBy(ArmWindow(c), c.overrides)
<1> DEFINE w == ArmWindow(c)
           plan == ArmPlan(c)
<1>1. UseOK(use)
  BY GroupAssumption
<1>2. c \in Arms(use) /\ ~PlanRefused(w, use.members, c.overrides)
  BY DEF Planned
<1>3. w.windows \in Int /\ \A i \in Members : ~M(i).rle => plan[i].count \in Int
  BY <1>1, <1>2 DEF UseOK, ArmWindow, ArmPlan, Members, M
<1>4. w.windows >= 1
  BY <1>2 DEF PlanRefused, LegalWindow
<1>5. ASSUME NEW i \in Members, Valid(plan, i)
      PROVE  RunOK(i, plan[i]) /\ Readable(M(i), plan[i])
  <2>1. MemberOK(M(i)) /\ ValidCapture(M(i), plan[i])
    BY <1>5, MembersOK DEF Valid
  <2>2. CASE M(i).rle
    <3>1. plan[i].pre_lines \in 0..M(i).depth-1
      BY <2>1, <2>2 DEF ValidCapture
    <3> QED
      BY <2>2, <3>1 DEF RunOK, Readable
  <2>3. CASE ~M(i).rle
    <3>1. plan[i].count \in Int /\ plan[i].count >= 1 /\ plan[i].windows \in 1..M(i).max_windows
          /\ M(i).max_windows \in Nat
      BY <1>3, <2>1, <2>3 DEF ValidCapture, MemberOK
    <3>2. i \in OneWindow[use] => plan[i].windows = 1
      BY <1>2, <2>1, <2>3 DEF OneWindow, Members, M, ArmWindow, ArmPlan
    <3> HIDE DEF plan
    <3> QED
      BY <2>3, <3>1, <3>2 DEF RunOK, Readable
  <2> QED
    BY <2>2, <2>3
<1>6. ASSUME \A i \in Members : Valid(plan, i)
      PROVE  ArmedBy(w, c.overrides)
  <2>1. c \in Taken[use]
    BY <1>2, <1>6 DEF Taken, Valid, Members, M, ArmWindow, ArmPlan
  <2> QED
    BY <2>1 DEF ArmedBy, ArmWindow
<1> QED
  BY <1>3, <1>4, <1>5, <1>6

ConfigureSteps(plan, n) ==
  [k \in 1..2 * n |->
     IF k % 2 = 0 THEN [op |-> "arm", m |-> k \div 2]
     ELSE [op |-> "configure", m |-> (k + 1) \div 2, params |-> plan[(k + 1) \div 2]]]

LEMMA ConfigureParts ==
  ASSUME use \in Uses, NEW plan, NEW n \in Nat, n <= Len(use.members),
         \A i \in Members : i <= n => RunOK(i, plan[i])
  PROVE  /\ IsSequence(ConfigureSteps(plan, n)) /\ Len(ConfigureSteps(plan, n)) = 2 * n
         /\ DOMAIN ConfigureSteps(plan, n) = 1..2*n
         /\ \A k \in 1..2*n : /\ StepOK(ConfigureSteps(plan, n)[k])
                              /\ ConfigureSteps(plan, n)[k].op \in {"configure", "arm"}
         /\ n > 0 => ConfigureSteps(plan, n)[2 * n].op = "arm"
<1> DEFINE s == ConfigureSteps(plan, n)
<1>1. 2 * n \in Nat /\ Len(use.members) \in Nat /\ Members = 1..Len(use.members)
  BY MembersOK
<1>2. ASSUME NEW k \in 1..2*n PROVE StepOK(s[k]) /\ s[k].op \in {"configure", "arm"}
  <2>1. CASE k % 2 = 0
    <3>1. s[k] = [op |-> "arm", m |-> k \div 2]
      BY <2>1 DEF ConfigureSteps
    <3>2. k \div 2 \in 1..n
      BY <2>1
    <3>3. k \div 2 \in Members
      BY <1>1, <3>2
    <3> HIDE DEF s
    <3>4. s[k].op = "arm" /\ s[k].m \in Members
      BY <3>1, <3>3
    <3> QED
      BY <3>4 DEF StepOK
  <2>2. CASE k % 2 # 0
    <3> DEFINE i == (k + 1) \div 2
    <3>1. s[k] = [op |-> "configure", m |-> i, params |-> plan[i]]
      BY <2>2 DEF ConfigureSteps
    <3>2. i \in 1..n
      BY <2>2
    <3>3. i \in Members /\ i <= n
      BY <1>1, <3>2
    <3> HIDE DEF s, i
    <3>4. s[k].op = "configure" /\ s[k].m = i /\ s[k].params = plan[i]
      BY <3>1
    <3> QED
      BY <3>3, <3>4 DEF StepOK
  <2> QED
    BY <2>1, <2>2
<1>3. s = [k \in 1..2*n |-> s[k]]
  BY DEF ConfigureSteps
<1> HIDE DEF s
<1>4. s \in [1..2*n -> {s[k] : k \in 1..2*n}]
  BY <1>3
<1>5. IsSequence(s) /\ Len(s) = 2 * n /\ DOMAIN s = 1..2*n
  BY <1>1, <1>4, FunctionIsSequence
<1>6. n > 0 => s[2 * n].op = "arm"
  <2> SUFFICES ASSUME n > 0 PROVE s[2 * n].op = "arm"
    OBVIOUS
  <2>1. 2 * n \in 1..2*n /\ (2 * n) % 2 = 0
    BY <1>1
  <2> QED
    BY <2>1 DEF s, ConfigureSteps
<1> QED
  BY <1>2, <1>5, <1>6 DEF s

LEMMA ArmStepsParts ==
  ASSUME use \in Uses, NEW c, Planned(c)
  PROVE  /\ IsSequence(ArmSteps(ArmPlan(c))) /\ ArmSteps(ArmPlan(c)) # <<>>
         /\ \A k \in DOMAIN ArmSteps(ArmPlan(c)) :
              /\ StepOK(ArmSteps(ArmPlan(c))[k])
              /\ ArmSteps(ArmPlan(c))[k].op \in {"configure", "arm", "raise"}
         /\ ArmSteps(ArmPlan(c))[Len(ArmSteps(ArmPlan(c)))].op # "configure"
         /\ ArmSteps(ArmPlan(c))[Len(ArmSteps(ArmPlan(c)))].op # "raise" =>
              AllReadable(ArmPlan(c)) /\ ArmedBy(ArmWindow(c), c.overrides)
<1> DEFINE plan == ArmPlan(c)
           n == Len(use.members)
           wrong == {i \in Members : ~Valid(plan, i)}
<1>1. n \in Nat /\ n > 0 /\ Members = 1..n
  BY MembersOK
<1>2. /\ \A i \in Members : Valid(plan, i) => RunOK(i, plan[i]) /\ Readable(M(i), plan[i])
      /\ (\A i \in Members : Valid(plan, i)) => ArmedBy(ArmWindow(c), c.overrides)
  BY PlanParts
<1>3. ArmSteps(plan) = IF wrong = {} THEN ConfigureSteps(plan, n)
                       ELSE Append(ConfigureSteps(plan, Smallest(wrong) - 1), [op |-> "raise"])
  BY DEF ArmSteps, ConfigureSteps
<1> HIDE DEF plan
<1>4. CASE wrong = {}
  <2>1. \A i \in Members : Valid(plan, i)
    BY <1>4
  <2> DEFINE s == ConfigureSteps(plan, n)
  <2>2. /\ IsSequence(s) /\ Len(s) = 2 * n /\ DOMAIN s = 1..2*n
        /\ \A k \in 1..2*n : StepOK(s[k]) /\ s[k].op \in {"configure", "arm"}
        /\ s[Len(s)].op = "arm"
    <3>1. \A i \in Members : i <= n => RunOK(i, plan[i])
      BY <1>2, <2>1
    <3>2. n \in Nat /\ n <= Len(use.members) /\ n > 0
      BY <1>1
    <3> HIDE DEF n, s
    <3> QED
      BY <3>1, <3>2, ConfigureParts DEF s
  <2>3. AllReadable(plan) /\ ArmedBy(ArmWindow(c), c.overrides)
    BY <1>2, <2>1 DEF AllReadable
  <2>4. ArmSteps(plan) = s
    BY <1>3, <1>4
  <2> HIDE DEF s
  <2>5. s # <<>>
    BY <1>1, <2>2
  <2> HIDE DEF n
  <2> QED
    BY <2>2, <2>3, <2>4, <2>5 DEF plan
<1>5. CASE wrong # {}
  <2> DEFINE a == Smallest(wrong)
             s == ConfigureSteps(plan, a - 1)
             r == Append(s, [op |-> "raise"])
  <2>1. a \in Members /\ \A i \in wrong : a <= i
    <3>1. wrong \in SUBSET Nat
      BY <1>1
    <3> HIDE DEF wrong
    <3>2. a \in wrong /\ \A i \in wrong : a <= i
      BY <1>5, <3>1, SmallestIsLeast
    <3> QED
      BY <3>2 DEF wrong
  <2>2. ArmSteps(plan) = r
    BY <1>3, <1>5
  <2> HIDE DEF a
  <2>3. /\ IsSequence(s) /\ Len(s) = 2 * (a - 1) /\ DOMAIN s = 1..2*(a - 1)
        /\ \A k \in 1..2*(a - 1) : StepOK(s[k]) /\ s[k].op \in {"configure", "arm"}
    <3>1. \A i \in Members : i <= a - 1 => RunOK(i, plan[i])
      <4> SUFFICES ASSUME NEW i \in Members, i <= a - 1 PROVE RunOK(i, plan[i])
        OBVIOUS
      <4>1. i \notin wrong
        <5> HIDE DEF wrong
        <5> QED
          BY <1>1, <2>1
      <4> QED
        BY <1>2, <4>1
    <3>2. a - 1 \in Nat /\ a - 1 <= Len(use.members)
      BY <1>1, <2>1
    <3> HIDE DEF s
    <3> QED
      BY <3>1, <3>2, ConfigureParts DEF s
  <2> HIDE DEF s
  <2>4. /\ IsSequence(r) /\ Len(r) = Len(s) + 1 /\ DOMAIN r = 1..Len(s)+1
        /\ \A k \in 1..Len(s) : r[k] = s[k]
        /\ r[Len(s) + 1] = [op |-> "raise"] /\ r # <<>> /\ Len(s) \in Nat
    BY <2>3, AppendParts
  <2> HIDE DEF r
  <2>5. r[Len(r)].op = "raise"
    BY <2>4
  <2>6. ASSUME NEW k \in DOMAIN r PROVE StepOK(r[k]) /\ r[k].op \in {"configure", "arm", "raise"}
    <3>1. CASE k \in 1..Len(s)
      BY <2>3, <2>4, <3>1
    <3>2. CASE k = Len(s) + 1
      <4>1. r[k].op = "raise"
        BY <2>4, <3>2
      <4> QED
        BY <4>1 DEF StepOK
    <3> QED
      BY <2>4, <3>1, <3>2
  <2> QED
    BY <2>2, <2>4, <2>5, <2>6 DEF plan
<1> QED
  BY <1>4, <1>5

LEMMA BeginParts ==
  ASSUME TasksOK, NEW t \in Tasks, NEW c \in use.calls[t], Begin(t, c)
  PROVE  /\ job[t].open = <<>> /\ Counted(<<<<>>, <<>>>>, fetch) /\ use' = use /\ armed' = armed
         /\ (Remembered => Remembered') /\ (armed' # None => Remembered')
         /\ \E alone : LET j == [Call(c) EXCEPT !.alone = alone]
                       IN \/ BeginArm(t, c, j)
                          \/ BeginAbort(t, c, j)
                          \/ BeginPoll(t, c, j)
                          \/ BeginRead(t, c, j)
                          \/ BeginOwnRead(t, c, j)
<1>1. ~Busy(t) /\ use' = use /\ armed' = armed
  BY DEF Begin
<1>2. job[t].open = <<>>
  BY <1>1 DEF TasksOK, CallsInStep, Idle
<1>3. Counted(<<<<>>, <<>>>>, fetch)
  BY <1>2, CountedSame
<1>4. (Remembered => Remembered') /\ (armed' # None => Remembered')
  BY <1>1, RememberedKept DEF TasksOK
<1> QED
  BY <1>1, <1>2, <1>3, <1>4 DEF Begin

CallFields == {"call", "todo", "open", "plan", "window", "got", "words", "tries", "alone", "whole",
               "rest", "fresh", "during"}
LEMMA CallIs ==
  ASSUME NEW c, NEW alone
  PROVE  /\ DOMAIN Call(c) = CallFields /\ DOMAIN [Call(c) EXCEPT !.alone = alone] = CallFields
         /\ [Call(c) EXCEPT !.alone = alone].call = c /\ [Call(c) EXCEPT !.alone = alone].open = <<>>
         /\ [Call(c) EXCEPT !.alone = alone].words = 0 /\ [Call(c) EXCEPT !.alone = alone].got = <<>>
BY DEF Call, CallFields

(* A call that ends without anything of its own open.                      *)
LEMMA EndsIdle ==
  ASSUME TasksOK, NEW t \in Tasks, use' = use, Remembered => Remembered', armed' # None => Remembered',
         fetch' = fetch, job[t].open = <<>>, NEW j, NEW end, NEW value, Ends(t, j, end, value)
  PROVE  TasksNext
<1>1. job' = [Jobs(t, j.call) EXCEPT ![t] = Idle]
  BY DEF Ends
<1>2. Counted(<<job[t].open, Idle.open>>, fetch')
  BY CountedSame DEF Idle
<1> QED
  BY <1>1, <1>2, TaskGoes

LEMMA BeginArmNext ==
  ASSUME TasksOK, NEW t \in Tasks, NEW c \in use.calls[t], job[t].open = <<>>, use' = use, armed' = armed,
         Remembered => Remembered', armed' # None => Remembered',
         NEW alone, BeginArm(t, c, [Call(c) EXCEPT !.alone = alone])
  PROVE  TasksNext
<1> DEFINE j == [Call(c) EXCEPT !.alone = alone]
           k == [j EXCEPT !.todo = ArmSteps(ArmPlan(c)), !.plan = ArmPlan(c), !.window = ArmWindow(c),
                          !.tries = use.tries]
<1>1. c \in Arms(use) /\ WindowOf(c) = ArmWindow(c) /\ fetch' = fetch
  BY DEF BeginArm, Arms, Calls, WindowOf, ArmWindow
<1>2. use \in Uses
  BY DEF TasksOK, TypeOK
<1>3. IF PlanRefused(ArmWindow(c), use.members, c.overrides) THEN Ends(t, j, "refused", None)
      ELSE IF ArmSteps(ArmPlan(c))[1].op = "raise" THEN Ends(t, j, "raised", ArmPlan(c))
      ELSE Goes(t, k)
  BY <1>1 DEF BeginArm, ArmPlan
<1>4. ASSUME ~PlanRefused(ArmWindow(c), use.members, c.overrides), Goes(t, k) PROVE TasksNext
  <2> DEFINE steps == ArmSteps(ArmPlan(c))
  <2>1. Planned(c)
    BY <1>1, <1>4 DEF Planned
  <2>2. /\ IsSequence(steps) /\ steps # <<>>
        /\ \A l \in DOMAIN steps : StepOK(steps[l]) /\ steps[l].op \in {"configure", "arm", "raise"}
        /\ steps[Len(steps)].op # "configure"
        /\ steps[Len(steps)].op # "raise" => AllReadable(ArmPlan(c)) /\ ArmedBy(ArmWindow(c), c.overrides)
        /\ ArmWindow(c).windows \in Nat \ {0}
    BY <1>2, <2>1, ArmStepsParts, PlanParts
  <2>3. /\ DOMAIN j = CallFields /\ j.call = c /\ j.open = <<>> /\ DOMAIN Call(c) = CallFields
    BY CallIs
  <2> HIDE DEF j, steps
  <2>4. /\ DOMAIN k = CallFields /\ k.call = c /\ k.open = <<>> /\ k.todo = steps /\ k.plan = ArmPlan(c)
        /\ k.window = ArmWindow(c)
    BY <2>3 DEF CallFields, steps
  <2> HIDE DEF k
  <2>5. Arming(k)
    BY <2>2, <2>4 DEF Arming, Only
  <2>6. NextOK(k)
    BY <2>2, <2>3, <2>4, <2>5 DEF NextOK
  <2>7. StaysOff(k)
    BY <1>1, <2>4 DEF StaysOff, Arms, Calls
  <2>8. job' = [Jobs(t, k.call) EXCEPT ![t] = k]
    BY <1>4 DEF Goes
  <2>9. Counted(<<job[t].open, k.open>>, fetch')
    BY <1>1, <2>4, CountedSame
  <2> QED
    BY <2>6, <2>7, <2>8, <2>9, TaskGoes
<1> HIDE DEF j, k
<1>5. ASSUME NEW end, NEW value, Ends(t, j, end, value) PROVE TasksNext
  BY <1>1, <1>5, EndsIdle
<1> QED
  BY <1>3, <1>4, <1>5

LEMMA AllParts ==
  ASSUME use \in Uses, NEW op
  PROVE  /\ IsSequence(All(op)) /\ All(op) # <<>> /\ Len(All(op)) = Len(use.members)
         /\ DOMAIN All(op) = 1..Len(use.members)
         /\ \A k \in 1..Len(use.members) : All(op)[k].op = op /\ All(op)[k].m = k /\ k \in Members
<1>1. Len(use.members) \in Nat /\ Len(use.members) > 0 /\ Members = 1..Len(use.members)
  BY MembersOK
<1>2. All(op) \in [1..Len(use.members) -> {[op |-> op, m |-> i] : i \in Members}]
  BY <1>1 DEF All
<1>3. IsSequence(All(op)) /\ Len(All(op)) = Len(use.members) /\ DOMAIN All(op) = 1..Len(use.members)
  BY <1>1, <1>2, FunctionIsSequence
<1>4. All(op) # <<>>
  BY <1>1, <1>3
<1> QED
  BY <1>1, <1>3, <1>4 DEF All

LEMMA BeginAbortNext ==
  ASSUME TasksOK, NEW t \in Tasks, NEW c \in use.calls[t], job[t].open = <<>>, use' = use, armed' = armed,
         Remembered => Remembered', armed' # None => Remembered',
         NEW alone, BeginAbort(t, c, [Call(c) EXCEPT !.alone = alone])
  PROVE  TasksNext
<1> DEFINE j == [Call(c) EXCEPT !.alone = alone]
           k == [j EXCEPT !.todo = All("abort")]
<1>1. c.op = "abort" /\ Goes(t, k) /\ fetch' = fetch
  BY DEF BeginAbort
<1>2. use \in Uses
  BY DEF TasksOK, TypeOK
<1>3. /\ IsSequence(All("abort")) /\ All("abort") # <<>>
      /\ \A l \in DOMAIN All("abort") : All("abort")[l].op = "abort" /\ All("abort")[l].m \in Members
  BY <1>2, AllParts
<1>4. /\ DOMAIN j = CallFields /\ j.call = c /\ j.open = <<>> /\ DOMAIN Call(c) = CallFields
  BY CallIs
<1> HIDE DEF j
<1>5. /\ DOMAIN k = CallFields /\ k.call = c /\ k.open = <<>> /\ k.todo = All("abort")
  BY <1>4 DEF CallFields
<1> HIDE DEF k
<1>6. WaitingNext(k)
  BY <1>1, <1>3, <1>5 DEF WaitingNext, Only
<1>7. \A l \in DOMAIN k.todo : StepOK(k.todo[l])
  BY <1>3, <1>5 DEF StepOK
<1>8. NextOK(k)
  BY <1>3, <1>4, <1>5, <1>6, <1>7 DEF NextOK
<1>9. StaysOff(k)
  BY <1>1, <1>5 DEF StaysOff
<1>10. job' = [Jobs(t, k.call) EXCEPT ![t] = k]
  BY <1>1 DEF Goes
<1>11. Counted(<<job[t].open, k.open>>, fetch')
  BY <1>1, <1>5, CountedSame
<1> QED
  BY <1>8, <1>9, <1>10, <1>11, TaskGoes

(* A group read in flight has the counters of every member.                *)
LEMMA GroupHasAll ==
  ASSUME TasksOK, fetch[0].depth > 0
  PROVE  \A m \in Members : fetch[m].depth # 0
<1>1. fetch[0].depth = Cardinality(Open(0)) /\ fetch[0].depth \in Nat
      /\ \A m \in Members : fetch[m].depth = Cardinality(Open(m)) /\ fetch[m].depth \in Nat
  BY DEF TasksOK, FetchBalanced, TypeOK
<1>2. Open(0) # {}
  BY <1>1, FS_EmptySet
<1>3. PICK h \in Tasks \X (1..Len(use.members) + 2) : h[2] \in DOMAIN job[h[1]].open /\ job[h[1]].open[h[2]] = 0
  BY <1>2 DEF Open
<1>4. h[1] \in Tasks /\ OpenShape(job[h[1]].open)
  BY <1>3, JobShape DEF TasksOK
<1>5. /\ DOMAIN job[h[1]].open \subseteq 1..Len(use.members)+2
      /\ \A x \in Members : \E k \in DOMAIN job[h[1]].open : job[h[1]].open[k] = x
  BY <1>3, <1>4, ShapeParts DEF TasksOK, TypeOK
<1>6. ASSUME NEW m \in Members PROVE fetch[m].depth # 0
  <2>1. PICK k \in DOMAIN job[h[1]].open : job[h[1]].open[k] = m
    BY <1>5
  <2>2. <<h[1], k>> \in Open(m)
    BY <1>4, <1>5, <2>1 DEF Open
  <2>3. IsFiniteSet(Open(m))
    <3>1. Len(use.members) + 2 \in Nat /\ IsFiniteSet(Tasks)
      BY MembersOK, GroupAssumption DEF TasksOK, TypeOK
    <3>2. IsFiniteSet(1..Len(use.members) + 2)
      BY <3>1, FS_Interval, 1 \in Int
    <3>3. IsFiniteSet(Tasks \X (1..Len(use.members) + 2))
      BY <3>1, <3>2, FS_Product
    <3>4. Open(m) \in SUBSET (Tasks \X (1..Len(use.members) + 2))
      BY DEF Open
    <3> QED
      BY <3>3, <3>4, FS_Subset
  <2> QED
    BY <1>1, <2>2, <2>3, FS_EmptySet
<1> QED
  BY <1>6

(* A poll, asked of the members it has left: each of them may be answered  *)
(* from memory, and all are when the group is being read.                  *)
PollCall(k) ==
  /\ DOMAIN k = CallFields /\ k.open = <<>> /\ IsSequence(k.todo)
  /\ \A l \in DOMAIN k.todo : k.todo[l].op = "poll" /\ k.todo[l].m \in Members
Spared(k) == k.call.op = "poll" /\ k.during => \A m \in Members : fetch[m].depth # 0

LEMMA AnsweredParts ==
  ASSUME NEW k, PollCall(k), Spared(k)
  PROVE  /\ PollCall(Answered(k, fetch)) /\ Answered(k, fetch).call = k.call
         /\ Answered(k, fetch).todo # <<>> => StaysOff(Answered(k, fetch))
<1> DEFINE asked == {l \in DOMAIN k.todo : fetch[k.todo[l].m].depth = 0}
           n == IF asked = {} THEN Len(k.todo) ELSE Smallest(asked) - 1
           rest == SubSeq(k.todo, n + 1, Len(k.todo))
           a == Answered(k, fetch)
<1>1. Len(k.todo) \in Nat /\ DOMAIN k.todo = 1..Len(k.todo) /\ IsSequence(k.todo)
  BY SequenceParts DEF PollCall
<1>2. n \in 0..Len(k.todo) /\ (asked = {} => n = Len(k.todo))
  <2>1. CASE asked = {}
    BY <1>1, <2>1
  <2>2. CASE asked # {}
    <3>1. asked \in SUBSET Nat
      BY <1>1
    <3>2. asked \subseteq 1..Len(k.todo)
      BY <1>1
    <3> HIDE DEF asked
    <3>3. Smallest(asked) \in asked
      BY <2>2, <3>1, SmallestIsLeast
    <3>4. Smallest(asked) \in 1..Len(k.todo)
      BY <3>2, <3>3
    <3> HIDE DEF n
    <3>5. n = Smallest(asked) - 1
      BY <2>2 DEF n
    <3> QED
      BY <1>1, <2>2, <3>4, <3>5
  <2> QED
    BY <2>1, <2>2
<1>3. DOMAIN k = CallFields
  BY DEF PollCall
<1>4. a = [k EXCEPT !.got = k.got \o [l \in 1..n |-> FromMemory(k.todo[l].m, fetch)], !.todo = rest]
  BY DEF Answered
<1>5. DOMAIN a = CallFields /\ a.call = k.call /\ a.open = k.open /\ a.during = k.during /\ a.todo = rest
  <2> HIDE DEF a, rest, n
  <2> QED
    BY <1>3, <1>4 DEF CallFields
<1> HIDE DEF a, n
<1>6. /\ IsSequence(rest) /\ Len(rest) = Len(k.todo) - n /\ DOMAIN rest = 1..Len(k.todo)-n
      /\ \A l \in 1..Len(k.todo)-n : rest[l] = k.todo[l + n]
  BY <1>1, <1>2, RestParts
<1> HIDE DEF rest
<1>7. ASSUME NEW l \in DOMAIN rest PROVE rest[l].op = "poll" /\ rest[l].m \in Members
  <2>1. l + n \in DOMAIN k.todo /\ rest[l] = k.todo[l + n]
    BY <1>1, <1>2, <1>6
  <2> QED
    BY <2>1 DEF PollCall
<1>8. PollCall(a)
  BY <1>5, <1>6, <1>7 DEF PollCall
<1>9. ASSUME a.todo # <<>> PROVE StaysOff(a)
  <2> SUFFICES ASSUME a.call.op = "poll", a.during PROVE FALSE
    BY DEF StaysOff
  <2>1. \A m \in Members : fetch[m].depth # 0
    BY <1>5 DEF Spared
  <2>2. asked = {}
    BY <2>1 DEF PollCall
  <2>3. Len(rest) = 0
    <3>1. n = Len(k.todo)
      BY <1>2, <2>2
    <3> QED
      BY <1>1, <1>6, <3>1
  <2>4. rest = <<>>
    BY <1>6, <2>3, SequenceParts
  <2> QED
    BY <1>5, <1>9, <2>4
<1> QED
  BY <1>5, <1>8, <1>9 DEF a

LEMMA PollGoesNext ==
  ASSUME TasksOK, NEW t \in Tasks, job[t].open = <<>>, use' = use, armed' = armed, fetch' = fetch,
         Remembered => Remembered', armed' # None => Remembered',
         NEW k, PollCall(k), Spared(k), PollGoes(t, k)
  PROVE  TasksNext
<1> DEFINE a == Answered(k, fetch)
<1>1. PollCall(a) /\ (a.todo # <<>> => StaysOff(a))
  BY AnsweredParts
<1>2. IF a.todo = <<>> THEN Ends(t, a, "done", Polled(a.got, fetch)) ELSE Goes(t, a)
  BY DEF PollGoes
<1> HIDE DEF a
<1>3. CASE a.todo = <<>>
  BY <1>2, <1>3, EndsIdle
<1>4. CASE a.todo # <<>>
  <2>1. DOMAIN a = DOMAIN Call(a.call)
    BY <1>1, CallIs DEF PollCall
  <2>2. WaitingNext(a)
    BY <1>1 DEF PollCall, WaitingNext, Only
  <2>3. \A l \in DOMAIN a.todo : StepOK(a.todo[l])
    BY <1>1 DEF PollCall, StepOK
  <2>4. NextOK(a)
    BY <1>1, <1>4, <2>1, <2>2, <2>3 DEF NextOK, PollCall
  <2>5. job' = [Jobs(t, a.call) EXCEPT ![t] = a]
    BY <1>2, <1>4 DEF Goes
  <2>6. Counted(<<job[t].open, a.open>>, fetch')
    BY <1>1, CountedSame DEF PollCall
  <2> QED
    BY <1>1, <1>4, <2>4, <2>5, <2>6, TaskGoes
<1> QED
  BY <1>3, <1>4

LEMMA BeginPollNext ==
  ASSUME TasksOK, NEW t \in Tasks, NEW c \in use.calls[t], job[t].open = <<>>, use' = use, armed' = armed,
         Remembered => Remembered', armed' # None => Remembered',
         NEW alone, BeginPoll(t, c, [Call(c) EXCEPT !.alone = alone])
  PROVE  TasksNext
<1> DEFINE j == [Call(c) EXCEPT !.alone = alone]
           k == [j EXCEPT !.todo = All("poll"), !.during = fetch[0].depth > 0]
<1>1. c.op = "poll" /\ PollGoes(t, k) /\ fetch' = fetch
  BY DEF BeginPoll
<1>2. use \in Uses
  BY DEF TasksOK, TypeOK
<1>3. /\ IsSequence(All("poll"))
      /\ \A l \in DOMAIN All("poll") : All("poll")[l].op = "poll" /\ All("poll")[l].m \in Members
  BY <1>2, AllParts
<1>4. /\ DOMAIN j = CallFields /\ j.call = c /\ j.open = <<>>
  BY CallIs
<1> HIDE DEF j
<1>5. /\ DOMAIN k = CallFields /\ k.call = c /\ k.open = <<>> /\ k.todo = All("poll")
      /\ (k.during => fetch[0].depth > 0)
  BY <1>4 DEF CallFields
<1> HIDE DEF k
<1>6. PollCall(k)
  BY <1>1, <1>3, <1>5 DEF PollCall
<1>7. Spared(k)
  BY <1>5, GroupHasAll DEF Spared
<1> QED
  BY <1>1, <1>6, <1>7, PollGoesNext

(* The phase a call is in, by the step it is at.                           *)
LEMMA Phase ==
  ASSUME TasksOK, NEW t \in Tasks, Busy(t), NEW op, op = Head(job[t].todo).op
  PROVE  /\ op \in {"configure", "arm"} => Arming(job[t])
         /\ op = "status" => job[t].open = <<>> /\ Only(job[t], {"status"}) /\ job[t].call.op = "capture" /\ Remembered
         /\ op = "abort" => /\ job[t].open = <<>> /\ Only(job[t], {"abort"})
                            /\ job[t].call.op = "capture" => Remembered
         /\ op = "poll" => job[t].open = <<>> /\ Only(job[t], {"poll"})
         /\ op = "size" => Sizing(job[t])
         /\ op \in {"heads", "burst"} => \E m \in Members : Transferring(job[t], m) \/ ReadingOwn(job[t], m)
<1> DEFINE j == job[t]
<1>1. CallOK(j) /\ op = j.todo[1].op /\ 1 \in DOMAIN j.todo
  BY HeadStep DEF TasksOK
<1>2. Arming(j) \/ Waiting(j) \/ Sizing(j) \/ \E m \in Members : Transferring(j, m) \/ ReadingOwn(j, m)
  BY <1>1, Zenon DEF CallOK
<1> HIDE DEF j
<1>3. Arming(j) => op \in {"configure", "arm", "raise"}
  BY <1>1 DEF Arming, Only
<1>4. ASSUME Waiting(j)
      PROVE  /\ op \in {"status", "abort", "poll"}
             /\ op = "status" => j.open = <<>> /\ Only(j, {"status"}) /\ j.call.op = "capture" /\ Remembered
             /\ op = "abort" => j.open = <<>> /\ Only(j, {"abort"}) /\ (j.call.op = "capture" => Remembered)
             /\ op = "poll" => j.open = <<>> /\ Only(j, {"poll"})
  BY <1>1, <1>4 DEF Waiting, Only
<1>5. Sizing(j) => op = "size"
  BY <1>1 DEF Sizing
<1>6. \A m : Transferring(j, m) \/ ReadingOwn(j, m) => op \in {"heads", "burst"}
  BY <1>1 DEF Transferring, ReadingOwn, Only
<1> DEFINE reading == \E m \in Members : Transferring(j, m) \/ ReadingOwn(j, m)
<1>7. reading => op \in {"heads", "burst"}
  BY <1>6
<1> HIDE DEF reading
<1>8. (op \in {"configure", "arm"} => ~Waiting(j) /\ ~Sizing(j) /\ ~reading)
  BY <1>4, <1>5, <1>7
<1>9. (op \in {"status", "abort", "poll"} => ~Arming(j) /\ ~Sizing(j) /\ ~reading)
  BY <1>3, <1>5, <1>7
<1>10. (op = "size" => ~Arming(j) /\ ~Waiting(j) /\ ~reading)
  BY <1>3, <1>4, <1>7
<1>11. (op \in {"heads", "burst"} => ~Arming(j) /\ ~Waiting(j) /\ ~Sizing(j))
  BY <1>3, <1>4, <1>5
<1>12. Arming(j) \/ Waiting(j) \/ Sizing(j) \/ reading
  BY <1>2 DEF reading
<1>13. op \in {"configure", "arm"} => Arming(j)
  BY <1>8, <1>12
<1>14. op \in {"status", "abort", "poll"} => Waiting(j)
  BY <1>9, <1>12
<1>15. op = "size" => Sizing(j)
  BY <1>10, <1>12
<1>16. op \in {"heads", "burst"} => \E m \in Members : Transferring(j, m) \/ ReadingOwn(j, m)
  BY <1>11, <1>12 DEF reading
<1>17. /\ op = "status" => j.open = <<>> /\ Only(j, {"status"}) /\ j.call.op = "capture" /\ Remembered
       /\ op = "abort" => j.open = <<>> /\ Only(j, {"abort"}) /\ (j.call.op = "capture" => Remembered)
       /\ op = "poll" => j.open = <<>> /\ Only(j, {"poll"})
  BY <1>4, <1>14
<1> QED
  BY <1>13, <1>15, <1>16, <1>17 DEF j

(* What is left of a call after the step it is at.                         *)
LEMMA AdvancedParts ==
  ASSUME TasksOK, NEW t \in Tasks, Busy(t)
  PROVE  /\ DOMAIN job[t] = CallFields /\ DOMAIN Advanced(t) = CallFields /\ Advanced(t).todo = Tail(job[t].todo)
         /\ Advanced(t) = [job[t] EXCEPT !.todo = Tail(job[t].todo)]
         /\ Advanced(t).call = job[t].call /\ Advanced(t).open = job[t].open /\ Advanced(t).plan = job[t].plan
         /\ Advanced(t).window = job[t].window /\ Advanced(t).words = job[t].words
         /\ Advanced(t).during = job[t].during /\ Advanced(t).got = job[t].got
         /\ IsSequence(Tail(job[t].todo)) /\ Len(Tail(job[t].todo)) = Len(job[t].todo) - 1
         /\ DOMAIN Tail(job[t].todo) = 1..Len(job[t].todo)-1 /\ DOMAIN job[t].todo = 1..Len(job[t].todo)
         /\ Len(job[t].todo) \in Nat /\ Len(job[t].todo) > 0 /\ Head(job[t].todo) = job[t].todo[1]
         /\ \A k \in 1..Len(job[t].todo)-1 : Tail(job[t].todo)[k] = job[t].todo[k + 1]
         /\ \A k \in 1..Len(job[t].todo) : StepOK(job[t].todo[k])
         /\ \A k \in 1..Len(job[t].todo)-1 : StepOK(Tail(job[t].todo)[k])
<1>1. /\ CallOK(job[t]) /\ IsSequence(job[t].todo) /\ job[t].todo # <<>>
      /\ DOMAIN job[t] = DOMAIN Call(job[t].call)
  BY HeadStep DEF TasksOK
<1>2. DOMAIN job[t] = CallFields
  BY <1>1, CallIs
<1>3. \A l \in DOMAIN job[t].todo : StepOK(job[t].todo[l])
  BY <1>1, Zenon DEF CallOK
<1>4. /\ IsSequence(Tail(job[t].todo)) /\ Len(Tail(job[t].todo)) = Len(job[t].todo) - 1
      /\ DOMAIN Tail(job[t].todo) = 1..Len(job[t].todo)-1 /\ DOMAIN job[t].todo = 1..Len(job[t].todo)
      /\ Len(job[t].todo) \in Nat /\ Len(job[t].todo) > 0 /\ Head(job[t].todo) = job[t].todo[1]
      /\ \A k \in 1..Len(job[t].todo)-1 : Tail(job[t].todo)[k] = job[t].todo[k + 1]
  BY <1>1, TailParts
<1>5. \A k \in 1..Len(job[t].todo)-1 : StepOK(Tail(job[t].todo)[k])
  BY <1>3, <1>4
<1>6. /\ DOMAIN Advanced(t) = CallFields /\ Advanced(t).todo = Tail(job[t].todo)
      /\ Advanced(t).call = job[t].call /\ Advanced(t).open = job[t].open /\ Advanced(t).plan = job[t].plan
      /\ Advanced(t).window = job[t].window /\ Advanced(t).words = job[t].words
      /\ Advanced(t).during = job[t].during /\ Advanced(t).got = job[t].got
  BY <1>2 DEF Advanced, CallFields
<1>7. Advanced(t) = [job[t] EXCEPT !.todo = Tail(job[t].todo)]
  BY DEF Advanced
<1> QED
  BY <1>2, <1>3, <1>4, <1>5, <1>6, <1>7

LEMMA PollMemberNext ==
  ASSUME TasksOK, NEW t \in Tasks, PollMember(t)
  PROVE  TasksNext
<1> DEFINE s == Head(job[t].todo)
           j == Advanced(t)
           k == [j EXCEPT !.got = Append(j.got, [state |-> core[s.m].mode,
                                                 triggered |-> core[s.m].triggered, fetch |-> None])]
<1>1. Busy(t) /\ s.op = "poll" /\ use' = use /\ armed' = armed /\ fetch' = fetch /\ PollGoes(t, k)
  BY Zenon DEF PollMember, Now
<1>2. job[t].open = <<>> /\ Only(job[t], {"poll"})
  BY <1>1, Phase
<1>3. /\ DOMAIN j = CallFields /\ j.todo = Tail(job[t].todo) /\ j.call = job[t].call /\ j.open = job[t].open
      /\ j.during = job[t].during /\ IsSequence(Tail(job[t].todo))
      /\ DOMAIN Tail(job[t].todo) = 1..Len(job[t].todo)-1 /\ DOMAIN job[t].todo = 1..Len(job[t].todo)
      /\ Len(job[t].todo) \in Nat
      /\ \A l \in 1..Len(job[t].todo)-1 : /\ Tail(job[t].todo)[l] = job[t].todo[l + 1]
                                          /\ StepOK(Tail(job[t].todo)[l])
  BY <1>1, AdvancedParts
<1>4. \A l \in 1..Len(job[t].todo)-1 : Tail(job[t].todo)[l].op = "poll" /\ Tail(job[t].todo)[l].m \in Members
  <2> SUFFICES ASSUME NEW l \in 1..Len(job[t].todo)-1
               PROVE  Tail(job[t].todo)[l].op = "poll" /\ Tail(job[t].todo)[l].m \in Members
    OBVIOUS
  <2>1. l + 1 \in DOMAIN job[t].todo
    BY <1>3
  <2>2. Tail(job[t].todo)[l].op = "poll"
    BY <1>2, <1>3, <2>1 DEF Only
  <2> QED
    BY <1>3, <2>2 DEF StepOK
<1> HIDE DEF j
<1>5. /\ DOMAIN k = CallFields /\ k.todo = j.todo /\ k.call = j.call /\ k.open = j.open /\ k.during = j.during
  BY <1>3 DEF CallFields
<1> HIDE DEF k
<1>6. PollCall(k)
  BY <1>2, <1>3, <1>4, <1>5 DEF PollCall
<1>7. Spared(k)
  BY <1>1, <1>3, <1>5 DEF Spared, TasksOK, PollStaysOffTheLink
<1>8. (Remembered => Remembered') /\ (armed' # None => Remembered')
  BY <1>1, RememberedKept DEF TasksOK
<1> QED
  BY <1>1, <1>2, <1>6, <1>7, <1>8, PollGoesNext

LEMMA ConfigureNext ==
  ASSUME TasksOK, NEW t \in Tasks, Configure(t)
  PROVE  TasksNext
<1> DEFINE j == Advanced(t)
           n == Len(job[t].todo)
<1>1. /\ Busy(t) /\ Head(job[t].todo).op = "configure" /\ use' = use /\ armed' = armed /\ fetch' = fetch
      /\ job' = [Jobs(t, j.call) EXCEPT ![t] = j]
  BY DEF Configure, Now, Goes
<1>2. Arming(job[t])
  BY <1>1, Phase
<1>3. /\ DOMAIN j = CallFields /\ j.todo = Tail(job[t].todo) /\ j.call = job[t].call /\ j.open = job[t].open
      /\ j.plan = job[t].plan /\ j.window = job[t].window /\ j.during = job[t].during
      /\ IsSequence(Tail(job[t].todo)) /\ Len(Tail(job[t].todo)) = n - 1
      /\ DOMAIN Tail(job[t].todo) = 1..n-1 /\ DOMAIN job[t].todo = 1..n /\ n \in Nat /\ n > 0
      /\ Head(job[t].todo) = job[t].todo[1]
      /\ \A k \in 1..n-1 : Tail(job[t].todo)[k] = job[t].todo[k + 1] /\ StepOK(Tail(job[t].todo)[k])
  BY <1>1, AdvancedParts
<1> HIDE DEF j, n
<1>4. n > 1
  <2>1. n # 1
    BY <1>1, <1>2, <1>3 DEF Arming, n
  <2> QED
    BY <1>3, <2>1
<1>5. j.todo # <<>>
  <2>1. Len(j.todo) = n - 1
    BY <1>3, Zenon
  <2>2. Len(j.todo) # 0
    BY <1>3, <1>4, <2>1
  <2> QED
    BY <2>2
<1>6. Only(j, {"configure", "arm", "raise"})
  <2> SUFFICES ASSUME NEW k \in 1..n-1 PROVE j.todo[k].op \in {"configure", "arm", "raise"}
    BY <1>3 DEF Only
  <2>1. k + 1 \in DOMAIN job[t].todo /\ j.todo[k] = job[t].todo[k + 1]
    BY <1>3
  <2> QED
    BY <1>2, <2>1 DEF Arming, Only
<1>7. j.todo[Len(j.todo)] = job[t].todo[Len(job[t].todo)]
  <2>1. n - 1 \in 1..n-1 /\ (n - 1) + 1 = n
    BY <1>3, <1>4
  <2> QED
    BY <1>3, <2>1 DEF n
<1>8. Arming(j)
  BY <1>2, <1>3, <1>6, <1>7 DEF Arming
<1>9. NextOK(j)
  BY <1>3, <1>5, <1>8, CallIs DEF NextOK
<1>10. StaysOff(j)
  BY <1>1, <1>3 DEF StaysOff, TasksOK, PollStaysOffTheLink
<1>11. Counted(<<job[t].open, j.open>>, fetch')
  BY <1>1, <1>3, CountedSame
<1>12. (Remembered => Remembered') /\ (armed' # None => Remembered')
  BY <1>1, RememberedKept DEF TasksOK
<1> QED
  BY <1>1, <1>9, <1>10, <1>11, <1>12, TaskGoes

(* The read of a group begins: the sizes of all, then the first's own.     *)
LEMMA ReadingOK ==
  ASSUME use \in Uses, NEW k, DOMAIN k = CallFields, k.call.op # "own", NEW plan, AllReadable(plan)
  PROVE  /\ NextOK(Reading(k, plan)) /\ Reading(k, plan).open = GroupOpen
         /\ Reading(k, plan).call = k.call /\ Reading(k, plan).during = k.during
<1> DEFINE n == Len(use.members)
           j == Reading(k, plan)
           todo == All("size") \o All("heads")
<1>1. /\ IsSequence(All("size")) /\ Len(All("size")) = n /\ DOMAIN All("size") = 1..n
      /\ \A l \in 1..n : All("size")[l].op = "size" /\ All("size")[l].m = l /\ l \in Members
  BY AllParts
<1>2. /\ IsSequence(All("heads")) /\ Len(All("heads")) = n /\ DOMAIN All("heads") = 1..n
      /\ \A l \in 1..n : All("heads")[l].op = "heads" /\ All("heads")[l].m = l /\ l \in Members
  BY AllParts
<1>3. n \in Nat /\ n > 0
  BY MembersOK
<1> HIDE DEF n
<1>4. /\ IsSequence(todo) /\ Len(todo) = n + n /\ DOMAIN todo = 1..n+n
      /\ \A l \in 1..n+n : todo[l] = IF l <= n THEN All("size")[l] ELSE All("heads")[l - n]
  <2>1. /\ IsSequence(todo) /\ Len(todo) = Len(All("size")) + Len(All("heads"))
        /\ DOMAIN todo = 1..Len(All("size"))+Len(All("heads"))
        /\ \A l \in 1..Len(All("size"))+Len(All("heads")) :
             todo[l] = IF l <= Len(All("size")) THEN All("size")[l] ELSE All("heads")[l - Len(All("size"))]
    BY <1>1, <1>2, JoinParts
  <2>2. Len(All("size")) = n /\ Len(All("heads")) = n
    BY <1>1, <1>2
  <2> HIDE DEF todo
  <2> QED
    BY <2>1, <2>2, Zenon
<1> HIDE DEF todo
<1>5. /\ DOMAIN j = CallFields /\ j.call = k.call /\ j.open = GroupOpen /\ j.plan = plan /\ j.words = 0
      /\ j.todo = todo /\ j.during = k.during
  BY DEF Reading, CallFields, todo
<1> HIDE DEF j
<1>6. ASSUME NEW l \in 1..n+n
      PROVE  /\ todo[l].op = IF l <= n THEN "size" ELSE "heads"
             /\ todo[l].m \in Members
  <2>1. CASE l <= n
    <3>1. l \in 1..n /\ todo[l] = All("size")[l]
      BY <1>3, <1>4, <2>1
    <3> QED
      BY <1>1, <2>1, <3>1
  <2>2. CASE ~(l <= n)
    <3>1. l - n \in 1..n /\ todo[l] = All("heads")[l - n]
      BY <1>3, <1>4, <2>2
    <3> QED
      BY <1>2, <2>2, <3>1
  <2> QED
    BY <2>1, <2>2
<1>7. \A l \in DOMAIN j.todo : StepOK(j.todo[l])
  BY <1>4, <1>5, <1>6 DEF StepOK
<1>8. Only(j, {"size", "heads"}) /\ First(j, "size")
  BY <1>3, <1>4, <1>5, <1>6 DEF Only, First
<1>9. j.todo[1].op = "size" /\ j.todo[Len(j.todo)].op = "heads"
  <2>1. 1 \in 1..n+n /\ n + n \in 1..n+n /\ 1 <= n /\ ~(n + n <= n)
    BY <1>3
  <2> QED
    BY <1>4, <1>5, <1>6, <2>1
<1>10. Sizing(j)
  BY <1>5, <1>8, <1>9 DEF Sizing
<1>11. j.todo # <<>>
  <2>1. Len(j.todo) # 0
    BY <1>3, <1>4, <1>5
  <2> QED
    BY <2>1
<1>12. NextOK(j)
  BY <1>4, <1>5, <1>7, <1>10, <1>11, CallIs DEF NextOK
<1> QED
  BY <1>5, <1>12 DEF j

LEMMA GroupReadNext ==
  ASSUME TasksOK, NEW t \in Tasks, job[t].open = <<>>, use' = use,
         Remembered => Remembered', armed' # None => Remembered',
         NEW k, DOMAIN k = CallFields, k.call.op # "own", StaysOff(k), NEW plan, AllReadable(plan),
         Goes(t, Reading(k, plan)), fetch' = Started(fetch, DOMAIN fetch)
  PROVE  TasksNext
<1> DEFINE j == Reading(k, plan)
<1>1. use \in Uses
  BY DEF TasksOK, TypeOK
<1>2. NextOK(j) /\ j.open = GroupOpen /\ j.call = k.call /\ j.during = k.during
  BY <1>1, ReadingOK
<1>3. job' = [Jobs(t, j.call) EXCEPT ![t] = j]
  BY DEF Goes
<1> HIDE DEF j
<1>4. StaysOff(j)
  BY <1>2 DEF StaysOff
<1>5. Counted(<<<<>>, <<>>>>, fetch) /\ DOMAIN fetch = Ids /\ fetch \in Counters
  BY CountedSame DEF Counted
<1>6. ASSUME NEW x \in Ids
      PROVE  /\ Times(<<>>, x) \in Nat
             /\ Times(GroupOpen, x) = Times(<<>>, x) + IF x \in Ids THEN 1 ELSE 0
  <2>1. PICK m \in Members : TRUE
    <3>1. Members = 1..Len(use.members) /\ Len(use.members) \in Nat /\ Len(use.members) > 0
      BY <1>1, MembersOK
    <3>2. 1 \in Members
      BY <3>1
    <3> QED
      BY <3>2
  <2>2. Times(<<>>, x) = 0 /\ Times(GroupOpen, x) = 1
    BY <1>1, <2>1, TimesOpen DEF Ids
  <2> QED
    BY <2>2
<1>7. Counted(<<<<>>, GroupOpen>>, Started(fetch, Ids))
  BY <1>5, <1>6, CountedStarts
<1>8. Counted(<<job[t].open, j.open>>, fetch')
  BY <1>2, <1>5, <1>7
<1> QED
  BY <1>2, <1>3, <1>4, <1>8, TaskGoes

LEMMA JobStaysOff ==
  ASSUME TasksOK, NEW t \in Tasks, Busy(t)
  PROVE  StaysOff(job[t])
BY DEF StaysOff, TasksOK, PollStaysOffTheLink

(* The rest of a row of steps that are all of one kind.                    *)
LEMMA OnlyRest ==
  ASSUME TasksOK, NEW t \in Tasks, Busy(t), NEW ops, Only(job[t], ops)
  PROVE  Only(Advanced(t), ops)
<1>1. /\ Advanced(t).todo = Tail(job[t].todo) /\ DOMAIN Tail(job[t].todo) = 1..Len(job[t].todo)-1
      /\ DOMAIN job[t].todo = 1..Len(job[t].todo) /\ Len(job[t].todo) \in Nat
      /\ \A k \in 1..Len(job[t].todo)-1 : Tail(job[t].todo)[k] = job[t].todo[k + 1]
  BY AdvancedParts
<1> SUFFICES ASSUME NEW k \in 1..Len(job[t].todo)-1 PROVE Tail(job[t].todo)[k].op \in ops
  BY <1>1 DEF Only
<1>2. k + 1 \in DOMAIN job[t].todo
  BY <1>1
<1> QED
  BY <1>1, <1>2 DEF Only

(* A call that goes on, with the steps it has left and nothing else moved. *)
LEMMA AdvancesNext ==
  ASSUME TasksOK, NEW t \in Tasks, Busy(t), job[t].open = <<>>, use' = use, fetch' = fetch,
         Remembered => Remembered', armed' # None => Remembered',
         NEW k, DOMAIN k = CallFields, k.call = job[t].call, k.during = job[t].during,
         IsSequence(k.todo), k.todo # <<>>, \A l \in DOMAIN k.todo : StepOK(k.todo[l]),
         WaitingNext(k), Goes(t, k)
  PROVE  TasksNext
<1>1. k.open = <<>>
  BY DEF WaitingNext
<1>2. NextOK(k)
  BY CallIs DEF NextOK
<1>3. StaysOff(k)
  BY JobStaysOff DEF StaysOff
<1>4. job' = [Jobs(t, k.call) EXCEPT ![t] = k]
  BY DEF Goes
<1>5. Counted(<<job[t].open, k.open>>, fetch')
  BY <1>1, CountedSame
<1> QED
  BY <1>2, <1>3, <1>4, <1>5, TaskGoes

LEMMA AbortMemberNext ==
  ASSUME TasksOK, NEW t \in Tasks, AbortMember(t)
  PROVE  TasksNext
<1> DEFINE j == Advanced(t)
<1>1. Busy(t) /\ Head(job[t].todo).op = "abort" /\ use' = use /\ armed' = armed
  BY DEF AbortMember, Now
<1>2. /\ job[t].open = <<>> /\ Only(job[t], {"abort"})
      /\ job[t].call.op = "capture" => Remembered
  BY <1>1, Phase
<1>3. (Remembered => Remembered') /\ (armed' # None => Remembered')
  BY <1>1, RememberedKept DEF TasksOK
<1>4. /\ DOMAIN j = CallFields /\ j.todo = Tail(job[t].todo) /\ j.call = job[t].call /\ j.open = job[t].open
      /\ j.during = job[t].during /\ IsSequence(j.todo) /\ DOMAIN j.todo = 1..Len(job[t].todo)-1
      /\ \A l \in DOMAIN j.todo : StepOK(j.todo[l])
  BY <1>1, AdvancedParts
<1>5. Only(j, {"abort"})
  BY <1>1, <1>2, OnlyRest
<1>6. IF j.todo # <<>> THEN Goes(t, j) /\ fetch' = fetch
      ELSE IF j.call.op = "capture"
      THEN Goes(t, Reading(j, armed.plan)) /\ fetch' = Started(fetch, DOMAIN fetch)
      ELSE Ends(t, j, "done", None) /\ fetch' = fetch
  BY DEF AbortMember
<1> HIDE DEF j
<1>7. CASE j.todo # <<>>
  <2>1. WaitingNext(j)
    BY <1>2, <1>3, <1>4, <1>5 DEF WaitingNext
  <2> QED
    BY <1>1, <1>2, <1>3, <1>4, <1>6, <1>7, <2>1, AdvancesNext
<1>8. CASE j.todo = <<>> /\ j.call.op = "capture"
  <2>1. AllReadable(armed.plan)
    BY <1>2, <1>4, <1>8 DEF Remembered
  <2>2. StaysOff(j) /\ j.call.op # "own"
    BY <1>8 DEF StaysOff
  <2> QED
    BY <1>1, <1>2, <1>3, <1>4, <1>6, <1>8, <2>1, <2>2, GroupReadNext
<1>9. CASE j.todo = <<>> /\ j.call.op # "capture"
  BY <1>1, <1>2, <1>3, <1>6, <1>9, EndsIdle
<1> QED
  BY <1>7, <1>8, <1>9

LEMMA ReadStatusNext ==
  ASSUME TasksOK, NEW t \in Tasks, ReadStatus(t)
  PROVE  TasksNext
<1> DEFINE c == core[Head(job[t].todo).m]
           j == [Advanced(t) EXCEPT !.got = Append(Advanced(t).got, [state |-> c.mode, triggered |-> c.triggered])]
           whole == \A k \in DOMAIN j.got : j.got[k].triggered
           again == [j EXCEPT !.got = <<>>, !.tries = j.tries - 1,
                              !.todo = IF j.tries > 1 THEN All("status") ELSE All("abort")]
<1>1. Busy(t) /\ Head(job[t].todo).op = "status" /\ use' = use /\ armed' = armed
  BY Zenon DEF ReadStatus, Now
<1>2. job[t].open = <<>> /\ Only(job[t], {"status"}) /\ job[t].call.op = "capture" /\ Remembered
  BY <1>1, Phase
<1>3. (Remembered => Remembered') /\ (armed' # None => Remembered')
  BY <1>1, RememberedKept DEF TasksOK
<1>4. \/ j.todo # <<>> /\ Goes(t, j) /\ fetch' = fetch
      \/ Goes(t, Reading([j EXCEPT !.whole = whole], armed.plan)) /\ fetch' = Started(fetch, DOMAIN fetch)
      \/ Goes(t, again) /\ fetch' = fetch
  BY Zenon DEF ReadStatus
<1>5. /\ DOMAIN Advanced(t) = CallFields /\ Advanced(t).todo = Tail(job[t].todo)
      /\ Advanced(t).call = job[t].call /\ Advanced(t).open = job[t].open
      /\ Advanced(t).during = job[t].during /\ IsSequence(Tail(job[t].todo))
      /\ DOMAIN Tail(job[t].todo) = 1..Len(job[t].todo)-1
      /\ \A l \in 1..Len(job[t].todo)-1 : StepOK(Tail(job[t].todo)[l])
  BY <1>1, AdvancedParts
<1>6. Only(Advanced(t), {"status"})
  BY <1>1, <1>2, OnlyRest
<1>7. /\ DOMAIN j = CallFields /\ j.todo = Tail(job[t].todo) /\ j.call = job[t].call /\ j.open = job[t].open
      /\ j.during = job[t].during
  BY <1>5 DEF CallFields
<1> HIDE DEF j, whole
<1>8. CASE j.todo # <<>> /\ Goes(t, j) /\ fetch' = fetch
  <2>1. WaitingNext(j)
    BY <1>2, <1>3, <1>5, <1>6, <1>7 DEF WaitingNext, Only
  <2> QED
    BY <1>1, <1>2, <1>3, <1>5, <1>7, <1>8, <2>1, AdvancesNext
<1>9. CASE Goes(t, Reading([j EXCEPT !.whole = whole], armed.plan)) /\ fetch' = Started(fetch, DOMAIN fetch)
  <2> DEFINE k == [j EXCEPT !.whole = whole]
  <2>1. DOMAIN k = CallFields /\ k.call = j.call
    BY <1>7 DEF CallFields
  <2> HIDE DEF k
  <2>2. AllReadable(armed.plan)
    BY <1>2 DEF Remembered
  <2>3. StaysOff(k) /\ k.call.op # "own"
    BY <1>2, <1>7, <2>1 DEF StaysOff
  <2>4. Goes(t, Reading(k, armed.plan)) /\ fetch' = Started(fetch, DOMAIN fetch)
    BY <1>9 DEF k
  <2> QED
    BY <1>1, <1>2, <1>3, <2>1, <2>2, <2>3, <2>4, GroupReadNext
<1>10. CASE Goes(t, again) /\ fetch' = fetch
  <2>1. PICK op \in {"status", "abort"} : (IF j.tries > 1 THEN All("status") ELSE All("abort")) = All(op)
    BY Zenon
  <2>2. /\ DOMAIN again = CallFields /\ again.todo = All(op) /\ again.call = j.call /\ again.open = j.open
        /\ again.during = j.during
    BY <1>7, <2>1 DEF CallFields
  <2> HIDE DEF again
  <2>3. use \in Uses
    BY DEF TasksOK, TypeOK
  <2>4. /\ IsSequence(All(op)) /\ All(op) # <<>>
        /\ \A l \in DOMAIN All(op) : All(op)[l].op = op /\ All(op)[l].m \in Members
    BY <2>3, AllParts
  <2>5. \A l \in DOMAIN again.todo : StepOK(again.todo[l])
    BY <2>1, <2>2, <2>4 DEF StepOK
  <2>6. WaitingNext(again)
    BY <1>2, <1>3, <1>7, <2>1, <2>2, <2>4 DEF WaitingNext, Only
  <2> QED
    BY <1>1, <1>2, <1>3, <1>7, <1>10, <2>2, <2>4, <2>5, <2>6, AdvancesNext
<1> QED
  BY <1>4, <1>8, <1>9, <1>10

LEMMA ArmMemberNext ==
  ASSUME TasksOK, NEW t \in Tasks, ArmMember(t)
  PROVE  TasksNext
<1> DEFINE j == Advanced(t)
           n == Len(job[t].todo)
           waits == [j EXCEPT !.todo = All("status")]
<1>1. Busy(t) /\ Head(job[t].todo).op = "arm" /\ use' = use /\ fetch' = fetch
  BY DEF ArmMember, Now
<1>2. Arming(job[t])
  BY <1>1, Phase
<1>3. /\ DOMAIN j = CallFields /\ j.todo = Tail(job[t].todo) /\ j.call = job[t].call /\ j.open = job[t].open
      /\ j.plan = job[t].plan /\ j.window = job[t].window /\ j.during = job[t].during
      /\ IsSequence(Tail(job[t].todo)) /\ Len(Tail(job[t].todo)) = n - 1
      /\ DOMAIN Tail(job[t].todo) = 1..n-1 /\ DOMAIN job[t].todo = 1..n /\ n \in Nat /\ n > 0
      /\ Head(job[t].todo) = job[t].todo[1]
      /\ \A k \in 1..n-1 : Tail(job[t].todo)[k] = job[t].todo[k + 1] /\ StepOK(Tail(job[t].todo)[k])
  BY <1>1, AdvancedParts
<1>4. IF j.todo = <<>>
      THEN /\ armed' = Remember(j)
           /\ IF j.call.op = "capture" THEN Goes(t, waits) ELSE Ends(t, j, "done", j.plan)
      ELSE /\ armed' = armed
           /\ IF Head(j.todo).op = "raise" THEN Ends(t, j, "raised", j.plan) ELSE Goes(t, j)
  BY DEF ArmMember
<1>5. job[t].open = <<>> /\ Only(j, {"configure", "arm", "raise"})
  BY <1>1, <1>2, OnlyRest DEF Arming
<1> HIDE DEF j, n, waits
<1>6. CASE j.todo = <<>>
  <2>1. n = 1
    <3>1. Len(<<>>) = n - 1
      BY <1>3, <1>6, Zenon
    <3>2. Len(<<>>) = 0 /\ n \in Nat
      BY <1>3
    <3>3. 0 = n - 1
      BY <3>1, <3>2, Zenon
    <3> QED
      BY <3>2, <3>3
  <2>2. /\ AllReadable(j.plan) /\ ArmedBy(j.window, j.call.overrides) /\ j.window.windows \in Nat \ {0}
    BY <1>1, <1>2, <1>3, <2>1 DEF Arming, n
  <2>3. armed'.window = j.window /\ armed'.plan = j.plan /\ armed'.overrides = j.call.overrides
    BY <1>4, <1>6 DEF Remember
  <2>4. Remembered'
    <3>1. AllReadable(j.plan) => AllReadable(armed.plan)'
      BY <1>1, <2>3 DEF AllReadable, Members, M
    <3>2. ArmedBy(j.window, j.call.overrides) => ArmedBy(armed.window, armed.overrides)'
      BY <1>1, <2>3 DEF ArmedBy
    <3> QED
      BY <2>2, <2>3, <3>1, <3>2 DEF Remembered
  <2>5. CASE j.call.op = "capture"
    <3>1. Goes(t, waits)
      BY <1>4, <1>6, <2>5
    <3>2. use \in Uses
      BY DEF TasksOK, TypeOK
    <3>3. /\ IsSequence(All("status")) /\ All("status") # <<>>
          /\ \A l \in DOMAIN All("status") : All("status")[l].op = "status" /\ All("status")[l].m \in Members
      BY <3>2, AllParts
    <3>4. /\ DOMAIN waits = CallFields /\ waits.todo = All("status") /\ waits.call = j.call
          /\ waits.open = j.open /\ waits.during = j.during
      BY <1>3 DEF CallFields, waits
    <3>5. \A l \in DOMAIN waits.todo : StepOK(waits.todo[l])
      BY <3>3, <3>4 DEF StepOK
    <3>6. WaitingNext(waits)
      BY <1>3, <1>5, <2>4, <2>5, <3>3, <3>4 DEF WaitingNext, Only
    <3> QED
      BY <1>1, <1>3, <1>5, <2>4, <3>1, <3>3, <3>4, <3>5, <3>6, AdvancesNext
  <2>6. CASE j.call.op # "capture"
    <3>1. Ends(t, j, "done", j.plan)
      BY <1>4, <1>6, <2>6
    <3> QED
      BY <1>1, <1>5, <2>4, <3>1, EndsIdle
  <2> QED
    BY <2>5, <2>6
<1>7. CASE j.todo # <<>>
  <2>1. (Remembered => Remembered') /\ (armed' # None => Remembered')
    BY <1>1, <1>4, <1>7, RememberedKept DEF TasksOK
  <2>2. CASE Head(j.todo).op = "raise"
    <3>1. Ends(t, j, "raised", j.plan)
      BY <1>4, <1>7, <2>2
    <3> QED
      BY <1>1, <1>5, <2>1, <3>1, EndsIdle
  <2>3. CASE Head(j.todo).op # "raise"
    <3>1. job' = [Jobs(t, j.call) EXCEPT ![t] = j]
      BY <1>4, <1>7, <2>3 DEF Goes
    <3>2. n > 1
      <4>1. Len(j.todo) > 0
        BY <1>3, <1>7, SequenceParts
      <4> QED
        BY <1>3, <4>1
    <3>3. j.todo[Len(j.todo)] = job[t].todo[Len(job[t].todo)]
      <4>1. n - 1 \in 1..n-1 /\ (n - 1) + 1 = n
        BY <1>3, <3>2
      <4> QED
        BY <1>3, <4>1 DEF n
    <3>4. Arming(j)
      BY <1>2, <1>3, <1>5, <3>3 DEF Arming
    <3>5. NextOK(j)
      BY <1>3, <1>7, <3>4, CallIs DEF NextOK
    <3>6. StaysOff(j)
      BY <1>1, <1>3, JobStaysOff DEF StaysOff
    <3>7. Counted(<<job[t].open, j.open>>, fetch')
      BY <1>1, <1>3, CountedSame
    <3> QED
      BY <1>1, <2>1, <3>1, <3>5, <3>6, <3>7, TaskGoes
  <2> QED
    BY <2>2, <2>3
<1> QED
  BY <1>6, <1>7

LEMMA ReadPlanOK ==
  ASSUME TasksOK, NEW t \in Tasks, NEW c \in use.calls[t], c.op = "read", ReadPlan(c) # None
  PROVE  AllReadable(ReadPlan(c))
<1>1. UseOK(use) /\ c \in Calls(use, {"read"})
  BY GroupAssumption DEF TasksOK, TypeOK, Calls
<1>2. CASE Reused(c)
  <2>1. armed # None /\ ReadPlan(c) = armed.plan
    BY <1>2 DEF ReadPlan
  <2> QED
    BY <2>1 DEF TasksOK, CallsInStep, Remembered
<1>3. CASE ~Reused(c)
  <2>1. ~PlanRefused(WindowOf(c), use.members, OverridesOf(c))
        /\ ReadPlan(c) = Plan(WindowOf(c), use.members, OverridesOf(c))
    BY <1>3 DEF ReadPlan
  <2>2. <<WindowOf(c), OverridesOf(c)>> \in WindowsRead(use, c)
    <3>1. CASE armed = None
      BY <3>1 DEF WindowOf, OverridesOf, WindowsRead
    <3>2. CASE armed # None
      <4>1. ArmedBy(armed.window, armed.overrides)
        BY <3>2 DEF TasksOK, CallsInStep, Remembered
      <4>2. PICK a \in Taken[use] : armed.window = Merged(DefaultWindow, a.fields) /\ armed.overrides = a.overrides
        BY <4>1 DEF ArmedBy
      <4>3. /\ WindowOf(c) = Merged(Merged(DefaultWindow, a.fields), c.fields)
            /\ OverridesOf(c) = IF c.overrides = <<>> THEN a.overrides ELSE c.overrides
        BY <3>2, <4>2 DEF WindowOf, OverridesOf
      <4> QED
        BY <4>3, Zenon DEF WindowsRead
    <3> QED
      BY <3>1, <3>2
  <2>3. \A r \in WindowsRead(use, c) :
          ~PlanRefused(r[1], use.members, r[2]) =>
            \A i \in DOMAIN use.members : Readable(use.members[i], Plan(r[1], use.members, r[2])[i])
    BY <1>1, Zenon DEF UseOK
  <2>4. \A i \in DOMAIN use.members : Readable(use.members[i], Plan(WindowOf(c), use.members, OverridesOf(c))[i])
    BY <2>1, <2>2, <2>3
  <2> QED
    BY <2>1, <2>4 DEF AllReadable, Members, M
<1> QED
  BY <1>2, <1>3

LEMMA BeginReadNext ==
  ASSUME TasksOK, NEW t \in Tasks, NEW c \in use.calls[t], job[t].open = <<>>, use' = use, armed' = armed,
         Remembered => Remembered', armed' # None => Remembered',
         NEW alone, BeginRead(t, c, [Call(c) EXCEPT !.alone = alone])
  PROVE  TasksNext
<1> DEFINE j == [Call(c) EXCEPT !.alone = alone]
           k == [j EXCEPT !.whole = Whole /\ Reused(c)]
<1>1. c.op = "read"
  BY DEF BeginRead
<1>2. \/ Ends(t, j, "refused", None) /\ fetch' = fetch
      \/ ReadPlan(c) # None /\ Goes(t, Reading(k, ReadPlan(c))) /\ fetch' = Started(fetch, DOMAIN fetch)
  BY DEF BeginRead
<1>3. DOMAIN j = CallFields /\ j.call = c
  BY CallIs
<1> HIDE DEF j
<1>4. DOMAIN k = CallFields /\ k.call = c
  BY <1>3 DEF CallFields
<1> HIDE DEF k
<1>5. CASE Ends(t, j, "refused", None) /\ fetch' = fetch
  BY <1>5, EndsIdle
<1>6. CASE ReadPlan(c) # None /\ Goes(t, Reading(k, ReadPlan(c))) /\ fetch' = Started(fetch, DOMAIN fetch)
  <2>1. AllReadable(ReadPlan(c))
    BY <1>1, <1>6, ReadPlanOK
  <2>2. StaysOff(k) /\ k.call.op # "own"
    BY <1>1, <1>4 DEF StaysOff
  <2> QED
    BY <1>4, <1>6, <2>1, <2>2, GroupReadNext
<1> QED
  BY <1>2, <1>5, <1>6

LEMMA BeginOwnReadNext ==
  ASSUME TasksOK, NEW t \in Tasks, NEW c \in use.calls[t], job[t].open = <<>>, use' = use, armed' = armed,
         Remembered => Remembered', armed' # None => Remembered',
         NEW alone, BeginOwnRead(t, c, [Call(c) EXCEPT !.alone = alone])
  PROVE  TasksNext
<1> DEFINE j == [Call(c) EXCEPT !.alone = alone]
           todo == <<[op |-> "heads", m |-> c.m]>>
           k == [j EXCEPT !.open = <<c.m>>, !.todo = todo, !.plan = [i \in Members |-> c.params]]
<1>1. c.op = "own" /\ Goes(t, k) /\ fetch' = Started(fetch, {c.m})
  BY DEF BeginOwnRead
<1>2. use \in Uses
  BY DEF TasksOK, TypeOK
<1>3. c.m \in Members /\ Readable(M(c.m), c.params)
  <2>1. UseOK(use) /\ c \in Calls(use, {"own"})
    BY <1>1, <1>2, GroupAssumption DEF Calls
  <2>2. \A b \in Calls(use, {"own"}) : b.m \in DOMAIN use.members /\ Readable(use.members[b.m], b.params)
    BY <2>1, Zenon DEF UseOK
  <2> QED
    BY <2>1, <2>2 DEF Members, M
<1>4. IsSequence(todo) /\ todo # <<>> /\ Len(todo) = 1 /\ DOMAIN todo = 1..1 /\ todo[1].op = "heads" /\ todo[1].m = c.m
  <2>1. todo \in Seq({[op |-> "heads", m |-> c.m]})
    OBVIOUS
  <2>2. IsSequence(todo)
    BY <2>1, SequenceOver
  <2> QED
    BY <2>2
<1>5. DOMAIN j = CallFields /\ j.call = c
  BY CallIs
<1> HIDE DEF j, todo
<1>6. /\ DOMAIN k = CallFields /\ k.call = c /\ k.open = <<c.m>> /\ k.todo = todo
      /\ k.plan = [i \in Members |-> c.params]
  BY <1>5 DEF CallFields
<1> HIDE DEF k
<1>7. \A l \in DOMAIN k.todo : StepOK(k.todo[l])
  BY <1>3, <1>4, <1>6 DEF StepOK
<1>8. ReadingOwn(k, c.m)
  <2>1. Only(k, {"heads"}) /\ Len(k.todo) = 1 /\ \A l \in DOMAIN k.todo : k.todo[l].m = c.m
    BY <1>4, <1>6 DEF Only
  <2>2. Readable(M(c.m), k.plan[c.m])
    BY <1>3, <1>6
  <2> QED
    BY <1>1, <1>6, <2>1, <2>2 DEF ReadingOwn
<1>9. NextOK(k)
  BY <1>3, <1>4, <1>6, <1>7, <1>8, CallIs DEF NextOK
<1>10. StaysOff(k)
  BY <1>1, <1>6 DEF StaysOff
<1>11. job' = [Jobs(t, k.call) EXCEPT ![t] = k]
  BY <1>1 DEF Goes
<1>12. Counted(<<<<>>, <<>>>>, fetch) /\ fetch \in Counters
  BY CountedSame DEF Counted
<1>13. ASSUME NEW x \in Ids
       PROVE  /\ Times(<<>>, x) \in Nat
              /\ Times(<<c.m>>, x) = Times(<<>>, x) + IF x \in {c.m} THEN 1 ELSE 0
  <2>1. Times(<<>>, x) = 0 /\ Times(<<c.m>>, x) = IF x = c.m THEN 1 ELSE 0
    BY <1>2, <1>3, TimesOpen DEF Ids
  <2> QED
    BY <2>1
<1>14. Counted(<<<<>>, <<c.m>>>>, Started(fetch, {c.m}))
  <2>1. PICK ids : ids = {c.m}
    OBVIOUS
  <2>2. Counted(<<<<>>, <<c.m>>>>, Started(fetch, ids))
    BY <1>12, <1>13, <2>1, CountedStarts
  <2> QED
    BY <2>1, <2>2
<1>15. Counted(<<job[t].open, k.open>>, fetch')
  BY <1>1, <1>6, <1>14
<1> QED
  BY <1>9, <1>10, <1>11, <1>15, TaskGoes

LEMMA BeginNext ==
  ASSUME TasksOK, NEW t \in Tasks, NEW c \in use.calls[t], Begin(t, c)
  PROVE  TasksNext
<1>1. /\ job[t].open = <<>> /\ use' = use /\ armed' = armed
      /\ (Remembered => Remembered') /\ (armed' # None => Remembered')
      /\ \E alone : LET j == [Call(c) EXCEPT !.alone = alone]
                    IN \/ BeginArm(t, c, j)
                       \/ BeginAbort(t, c, j)
                       \/ BeginPoll(t, c, j)
                       \/ BeginRead(t, c, j)
                       \/ BeginOwnRead(t, c, j)
  BY BeginParts, Zenon
<1>2. PICK alone : LET j == [Call(c) EXCEPT !.alone = alone]
                   IN \/ BeginArm(t, c, j)
                      \/ BeginAbort(t, c, j)
                      \/ BeginPoll(t, c, j)
                      \/ BeginRead(t, c, j)
                      \/ BeginOwnRead(t, c, j)
  BY <1>1
<1> QED
  BY <1>1, <1>2, BeginArmNext, BeginAbortNext, BeginPollNext, BeginReadNext, BeginOwnReadNext, Zenon
-----------------------------------------------------------------------------
(* The steps of a read.                                                    *)

LEMMA RegionsAreOK ==
  ASSUME TypeOK, NEW m \in Members, NEW p, Readable(M(m), p)
  PROVE  RegionsOK(Regions(m, p))
<1>1. MemberOK(M(m)) /\ CoreOK(m, core[m]) /\ host[m].pre_lines \in Nat
  BY MembersOK DEF TypeOK
<1>2. CASE M(m).rle
  <2> DEFINE a == host[m].pre_lines
             b == core[m].end
  <2>1. a \in Nat /\ b \in Int
    BY <1>1 DEF CoreOK, MemberOK
  <2>2. Regions(m, p) = RleRegions(a, b)
    BY <1>2 DEF Regions
  <2> HIDE DEF a, b
  <2>3. CASE a = 0
    <3>1. RleRegions(a, b) = <<<<a, b - a>>>>
      BY <2>3 DEF RleRegions
    <3> QED
      BY <2>1, <2>2, <3>1 DEF RegionsOK
  <2>4. CASE a # 0
    <3>1. PICK x, y : x = <<0, a>> /\ y = <<a, b - a>>
      OBVIOUS
    <3>2. RleRegions(a, b) = <<x>> \o <<y>>
      BY <2>4, <3>1 DEF RleRegions
    <3>3. /\ Len(<<x>> \o <<y>>) = 2
          /\ \A k \in 1..2 : (<<x>> \o <<y>>)[k] = IF k = 1 THEN x ELSE y
      <4>1. <<x>> \in Seq({x}) /\ <<y>> \in Seq({y})
        OBVIOUS
      <4>2. IsSequence(<<x>>) /\ IsSequence(<<y>>)
        BY <4>1, SequenceOver
      <4>3. Len(<<x>>) = 1 /\ Len(<<y>>) = 1 /\ <<x>>[1] = x /\ <<y>>[1] = y
        OBVIOUS
      <4>4. /\ Len(<<x>> \o <<y>>) = Len(<<x>>) + Len(<<y>>)
            /\ \A k \in 1..Len(<<x>>)+Len(<<y>>) :
                 (<<x>> \o <<y>>)[k] = IF k <= Len(<<x>>) THEN <<x>>[k] ELSE <<y>>[k - Len(<<x>>)]
        BY <4>2, JoinParts
      <4>5. /\ Len(<<x>> \o <<y>>) = 1 + 1
            /\ \A k \in 1..1+1 : (<<x>> \o <<y>>)[k] = IF k <= 1 THEN <<x>>[k] ELSE <<y>>[k - 1]
        BY <4>3, <4>4, Zenon
      <4>6. PICK r : r = <<x>> \o <<y>>
        OBVIOUS
      <4>7. Len(r) = 1 + 1 /\ \A k \in 1..1+1 : r[k] = IF k <= 1 THEN <<x>>[k] ELSE <<y>>[k - 1]
        BY <4>5, <4>6, Zenon
      <4>8. Len(r) = 2 /\ \A k \in 1..2 : r[k] = IF k = 1 THEN x ELSE y
        BY <4>3, <4>7
      <4> QED
        BY <4>6, <4>8, Zenon
    <3>4. x[1] \in Int /\ x[2] \in Int /\ y[1] \in Int /\ y[2] \in Int
      BY <2>1, <3>1
    <3>5. PICK r : r = <<x>> \o <<y>>
      OBVIOUS
    <3>6. Len(r) = 2 /\ \A k \in 1..2 : r[k] = IF k = 1 THEN x ELSE y
      BY <3>3, <3>5, Zenon
    <3>7. RegionsOK(r)
      BY <3>4, <3>6 DEF RegionsOK
    <3> QED
      BY <2>2, <3>2, <3>5, <3>7, Zenon
  <2> QED
    BY <2>3, <2>4
<1>3. CASE ~M(m).rle
  <2>1. p.count \in Nat /\ p.count > 0 /\ p.windows \in 0..M(m).max_windows /\ M(m).max_windows \in Nat
    BY <1>1, <1>3 DEF Readable, MemberOK
  <2>2. \A w \in 1..p.windows : core[m].kept[w].head \in Int
    <3>1. KeptOK(m, core[m].kept) /\ Windows(m) = M(m).max_windows
      BY <1>1, <1>3 DEF CoreOK, Windows
    <3>2. 1..p.windows \subseteq 1..M(m).max_windows
      BY <2>1
    <3> QED
      BY <3>1, <3>2 DEF KeptOK
  <2>3. DOMAIN Heads(m, p.windows) = 1..p.windows
        /\ \A w \in 1..p.windows : Heads(m, p.windows)[w] = core[m].kept[w].head
    BY DEF Heads
  <2> DEFINE r == [w \in 1..p.windows |-> <<Slot(core[m].kept[w].head, p.count), p.count>>]
  <2>4. Regions(m, p) = r
    BY <1>3, <2>3 DEF Regions, RawRegions
  <2>5. \A w \in 1..p.windows : Slot(core[m].kept[w].head, p.count) \in Int
    <3> SUFFICES ASSUME NEW w \in 1..p.windows PROVE Slot(core[m].kept[w].head, p.count) \in Int
      OBVIOUS
    <3>1. core[m].kept[w].head \div p.count \in Int
      BY <2>1, <2>2, Division
    <3> QED
      BY <2>1, <3>1 DEF Slot
  <2>6. r \in [1..p.windows -> Int \X Nat] /\ p.windows \in Nat
    BY <2>1, <2>5
  <2>7. Len(r) = p.windows
    <3> HIDE DEF r
    <3> QED
      BY <2>6, FunctionIsSequence
  <2>8. \A w \in 1..p.windows : r[w][1] \in Int /\ r[w][2] \in Int
    BY <2>1, <2>5
  <2> HIDE DEF r
  <2> QED
    BY <2>4, <2>6, <2>7, <2>8 DEF RegionsOK
<1> QED
  BY <1>2, <1>3

LEMMA FrontOfAppend ==
  ASSUME NEW s, IsSequence(s), NEW e
  PROVE  Front(Append(s, e)) = s
<1> DEFINE S == {s[k] : k \in DOMAIN s} \union {e}
           a == Append(s, e)
           n == Len(s)
           f == SubSeq(a, 1, n)
<1>1. s \in Seq(S) /\ n \in Nat /\ DOMAIN s = 1..n /\ \A k \in 1..n : s[k] \in S
  BY SeqMonotonic, SequenceParts DEF IsSequence
<1>2. Len(a) = n + 1 /\ \A k \in 1..n : a[k] = s[k]
  BY AppendParts
<1> HIDE DEF S, a, n
<1>3. Front(a) = f
  <2>1. Len(a) - 1 = n
    BY <1>1, <1>2
  <2> QED
    BY <2>1 DEF Front
<1>4. /\ f \in Seq(S) /\ Len(f) = IF 1 <= n THEN n - 1 + 1 ELSE 0
      /\ \A k \in 1..n-1+1 : f[k] = a[1 + k - 1]
  BY <1>1, <1>2, 1 \in Int, n \in Int, SubSeqProperties
<1> HIDE DEF f
<1>5. Len(f) = n
  BY <1>1, <1>4
<1>6. \A k \in 1..Len(f) : f[k] = s[k]
  <2> SUFFICES ASSUME NEW k \in 1..n PROVE f[k] = s[k]
    BY <1>5
  <2>1. k \in 1..n-1+1 /\ 1 + k - 1 = k
    BY <1>1
  <2> QED
    BY <1>2, <1>4, <2>1
<1>7. f = s
  BY <1>1, <1>4, <1>5, <1>6, SeqEqual DEF n
<1> QED
  BY <1>3, <1>7 DEF a

LEMMA FrontParts ==
  ASSUME use \in Uses, NEW m \in Members
  PROVE  Front(Append(GroupOpen, m)) = GroupOpen /\ Front(<<m>>) = <<>>
<1>1. Front(Append(GroupOpen, m)) = GroupOpen
  BY GroupOpenParts, FrontOfAppend
<1>2. <<>> \in Seq({})
  OBVIOUS
<1>3. IsSequence(<<>>)
  BY <1>2, SequenceOver
<1>4. Front(Append(<<>>, m)) = <<>>
  BY <1>3, FrontOfAppend
<1>5. Append(<<>>, m) = <<m>>
  OBVIOUS
<1> QED
  BY <1>1, <1>4, <1>5

(* The readback of a member begins: it is what the call is then inside of. *)
LEMMA InsideOK ==
  ASSUME use \in Uses, NEW k, DOMAIN k = CallFields, k.open = GroupOpen, IsSequence(k.todo), k.todo # <<>>,
         \A l \in DOMAIN k.todo : StepOK(k.todo[l]), Only(k, {"heads"}), k.call.op # "own",
         AllReadable(k.plan), NEW o, NEW fs, Counted(<<o, GroupOpen>>, fs),
         \A x \in Ids : Times(o, x) \in Nat, fetch \in Counters
  PROVE  /\ NextOK(Inside(k)) /\ Inside(k).call = k.call /\ Inside(k).during = k.during
         /\ Counted(<<o, Inside(k).open>>, Begins(fs, k))
<1> DEFINE m == Head(k.todo).m
           i == Inside(k)
<1>1. Head(k.todo) = k.todo[1] /\ 1 \in DOMAIN k.todo
  <2>1. Head(k.todo) = k.todo[1] /\ DOMAIN k.todo = 1..Len(k.todo) /\ Len(k.todo) \in Nat /\ Len(k.todo) > 0
    BY TailParts
  <2> QED
    BY <2>1
<1>2. Head(k.todo).op = "heads" /\ m \in Members
  BY <1>1 DEF Only, StepOK
<1>3. i = [k EXCEPT !.open = Append(GroupOpen, m)] /\ Begins(fs, k) = Started(fs, {m})
  BY <1>2 DEF Inside, Begins
<1> HIDE DEF i
<1>4. /\ DOMAIN i = CallFields /\ i.open = Append(GroupOpen, m) /\ i.todo = k.todo /\ i.call = k.call
      /\ i.plan = k.plan /\ i.during = k.during
  BY <1>3 DEF CallFields
<1>5. Transferring(i, m)
  <2>1. i.todo[1].m = m
    BY <1>1, <1>4
  <2>2. \A l \in DOMAIN i.todo : i.todo[l].op = "heads"
    BY <1>4 DEF Only
  <2>3. Only(i, {"heads", "burst"}) /\ First(i, "burst") /\ \A l \in DOMAIN i.todo : i.todo[l].op = "burst" => i.todo[l].m = m
    BY <2>2 DEF Only, First
  <2> QED
    BY <1>4, <2>1, <2>3 DEF Transferring
<1> HIDE DEF m
<1>6. NextOK(i)
  BY <1>2, <1>4, <1>5, CallIs DEF NextOK
<1>7. ASSUME NEW x \in Ids
      PROVE  /\ Times(o, x) \in Nat /\ Times(GroupOpen, x) \in Nat
             /\ Times(Append(GroupOpen, m), x) = Times(GroupOpen, x) + IF x \in {m} THEN 1 ELSE 0
  <2>1. Times(GroupOpen, x) = 1 /\ Times(Append(GroupOpen, m), x) = IF x = m THEN 2 ELSE 1
    BY <1>2, TimesOpen DEF Ids
  <2> QED
    BY <2>1
<1>8. PICK ids : ids = {m}
  OBVIOUS
<1>9. Counted(<<o, Append(GroupOpen, m)>>, Started(fs, ids))
  BY <1>7, <1>8, CountedStarts
<1> QED
  BY <1>3, <1>4, <1>6, <1>8, <1>9 DEF i

LEMMA ReadSizeNext ==
  ASSUME TasksOK, NEW t \in Tasks, ReadSize(t)
  PROVE  TasksNext
<1> DEFINE m == Head(job[t].todo).m
           n == Len(job[t].todo)
           words == PlannedWords(M(m), Regions(m, job[t].plan[m]))
           j == [Advanced(t) EXCEPT !.words = Advanced(t).words + words]
<1>1. /\ Busy(t) /\ Head(job[t].todo).op = "size" /\ use' = use /\ armed' = armed
      /\ Goes(t, Inside(j))
      /\ fetch' = IF Head(j.todo).op # "size" THEN Begins(Expected(fetch, 0, j.words), j) ELSE fetch
  BY DEF ReadSize, Now
<1>2. Sizing(job[t])
  BY <1>1, Phase
<1>3. use \in Uses /\ TypeOK
  BY DEF TasksOK, TypeOK
<1>4. /\ DOMAIN Advanced(t) = CallFields /\ Advanced(t).todo = Tail(job[t].todo)
      /\ Advanced(t).call = job[t].call /\ Advanced(t).open = job[t].open /\ Advanced(t).plan = job[t].plan
      /\ Advanced(t).words = job[t].words /\ Advanced(t).during = job[t].during
      /\ IsSequence(Tail(job[t].todo)) /\ Len(Tail(job[t].todo)) = n - 1
      /\ DOMAIN Tail(job[t].todo) = 1..n-1 /\ DOMAIN job[t].todo = 1..n /\ n \in Nat /\ n > 0
      /\ Head(job[t].todo) = job[t].todo[1]
      /\ \A k \in 1..n-1 : Tail(job[t].todo)[k] = job[t].todo[k + 1] /\ StepOK(Tail(job[t].todo)[k])
  BY <1>1, AdvancedParts
<1>5. m \in Members
  BY <1>1, HeadStep DEF TasksOK, StepOK
<1>6. words \in Nat
  <2>1. MemberOK(M(m)) /\ Readable(M(m), job[t].plan[m])
    BY <1>2, <1>3, <1>5, MembersOK DEF Sizing, AllReadable
  <2>2. RegionsOK(Regions(m, job[t].plan[m]))
    BY <1>3, <1>5, <2>1, RegionsAreOK
  <2> QED
    BY <2>1, <2>2, PlannedWordsAreNat
<1> HIDE DEF m, words
<1>7. /\ DOMAIN j = CallFields /\ j.todo = Tail(job[t].todo) /\ j.call = job[t].call /\ j.open = job[t].open
      /\ j.plan = job[t].plan /\ j.words = job[t].words + words /\ j.during = job[t].during
  BY <1>4 DEF CallFields
<1> HIDE DEF j
<1>8. /\ job[t].open = GroupOpen /\ Only(job[t], {"size", "heads"}) /\ First(job[t], "size")
      /\ job[t].todo[1].op = "size" /\ job[t].todo[n].op = "heads"
      /\ job[t].call.op # "own" /\ AllReadable(job[t].plan) /\ job[t].words \in Nat
  BY <1>2 DEF Sizing
<1> HIDE DEF n
<1>9. n > 1
  <2>1. n # 1
    BY <1>8
  <2> QED
    BY <1>4, <2>1
<1>10. 1 \in 1..n-1 /\ 1 + 1 \in 1..n /\ n - 1 \in 1..n-1 /\ (n - 1) + 1 = n
  BY <1>4, <1>9
<1>11. j.todo # <<>> /\ Head(j.todo) = j.todo[1]
  <2>1. Len(j.todo) = n - 1
    BY <1>4, <1>7, Zenon
  <2>2. Len(j.todo) # 0
    BY <1>4, <1>9, <2>1
  <2>3. j.todo # <<>>
    BY <2>2
  <2>4. IsSequence(j.todo)
    BY <1>4, <1>7, Zenon
  <2> QED
    BY <2>3, <2>4, TailParts
<1>12. j.words \in Nat
  BY <1>6, <1>7, <1>8
<1>13. (Remembered => Remembered') /\ (armed' # None => Remembered')
  BY <1>1, RememberedKept DEF TasksOK
<1>14. StaysOff(job[t])
  BY <1>1, JobStaysOff
<1>15. \A k \in 1..n-1 : k + 1 \in 1..n /\ j.todo[k] = job[t].todo[k + 1]
  BY <1>4, <1>7
<1>16. Only(j, {"size", "heads"})
  <2> SUFFICES ASSUME NEW k \in 1..n-1 PROVE j.todo[k].op \in {"size", "heads"}
    BY <1>4, <1>7 DEF Only
  <2> QED
    BY <1>4, <1>8, <1>15 DEF Only
<1>17. CASE Head(j.todo).op = "size"
  <2>1. Inside(j) = j
    BY <1>17 DEF Inside
  <2>2. First(j, "size")
    <3> SUFFICES ASSUME NEW k \in 1..n-1, j.todo[k].op = "size", NEW l \in 1..k PROVE j.todo[l].op = "size"
      BY <1>4, <1>7 DEF First
    <3>1. l \in 1..n-1 /\ l + 1 \in 1..k + 1 /\ k + 1 \in DOMAIN job[t].todo /\ job[t].todo[k + 1].op = "size"
      BY <1>4, <1>15
    <3>2. job[t].todo[l + 1].op = "size"
      BY <1>8, <3>1 DEF First
    <3> QED
      BY <1>15, <3>1, <3>2
  <2>3. j.todo[Len(j.todo)].op = "heads"
    <3>1. Len(j.todo) = n - 1
      BY <1>4, <1>7, Zenon
    <3>2. j.todo[n - 1] = job[t].todo[n]
      BY <1>10, <1>15
    <3> QED
      BY <1>8, <3>1, <3>2
  <2>4. Sizing(j)
    BY <1>7, <1>8, <1>11, <1>12, <1>16, <1>17, <2>2, <2>3 DEF Sizing
  <2>5. NextOK(j)
    BY <1>4, <1>7, <1>11, <2>4, CallIs DEF NextOK
  <2>6. job' = [Jobs(t, j.call) EXCEPT ![t] = j]
    BY <1>1, <2>1 DEF Goes
  <2>7. Counted(<<job[t].open, j.open>>, fetch')
    BY <1>1, <1>7, <1>17, CountedSame
  <2>8. StaysOff(j)
    BY <1>7, <1>14 DEF StaysOff
  <2> QED
    BY <1>1, <1>13, <2>5, <2>6, <2>7, <2>8, TaskGoes
<1>18. CASE Head(j.todo).op # "size"
  <2>1. \A k \in 1..n-1 : j.todo[k].op = "heads"
    <3> SUFFICES ASSUME NEW k \in 1..n-1, j.todo[k].op # "heads" PROVE FALSE
      OBVIOUS
    <3>1. j.todo[k].op = "size"
      BY <1>4, <1>7, <1>16 DEF Only
    <3>2. k + 1 \in DOMAIN job[t].todo /\ job[t].todo[k + 1].op = "size" /\ 1 + 1 \in 1..k + 1
      BY <1>4, <1>15, <3>1
    <3>3. job[t].todo[1 + 1].op = "size"
      BY <1>8, <3>2 DEF First
    <3> QED
      BY <1>10, <1>11, <1>15, <1>18, <3>3
  <2>2. Only(j, {"heads"})
    BY <1>4, <1>7, <2>1 DEF Only
  <2> DEFINE fs == Expected(fetch, 0, j.words)
  <2>3. Counted(<<job[t].open, GroupOpen>>, fs)
    <3>1. Counted(<<job[t].open, job[t].open>>, fetch) /\ 0 \in Ids
      BY CountedSame DEF Ids
    <3> QED
      BY <1>8, <1>12, <3>1, CountedExpects
  <2>4. \A l \in DOMAIN j.todo : StepOK(j.todo[l])
    BY <1>4, <1>7
  <2>5. (\A x \in Ids : Times(job[t].open, x) \in Nat) /\ fetch \in Counters
    BY OpenCounts, CountedSame DEF Counted, TasksOK
  <2> HIDE DEF fs
  <2>6. /\ NextOK(Inside(j)) /\ Inside(j).call = j.call /\ Inside(j).during = j.during
        /\ Counted(<<job[t].open, Inside(j).open>>, Begins(fs, j))
    BY <1>3, <1>4, <1>7, <1>8, <1>11, <2>2, <2>3, <2>4, <2>5, InsideOK
  <2>7. job' = [Jobs(t, Inside(j).call) EXCEPT ![t] = Inside(j)]
    BY <1>1 DEF Goes
  <2>8. fetch' = Begins(fs, j)
    BY <1>1, <1>18 DEF fs
  <2>9. StaysOff(Inside(j))
    BY <1>7, <1>14, <2>6 DEF StaysOff
  <2> QED
    BY <1>1, <1>13, <2>6, <2>7, <2>8, <2>9, TaskGoes
<1> QED
  BY <1>17, <1>18

(* A member's readback is over, with only the others of the group, or      *)
(* nothing, left.                                                          *)
Finishing(j, m) ==
  \/ j.open = Append(GroupOpen, m) /\ Only(j, {"heads"}) /\ j.call.op # "own" /\ AllReadable(j.plan)
  \/ j.open = <<m>> /\ j.todo = <<>>

LEMMA MemberDoneNext ==
  ASSUME TasksOK, NEW t \in Tasks, Busy(t), use' = use, armed' = armed, NEW m \in Members, NEW j, NEW fs,
         DOMAIN j = CallFields, StaysOff(j), IsSequence(j.todo), \A l \in DOMAIN j.todo : StepOK(j.todo[l]),
         Finishing(j, m), Counted(<<job[t].open, j.open>>, fs), MemberDone(t, j, m, fs)
  PROVE  TasksNext
<1> DEFINE shots == [w \in DOMAIN j.got[Len(j.got)].shots |->
                       IF Shots(m, j.plan[m])[w] = j.got[Len(j.got)].shots[w]
                       THEN Shots(m, j.plan[m])[w] ELSE None]
           k == [j EXCEPT !.open = Front(j.open), !.got[Len(j.got)].shots = shots]
           closed == Closed(fs, <<m>>)
<1>1. use \in Uses
  BY DEF TasksOK, TypeOK
<1>2. \/ j.todo # <<>> /\ Goes(t, Inside(k)) /\ fetch' = Begins(closed, k)
      \/ j.todo = <<>> /\ (\E value : Ends(t, k, "done", value)) /\ fetch' = Closed(closed, k.open)
  BY Zenon DEF MemberDone
<1>3. (Remembered => Remembered') /\ (armed' # None => Remembered')
  BY RememberedKept DEF TasksOK
<1>4. /\ DOMAIN k = CallFields /\ k.open = Front(j.open) /\ k.todo = j.todo /\ k.call = j.call /\ k.plan = j.plan
      /\ k.during = j.during
  BY DEF CallFields
<1> HIDE DEF k, closed
<1>5. (\A x \in Ids : Times(job[t].open, x) \in Nat) /\ fetch \in Counters
  BY OpenCounts, CountedSame DEF Counted, TasksOK
<1>6. PICK one : one = <<m>>
  OBVIOUS
<1>7. IsSequence(one) /\ \A x \in Ids : Times(one, x) = IF x = m THEN 1 ELSE 0
  <2>1. <<m>> \in Seq({m})
    OBVIOUS
  <2>2. IsSequence(<<m>>)
    BY <2>1, SequenceOver
  <2> QED
    BY <1>1, <1>6, <2>2, TimesOpen DEF Ids
<1>8. \A x \in Ids : Times(GroupOpen, x) = 1 /\ Times(Append(GroupOpen, m), x) = IF x = m THEN 2 ELSE 1
  BY <1>1, TimesOpen DEF Ids
<1>9. closed = Closed(fs, one)
  BY <1>6 DEF closed
<1>10. ASSUME Counted(<<job[t].open, <<>>>>, fetch'), NEW value, Ends(t, k, "done", value) PROVE TasksNext
  <2>1. job' = [Jobs(t, k.call) EXCEPT ![t] = Idle]
    BY <1>10 DEF Ends
  <2>2. Counted(<<job[t].open, Idle.open>>, fetch')
    BY <1>10 DEF Idle
  <2> QED
    BY <1>3, <2>1, <2>2, TaskGoes
<1>11. CASE j.open = Append(GroupOpen, m) /\ Only(j, {"heads"}) /\ j.call.op # "own" /\ AllReadable(j.plan)
  <2>1. k.open = GroupOpen
    BY <1>1, <1>4, <1>11, FrontParts
  <2>2. Counted(<<job[t].open, GroupOpen>>, closed)
    <3>1. Counted(<<job[t].open, Append(GroupOpen, m)>>, fs)
      BY <1>11
    <3>2. ASSUME NEW x \in Ids
          PROVE  /\ Times(job[t].open, x) \in Nat /\ Times(Append(GroupOpen, m), x) \in Nat
                 /\ Times(GroupOpen, x) = Times(Append(GroupOpen, m), x) - Times(one, x)
      BY <1>5, <1>7, <1>8
    <3> QED
      BY <1>5, <1>7, <1>9, <3>1, <3>2, CountedCloses
  <2>3. CASE j.todo # <<>> /\ Goes(t, Inside(k)) /\ fetch' = Begins(closed, k)
    <3>1. Only(k, {"heads"}) /\ k.call.op # "own" /\ AllReadable(k.plan) /\ IsSequence(k.todo) /\ k.todo # <<>>
      BY <1>4, <1>11, <2>3 DEF Only
    <3>2. \A l \in DOMAIN k.todo : StepOK(k.todo[l])
      BY <1>4
    <3>3. /\ NextOK(Inside(k)) /\ Inside(k).call = k.call /\ Inside(k).during = k.during
          /\ Counted(<<job[t].open, Inside(k).open>>, Begins(closed, k))
      BY <1>1, <1>4, <1>5, <2>1, <2>2, <3>1, <3>2, InsideOK
    <3>4. job' = [Jobs(t, Inside(k).call) EXCEPT ![t] = Inside(k)]
      BY <2>3 DEF Goes
    <3>5. StaysOff(Inside(k))
      BY <1>4, <3>3 DEF StaysOff
    <3>6. Counted(<<job[t].open, Inside(k).open>>, fetch')
      BY <2>3, <3>3
    <3> QED
      BY <1>3, <3>3, <3>4, <3>5, <3>6, TaskGoes
  <2>4. CASE j.todo = <<>> /\ (\E value : Ends(t, k, "done", value)) /\ fetch' = Closed(closed, k.open)
    <3>1. IsSequence(GroupOpen)
      BY <1>1, GroupOpenParts
    <3>2. ASSUME NEW x \in Ids
          PROVE  /\ Times(job[t].open, x) \in Nat /\ Times(GroupOpen, x) \in Nat
                 /\ Times(<<>>, x) = Times(GroupOpen, x) - Times(GroupOpen, x)
      BY <1>5, <1>8, TimesNone
    <3>3. Counted(<<job[t].open, <<>>>>, Closed(closed, GroupOpen))
      BY <1>5, <2>2, <3>1, <3>2, CountedCloses
    <3> QED
      BY <1>10, <2>1, <2>4, <3>3
  <2> QED
    BY <1>2, <2>3, <2>4
<1>12. CASE j.open = <<m>> /\ j.todo = <<>>
  <2>1. k.open = <<>>
    BY <1>1, <1>4, <1>12, FrontParts
  <2>2. Counted(<<job[t].open, <<>>>>, closed)
    <3>1. Counted(<<job[t].open, one>>, fs)
      BY <1>6, <1>12
    <3>2. ASSUME NEW x \in Ids
          PROVE  /\ Times(job[t].open, x) \in Nat /\ Times(one, x) \in Nat
                 /\ Times(<<>>, x) = Times(one, x) - Times(one, x)
      BY <1>5, <1>7, TimesNone
    <3> QED
      BY <1>5, <1>7, <1>9, <3>1, <3>2, CountedCloses
  <2>3. Counted(<<job[t].open, <<>>>>, Closed(closed, <<>>))
    <3>1. <<>> \in Seq({})
      OBVIOUS
    <3>2. IsSequence(<<>>)
      BY <3>1, SequenceOver, Zenon
    <3>3. ASSUME NEW x \in Ids
          PROVE  /\ Times(job[t].open, x) \in Nat /\ Times(<<>>, x) \in Nat
                 /\ Times(<<>>, x) = Times(<<>>, x) - Times(<<>>, x)
      BY <1>5, TimesNone
    <3> QED
      BY <1>5, <2>2, <3>2, <3>3, CountedCloses
  <2> QED
    BY <1>2, <1>10, <1>12, <2>1, <2>3
<1> QED
  BY <1>11, <1>12 DEF Finishing

LEMMA ReadBurstNext ==
  ASSUME TasksOK, NEW t \in Tasks, ReadBurst(t)
  PROVE  TasksNext
<1> DEFINE s == Head(job[t].todo)
           n == Len(job[t].todo)
           j == Advanced(t)
           moved == [fetch EXCEPT ![s.m].done = fetch[s.m].done + s.words]
<1>1. /\ Busy(t) /\ s.op = "burst" /\ use' = use /\ armed' = armed
      /\ IF j.todo = <<>> \/ Head(j.todo).op # "burst" THEN MemberDone(t, j, s.m, moved)
         ELSE Goes(t, j) /\ fetch' = moved
  BY DEF ReadBurst, Now
<1>2. PICK m \in Members : Transferring(job[t], m) \/ ReadingOwn(job[t], m)
  BY <1>1, Phase
<1>3. /\ DOMAIN j = CallFields /\ j.todo = Tail(job[t].todo)
      /\ j.call = job[t].call /\ j.open = job[t].open /\ j.plan = job[t].plan
      /\ j.words = job[t].words /\ j.during = job[t].during
      /\ IsSequence(Tail(job[t].todo)) /\ Len(Tail(job[t].todo)) = n - 1
      /\ DOMAIN Tail(job[t].todo) = 1..n-1 /\ DOMAIN job[t].todo = 1..n /\ n \in Nat /\ n > 0
      /\ s = job[t].todo[1]
      /\ \A k \in 1..n-1 : Tail(job[t].todo)[k] = job[t].todo[k + 1] /\ StepOK(Tail(job[t].todo)[k])
  BY <1>1, AdvancedParts, Zenon
<1>4. s.m = m /\ s.words \in Nat
  <2>1. StepOK(s)
    BY <1>1, HeadStep DEF TasksOK
  <2>2. 1 \in DOMAIN job[t].todo
    BY <1>3
  <2> QED
    BY <1>1, <1>2, <1>3, <2>1, <2>2, Zenon DEF StepOK, Transferring, ReadingOwn
<1>5. Counted(<<job[t].open, j.open>>, moved)
  <2>1. Counted(<<job[t].open, job[t].open>>, fetch) /\ s.m \in Ids
    BY <1>4, CountedSame DEF Ids
  <2> HIDE DEF j, s
  <2> QED
    BY <1>3, <1>4, <2>1, CountedExpects
<1>6. (Remembered => Remembered') /\ (armed' # None => Remembered')
  BY <1>1, RememberedKept DEF TasksOK
<1>7. StaysOff(j)
  BY <1>1, <1>3, JobStaysOff DEF StaysOff
<1> HIDE DEF j, n, moved
<1>8. \A k \in 1..n-1 : k + 1 \in 1..n /\ j.todo[k] = job[t].todo[k + 1]
  BY <1>3
<1>9. IsSequence(j.todo) /\ DOMAIN j.todo = 1..n-1 /\ \A l \in 1..n-1 : StepOK(j.todo[l])
  BY <1>3
<1>10. j.todo # <<>> => Head(j.todo) = j.todo[1] /\ n > 1
  <2> SUFFICES ASSUME j.todo # <<>> PROVE Head(j.todo) = j.todo[1] /\ n > 1
    OBVIOUS
  <2>1. Head(j.todo) = j.todo[1] /\ Len(j.todo) > 0 /\ DOMAIN j.todo = 1..Len(j.todo) /\ Len(j.todo) \in Nat
    BY <1>9, TailParts
  <2>2. 1 \in 1..Len(j.todo)
    BY <2>1
  <2>3. 1 \in 1..n-1
    BY <1>9, <2>1, <2>2, Zenon
  <2>4. n > 1
    BY <1>3, <2>3
  <2> QED
    BY <2>1, <2>4
<1>11. Transferring(job[t], m) =>
         /\ j.open = Append(GroupOpen, m) /\ Only(j, {"heads", "burst"}) /\ First(j, "burst")
         /\ \A k \in 1..n-1 : j.todo[k].op = "burst" => j.todo[k].m = m
         /\ j.call.op # "own" /\ AllReadable(j.plan)
  <2> SUFFICES ASSUME Transferring(job[t], m)
               PROVE  /\ j.open = Append(GroupOpen, m) /\ Only(j, {"heads", "burst"}) /\ First(j, "burst")
                      /\ \A k \in 1..n-1 : j.todo[k].op = "burst" => j.todo[k].m = m
                      /\ j.call.op # "own" /\ AllReadable(j.plan)
    OBVIOUS
  <2>1. /\ job[t].open = Append(GroupOpen, m) /\ Only(job[t], {"heads", "burst"}) /\ First(job[t], "burst")
        /\ \A k \in 1..n : job[t].todo[k].op = "burst" => job[t].todo[k].m = m
        /\ job[t].call.op # "own" /\ AllReadable(job[t].plan)
    BY <1>3 DEF Transferring
  <2>2. First(j, "burst")
    <3> SUFFICES ASSUME NEW k \in 1..n-1, j.todo[k].op = "burst", NEW l \in 1..k PROVE j.todo[l].op = "burst"
      BY <1>9 DEF First
    <3>1. l \in 1..n-1 /\ l + 1 \in 1..k + 1 /\ k + 1 \in DOMAIN job[t].todo /\ job[t].todo[k + 1].op = "burst"
      BY <1>3, <1>8
    <3>2. job[t].todo[l + 1].op = "burst"
      BY <2>1, <3>1 DEF First
    <3> QED
      BY <1>8, <3>1, <3>2
  <2>3. Only(j, {"heads", "burst"})
    BY <1>1, <2>1, OnlyRest DEF j
  <2> QED
    BY <1>3, <1>8, <2>1, <2>2, <2>3
<1>12. ReadingOwn(job[t], m) =>
         /\ j.open = <<m>> /\ Only(j, {"burst"}) /\ \A k \in 1..n-1 : j.todo[k].m = m
         /\ j.call.op = "own" /\ Readable(M(m), j.plan[m])
  <2> SUFFICES ASSUME ReadingOwn(job[t], m)
               PROVE  /\ j.open = <<m>> /\ Only(j, {"burst"}) /\ \A k \in 1..n-1 : j.todo[k].m = m
                      /\ j.call.op = "own" /\ Readable(M(m), j.plan[m])
    OBVIOUS
  <2>1. Only(job[t], {"burst"})
    <3>1. 1 \in DOMAIN job[t].todo
      BY <1>3
    <3>2. ~Only(job[t], {"heads"})
      BY <1>1, <1>3, <3>1 DEF Only
    <3> QED
      BY <3>2 DEF ReadingOwn
  <2>2. Only(j, {"burst"})
    BY <1>1, <2>1, OnlyRest DEF j
  <2>3. \A k \in 1..n-1 : j.todo[k].m = m
    BY <1>3, <1>8 DEF ReadingOwn
  <2> QED
    BY <1>3, <2>2, <2>3 DEF ReadingOwn
<1>13. CASE j.todo = <<>> \/ Head(j.todo).op # "burst"
  <2>1. Finishing(j, m)
    <3>1. CASE Transferring(job[t], m)
      <4>1. Only(j, {"heads"})
        <5> SUFFICES ASSUME NEW k \in 1..n-1, j.todo[k].op # "heads" PROVE FALSE
          BY <1>9 DEF Only
        <5>1. j.todo[k].op = "burst" /\ 1 \in 1..k /\ 1 \in 1..n-1
          <6>1. j.todo[k].op = "burst"
            BY <1>9, <1>11, <3>1 DEF Only
          <6>2. 1 \in 1..k /\ 1 \in 1..n-1
            BY <1>3
          <6> QED
            BY <6>1, <6>2
        <5>2. j.todo[1].op = "burst"
          BY <1>9, <1>11, <3>1, <5>1 DEF First
        <5>3. j.todo # <<>>
          <6>1. k \in DOMAIN j.todo
            BY <1>9, Zenon
          <6>2. DOMAIN <<>> = {}
            OBVIOUS
          <6> QED
            BY <6>1, <6>2, Zenon
        <5> QED
          BY <1>10, <1>13, <5>2, <5>3
      <4> QED
        BY <1>11, <3>1, <4>1 DEF Finishing
    <3>2. CASE ReadingOwn(job[t], m)
      <4>1. j.todo = <<>>
        <5> SUFFICES ASSUME j.todo # <<>> PROVE FALSE
          OBVIOUS
        <5>1. Head(j.todo) = j.todo[1] /\ 1 \in 1..n-1
          BY <1>3, <1>10
        <5>2. j.todo[1].op = "burst"
          BY <1>9, <1>12, <3>2, <5>1 DEF Only
        <5> QED
          BY <1>13, <5>1, <5>2
      <4> QED
        BY <1>12, <3>2, <4>1 DEF Finishing
    <3> QED
      BY <1>2, <3>1, <3>2
  <2>2. MemberDone(t, j, m, moved)
    BY <1>1, <1>4, <1>13
  <2>3. \A l \in DOMAIN j.todo : StepOK(j.todo[l])
    BY <1>9
  <2> QED
    BY <1>1, <1>3, <1>5, <1>7, <1>9, <2>1, <2>2, <2>3, MemberDoneNext
<1>14. CASE ~(j.todo = <<>> \/ Head(j.todo).op # "burst")
  <2>1. j.todo[1].op = "burst" /\ 1 \in 1..n-1
    BY <1>3, <1>10, <1>14
  <2>2. Transferring(job[t], m) => Transferring(j, m)
    BY <1>9, <1>11, <2>1 DEF Transferring
  <2>3. ReadingOwn(job[t], m) => ReadingOwn(j, m)
    BY <1>9, <1>12 DEF ReadingOwn
  <2>4. \E i \in Members : Transferring(j, i) \/ ReadingOwn(j, i)
    BY <1>2, <2>2, <2>3
  <2>5. NextOK(j)
    BY <1>3, <1>9, <1>14, <2>4, CallIs DEF NextOK
  <2>6. job' = [Jobs(t, j.call) EXCEPT ![t] = j] /\ fetch' = moved
    BY <1>1, <1>14 DEF Goes
  <2> QED
    BY <1>1, <1>5, <1>6, <1>7, <2>5, <2>6, TaskGoes
<1> QED
  BY <1>13, <1>14

(* The step that reads the heads of member m and starts its b bursts: what *)
(* of the call is left, j, and the words it announced.                     *)
HeadsRead(t, m, words, b, j) ==
  LET n == Len(job[t].todo)
  IN /\ Busy(t) /\ Head(job[t].todo).op = "heads" /\ Head(job[t].todo) = job[t].todo[1] /\ job[t].todo[1].m = m
     /\ n \in Nat /\ n > 0 /\ DOMAIN job[t].todo = 1..n
     /\ UNCHANGED <<use, core, regs, seen, ticks, fires, host, armed, orderly>>
     /\ Transferring(job[t], m) \/ ReadingOwn(job[t], m)
     /\ DOMAIN j = CallFields /\ j.call = job[t].call /\ j.open = job[t].open
     /\ j.plan = job[t].plan /\ j.during = job[t].during /\ j.alone = job[t].alone
     /\ j.whole = job[t].whole /\ j.fresh = job[t].fresh
     /\ \E trace : j.got = Append(job[t].got, [m |-> m, shots |-> Shots(m, job[t].plan[m]), trace |-> trace])
     /\ IsSequence(j.todo) /\ Len(j.todo) = b + (n - 1) /\ DOMAIN j.todo = 1..b+(n-1)
     /\ \A k \in 1..b : /\ k \in 1..b+(n-1) /\ j.todo[k].op = "burst" /\ j.todo[k].m = m
                        /\ j.todo[k].words \in Nat
     /\ \A k \in 1..b+(n-1) : ~(k <= b) => k - b \in 1..n-1 /\ j.todo[k] = job[t].todo[(k - b) + 1]
     /\ \A k \in DOMAIN j.todo : StepOK(j.todo[k])
     /\ IF b = 0 THEN MemberDone(t, j, m, Expected(fetch, m, words))
        ELSE Goes(t, j) /\ fetch' = Expected(fetch, m, words)

LEMMA HeadsStep ==
  ASSUME TasksOK, NEW t \in Tasks, ReadHeads(t)
  PROVE  \E m \in Members, words \in Nat, b \in Nat : \E j : HeadsRead(t, m, words, b, j)
<1> DEFINE m == Head(job[t].todo).m
           n == Len(job[t].todo)
           p == job[t].plan[m]
           words == PlannedWords(M(m), Regions(m, p))
           bursts == PlannedBursts(M(m), Regions(m, p), use.max_burst)
           steps == [k \in DOMAIN bursts |-> [op |-> "burst", m |-> m, words |-> bursts[k]]]
           rest == Tail(job[t].todo)
           trace == TraceOf(m, p)
           got == Append(Advanced(t).got, [m |-> m, shots |-> Shots(m, p), trace |-> trace])
           j == [Advanced(t) EXCEPT !.got = got, !.todo = steps \o Advanced(t).todo]
           expected == Expected(fetch, m, words)
<1>1. /\ Busy(t) /\ Head(job[t].todo).op = "heads"
      /\ UNCHANGED <<use, core, regs, seen, ticks, fires, host, armed, orderly>>
      /\ IF bursts = <<>> THEN MemberDone(t, j, m, expected) ELSE Goes(t, j) /\ fetch' = expected
  BY Zenon DEF ReadHeads, Now
<1>2. use \in Uses /\ TypeOK
  BY DEF TasksOK, TypeOK
<1>3. /\ DOMAIN Advanced(t) = CallFields /\ Advanced(t).todo = rest
      /\ Advanced(t).call = job[t].call /\ Advanced(t).open = job[t].open /\ Advanced(t).plan = job[t].plan
      /\ Advanced(t).during = job[t].during /\ Advanced(t).got = job[t].got /\ DOMAIN job[t] = CallFields
      /\ IsSequence(rest) /\ Len(rest) = n - 1
      /\ DOMAIN rest = 1..n-1 /\ DOMAIN job[t].todo = 1..n /\ n \in Nat /\ n > 0
      /\ Head(job[t].todo) = job[t].todo[1]
      /\ \A k \in 1..n-1 : rest[k] = job[t].todo[k + 1] /\ StepOK(rest[k])
  BY <1>1, AdvancedParts, Zenon
<1>4. m \in Members
  BY <1>1, HeadStep, Zenon DEF TasksOK, StepOK
<1>5. PICK i \in Members : Transferring(job[t], i) \/ ReadingOwn(job[t], i)
  BY <1>1, Phase, Zenon
<1>6. i = m
  <2>1. 1 \in DOMAIN job[t].todo
    BY <1>3
  <2> QED
    BY <1>3, <1>5, <2>1 DEF Transferring, ReadingOwn
<1>7. MemberOK(M(m)) /\ Readable(M(m), p) /\ use.max_burst \in Nat \ {0}
  BY <1>2, <1>4, <1>5, <1>6, MembersOK DEF Transferring, ReadingOwn, AllReadable
<1>8. RegionsOK(Regions(m, p))
  BY <1>2, <1>4, <1>7, RegionsAreOK
<1>9. words \in Nat /\ bursts \in Seq(Nat)
  BY <1>7, <1>8, PlannedWordsAreNat, PlannedBurstsAreNat
<1> DEFINE b == Len(bursts)
<1> HIDE DEF m, n, p, words, bursts, rest, trace, got
<1>10. b \in Nat /\ DOMAIN bursts = 1..b /\ (bursts = <<>> => b = 0) /\ (bursts # <<>> => b > 0)
       /\ \A k \in 1..b : bursts[k] \in Nat
  BY <1>9, LenProperties, EmptySeq, ElementOfSeq
<1> HIDE DEF b
<1>11. /\ IsSequence(steps) /\ Len(steps) = b /\ DOMAIN steps = 1..b
       /\ \A k \in 1..b : steps[k].op = "burst" /\ steps[k].m = m /\ steps[k].words = bursts[k]
  <2> DEFINE E == {steps[k] : k \in 1..b}
  <2>1. \A k \in 1..b : steps[k].op = "burst" /\ steps[k].m = m /\ steps[k].words = bursts[k]
    BY <1>10
  <2>2. steps \in [1..b -> E]
    BY <1>10
  <2> HIDE DEF steps, E
  <2> QED
    BY <1>10, <2>1, <2>2, FunctionIsSequence
<1> HIDE DEF steps
<1>12. /\ DOMAIN j = CallFields /\ j.todo = steps \o rest /\ j.call = job[t].call /\ j.open = job[t].open
       /\ j.plan = job[t].plan /\ j.during = job[t].during /\ j.alone = job[t].alone
       /\ j.whole = job[t].whole /\ j.fresh = job[t].fresh /\ j.got = got
  <2>1. Advanced(t).alone = job[t].alone /\ Advanced(t).whole = job[t].whole /\ Advanced(t).fresh = job[t].fresh
    BY <1>3 DEF Advanced, CallFields
  <2> QED
    BY <1>3, <2>1 DEF CallFields
<1> HIDE DEF j, expected
<1>13. /\ IsSequence(steps \o rest) /\ Len(steps \o rest) = b + (n - 1) /\ DOMAIN (steps \o rest) = 1..b+(n-1)
       /\ \A k \in 1..b+(n-1) : (steps \o rest)[k] = IF k <= b THEN steps[k] ELSE rest[k - b]
  <2>1. IsSequence(steps) /\ Len(steps) = b /\ IsSequence(rest) /\ Len(rest) = n - 1
    BY <1>3, <1>11
  <2>2. /\ IsSequence(steps \o rest) /\ Len(steps \o rest) = Len(steps) + Len(rest)
        /\ DOMAIN (steps \o rest) = 1..Len(steps)+Len(rest)
        /\ \A k \in 1..Len(steps)+Len(rest) :
             (steps \o rest)[k] = IF k <= Len(steps) THEN steps[k] ELSE rest[k - Len(steps)]
    BY <2>1, JoinParts
  <2> DEFINE Joined(x, y) ==
               /\ IsSequence(steps \o rest) /\ Len(steps \o rest) = x + y
               /\ DOMAIN (steps \o rest) = 1..x+y
               /\ \A k \in 1..x+y : (steps \o rest)[k] = IF k <= x THEN steps[k] ELSE rest[k - x]
  <2>3. Joined(Len(steps), Len(rest))
    BY <2>2, Zenon
  <2> HIDE DEF Joined
  <2>4. Joined(b, n - 1)
    BY <2>1, <2>3, Zenon
  <2> QED
    BY <2>4, Zenon DEF Joined
<1>14. /\ IsSequence(j.todo) /\ Len(j.todo) = b + (n - 1) /\ DOMAIN j.todo = 1..b+(n-1)
       /\ \A k \in 1..b+(n-1) : j.todo[k] = IF k <= b THEN steps[k] ELSE rest[k - b]
  BY <1>12, <1>13, Zenon
<1>15. /\ \A k \in 1..b : /\ k \in 1..b+(n-1) /\ j.todo[k].op = "burst" /\ j.todo[k].m = m
                          /\ j.todo[k].words \in Nat
       /\ \A k \in 1..b+(n-1) : ~(k <= b) => k - b \in 1..n-1 /\ j.todo[k] = job[t].todo[(k - b) + 1]
  <2>1. ASSUME NEW k \in 1..b
        PROVE  k \in 1..b+(n-1) /\ j.todo[k].op = "burst" /\ j.todo[k].m = m /\ j.todo[k].words \in Nat
    <3>1. k \in 1..b+(n-1) /\ k <= b
      BY <1>3, <1>10
    <3>2. j.todo[k] = steps[k]
      BY <1>14, <3>1
    <3> QED
      BY <1>10, <1>11, <3>1, <3>2
  <2>2. ASSUME NEW k \in 1..b+(n-1), ~(k <= b)
        PROVE  k - b \in 1..n-1 /\ j.todo[k] = job[t].todo[(k - b) + 1]
    <3>1. k - b \in 1..n-1
      BY <1>3, <1>10, <2>2
    <3>2. j.todo[k] = rest[k - b]
      BY <1>14, <2>2
    <3> QED
      BY <1>3, <3>1, <3>2
  <2> QED
    BY <2>1, <2>2
<1>16. \A k \in DOMAIN j.todo : StepOK(j.todo[k])
  <2> SUFFICES ASSUME NEW k \in 1..b+(n-1) PROVE StepOK(j.todo[k])
    BY <1>14
  <2>1. CASE k <= b
    <3>1. k \in 1..b
      BY <1>3, <1>10, <2>1
    <3> QED
      BY <1>4, <1>10, <1>15, <3>1 DEF StepOK
  <2>2. CASE ~(k <= b)
    <3>1. k - b \in 1..n-1 /\ j.todo[k] = rest[k - b]
      BY <1>14, <1>15, <2>2
    <3> QED
      BY <1>3, <3>1
  <2> QED
    BY <2>1, <2>2
<1>17. IF b = 0 THEN MemberDone(t, j, m, expected) ELSE Goes(t, j) /\ fetch' = expected
  BY <1>1, <1>10
<1>18. job[t].todo[1].m = m /\ Head(job[t].todo) = job[t].todo[1]
  BY <1>3 DEF m
<1>19. Transferring(job[t], m) \/ ReadingOwn(job[t], m)
  BY <1>5, <1>6
<1>20. \E x : j.got = Append(job[t].got, [m |-> m, shots |-> Shots(m, job[t].plan[m]), trace |-> x])
  BY <1>3, <1>12 DEF got, p
<1>21. HeadsRead(t, m, words, b, j)
  BY <1>1, <1>3, <1>12, <1>14, <1>15, <1>16, <1>17, <1>18, <1>19, <1>20, Zenon DEF HeadsRead, expected, n
<1> QED
  BY <1>4, <1>9, <1>10, <1>21

LEMMA ReadHeadsNext ==
  ASSUME TasksOK, NEW t \in Tasks, ReadHeads(t)
  PROVE  TasksNext
<1> DEFINE n == Len(job[t].todo)
<1>1. PICK m \in Members, words \in Nat, b \in Nat : \E j : HeadsRead(t, m, words, b, j)
  BY HeadsStep
<1>2. PICK j : HeadsRead(t, m, words, b, j)
  BY <1>1
<1> DEFINE expected == Expected(fetch, m, words)
<1>3. /\ Busy(t) /\ Head(job[t].todo).op = "heads" /\ use' = use /\ armed' = armed
      /\ n \in Nat /\ n > 0 /\ DOMAIN job[t].todo = 1..n /\ Head(job[t].todo) = job[t].todo[1]
      /\ Transferring(job[t], m) \/ ReadingOwn(job[t], m)
  BY <1>2 DEF HeadsRead
<1>4. /\ DOMAIN j = CallFields /\ j.call = job[t].call /\ j.open = job[t].open
      /\ j.plan = job[t].plan /\ j.during = job[t].during
  BY <1>2 DEF HeadsRead
<1>5. IF b = 0 THEN MemberDone(t, j, m, expected) ELSE Goes(t, j) /\ fetch' = expected
  BY <1>2 DEF HeadsRead
<1>6. IsSequence(j.todo) /\ Len(j.todo) = b + (n - 1) /\ DOMAIN j.todo = 1..b+(n-1)
  BY <1>2 DEF HeadsRead
<1>7. /\ \A k \in 1..b : k \in 1..b+(n-1) /\ j.todo[k].op = "burst" /\ j.todo[k].m = m
      /\ \A k \in 1..b+(n-1) : ~(k <= b) => k - b \in 1..n-1 /\ j.todo[k] = job[t].todo[(k - b) + 1]
      /\ \A k \in DOMAIN j.todo : StepOK(j.todo[k])
  BY <1>2 DEF HeadsRead
<1> HIDE DEF n, expected
<1>8. Counted(<<job[t].open, j.open>>, expected)
  <2>1. Counted(<<job[t].open, job[t].open>>, fetch) /\ m \in Ids
    BY <1>1, CountedSame DEF Ids
  <2> QED
    BY <1>1, <1>4, <2>1, CountedExpects DEF expected
<1>9. (Remembered => Remembered') /\ (armed' # None => Remembered')
  BY <1>3, RememberedKept DEF TasksOK
<1>10. StaysOff(j)
  BY <1>3, <1>4, JobStaysOff DEF StaysOff
(* What is left of the call once the member is read.                       *)
<1>11. Transferring(job[t], m) =>
         /\ j.open = Append(GroupOpen, m) /\ j.call.op # "own" /\ AllReadable(j.plan)
         /\ \A k \in 1..n : job[t].todo[k].op = "heads"
  <2> SUFFICES ASSUME Transferring(job[t], m)
               PROVE  /\ j.open = Append(GroupOpen, m) /\ j.call.op # "own" /\ AllReadable(j.plan)
                      /\ \A k \in 1..n : job[t].todo[k].op = "heads"
    OBVIOUS
  <2>1. /\ job[t].open = Append(GroupOpen, m) /\ Only(job[t], {"heads", "burst"}) /\ First(job[t], "burst")
        /\ job[t].call.op # "own" /\ AllReadable(job[t].plan)
    BY DEF Transferring
  <2>2. \A k \in 1..n : job[t].todo[k].op = "heads"
    <3> SUFFICES ASSUME NEW k \in 1..n, job[t].todo[k].op # "heads" PROVE FALSE
      OBVIOUS
    <3>1. k \in DOMAIN job[t].todo /\ 1 \in 1..k
      BY <1>3
    <3>2. job[t].todo[k].op = "burst"
      BY <2>1, <3>1 DEF Only
    <3>3. job[t].todo[1].op = "burst"
      BY <2>1, <3>1, <3>2 DEF First
    <3> QED
      BY <1>3, <3>3
  <2> QED
    BY <1>4, <2>1, <2>2
<1>12. ReadingOwn(job[t], m) => j.open = <<m>> /\ j.call.op = "own" /\ Readable(M(m), j.plan[m]) /\ n = 1
  <2> SUFFICES ASSUME ReadingOwn(job[t], m)
               PROVE  j.open = <<m>> /\ j.call.op = "own" /\ Readable(M(m), j.plan[m]) /\ n = 1
    OBVIOUS
  <2>1. n = 1
    <3>1. 1 \in DOMAIN job[t].todo
      BY <1>3
    <3>2. ~Only(job[t], {"burst"})
      BY <1>3, <3>1 DEF Only
    <3> QED
      BY <3>2 DEF ReadingOwn, n
  <2> QED
    BY <1>4, <2>1 DEF ReadingOwn
<1>13. CASE b = 0
  <2>1. b = 0 /\ 1..b+(n-1) = 1..n-1
    BY <1>1, <1>3, <1>13
  <2>2. Finishing(j, m)
    <3>1. CASE Transferring(job[t], m)
      <4>1. Only(j, {"heads"})
        <5> SUFFICES ASSUME NEW k \in 1..b+(n-1) PROVE j.todo[k].op = "heads"
          BY <1>6 DEF Only
        <5>1. ~(k <= b) /\ (k - b) + 1 \in 1..n
          BY <1>3, <2>1
        <5> QED
          BY <1>7, <1>11, <3>1, <5>1
      <4> QED
        BY <1>11, <3>1, <4>1 DEF Finishing
    <3>2. CASE ReadingOwn(job[t], m)
      <4>1. Len(j.todo) = 0
        BY <1>1, <1>6, <1>12, <2>1, <3>2
      <4>2. j.todo = <<>>
        <5>1. j.todo # <<>> => Len(j.todo) > 0
          BY <1>6, SequenceParts
        <5> QED
          BY <4>1, <5>1
      <4> QED
        BY <1>12, <3>2, <4>2 DEF Finishing
    <3> QED
      BY <1>3, <3>1, <3>2
  <2>3. MemberDone(t, j, m, expected)
    BY <1>5, <1>13
  <2>4. IsSequence(j.todo)
    BY <1>6
  <2> QED
    BY <1>1, <1>3, <1>4, <1>7, <1>8, <1>10, <2>2, <2>3, <2>4, MemberDoneNext
<1>14. CASE b # 0
  <2>1. b > 0 /\ 1 \in 1..b
    BY <1>1, <1>14
  <2>2. j.todo[1].op = "burst" /\ j.todo[1].m = m
    BY <1>7, <2>1
  <2>3. j.todo # <<>>
    <3>1. Len(j.todo) # 0
      BY <1>1, <1>3, <1>6, <2>1
    <3> QED
      BY <3>1
  <2>4. Transferring(job[t], m) => Transferring(j, m)
    <3> SUFFICES ASSUME Transferring(job[t], m) PROVE Transferring(j, m)
      OBVIOUS
    <3>1. ASSUME NEW k \in 1..b+(n-1), ~(k <= b) PROVE j.todo[k].op = "heads"
      <4>1. k - b \in 1..n-1 /\ j.todo[k] = job[t].todo[(k - b) + 1]
        BY <1>7, <3>1
      <4>2. (k - b) + 1 \in 1..n
        BY <1>3, <4>1
      <4> QED
        BY <1>11, <4>1, <4>2
    <3>2. ASSUME NEW k \in 1..b+(n-1), k <= b PROVE j.todo[k].op = "burst" /\ j.todo[k].m = m
      <4>1. k \in 1..b
        BY <1>1, <1>3, <3>2
      <4> QED
        BY <1>7, <4>1
    <3>3. Only(j, {"heads", "burst"})
      BY <1>6, <3>1, <3>2 DEF Only
    <3>4. First(j, "burst")
      <4> SUFFICES ASSUME NEW k \in 1..b+(n-1), j.todo[k].op = "burst", NEW l \in 1..k PROVE j.todo[l].op = "burst"
        BY <1>6 DEF First
      <4>1. k <= b
        BY <3>1
      <4>2. l \in 1..b
        BY <1>1, <1>3, <4>1
      <4> QED
        BY <1>7, <4>2
    <3>5. \A k \in DOMAIN j.todo : j.todo[k].op = "burst" => j.todo[k].m = m
      BY <1>6, <3>1, <3>2
    <3> QED
      BY <1>11, <2>2, <3>3, <3>4, <3>5 DEF Transferring
  <2>5. ReadingOwn(job[t], m) => ReadingOwn(j, m)
    <3> SUFFICES ASSUME ReadingOwn(job[t], m) PROVE ReadingOwn(j, m)
      OBVIOUS
    <3>1. \A k \in DOMAIN j.todo : j.todo[k].op = "burst" /\ j.todo[k].m = m
      <4> SUFFICES ASSUME NEW k \in 1..b+(n-1) PROVE j.todo[k].op = "burst" /\ j.todo[k].m = m
        BY <1>6
      <4>1. k \in 1..b
        BY <1>1, <1>12
      <4> QED
        BY <1>7, <4>1
    <3> QED
      BY <1>12, <3>1 DEF ReadingOwn, Only
  <2>6. \E l \in Members : Transferring(j, l) \/ ReadingOwn(j, l)
    BY <1>1, <1>3, <2>4, <2>5
  <2>7. NextOK(j)
    BY <1>4, <1>6, <1>7, <2>3, <2>6, CallIs DEF NextOK
  <2>8. job' = [Jobs(t, j.call) EXCEPT ![t] = j] /\ fetch' = expected
    BY <1>5, <1>14 DEF Goes
  <2>9. Counted(<<job[t].open, j.open>>, fetch')
    BY <1>8, <2>8
  <2> QED
    BY <1>3, <1>9, <1>10, <2>7, <2>8, <2>9, TaskGoes
<1> QED
  BY <1>13, <1>14

(* Whatever a client does next leaves the calls in step and the counters   *)
(* balanced.                                                               *)
LEMMA ClientTasks ==
  ASSUME TasksOK, NEW t \in Tasks, Client(t)
  PROVE  TasksNext
<1>1. CASE \E c \in use.calls[t] : Begin(t, c)
  BY <1>1, BeginNext
<1>2. CASE Configure(t) \/ ArmMember(t) \/ ReadStatus(t) \/ AbortMember(t) \/ PollMember(t)
  BY <1>2, ConfigureNext, ArmMemberNext, ReadStatusNext, AbortMemberNext, PollMemberNext
<1>3. CASE ReadSize(t) \/ ReadHeads(t) \/ ReadBurst(t) \/ Fail(t)
  BY <1>3, ReadSizeNext, ReadHeadsNext, ReadBurstNext, FailNext
<1> QED
  BY <1>1, <1>2, <1>3 DEF Client

LEMMA GatewareTasks ==
  ASSUME TasksOK, use' = use, armed' = armed, job' = job, fetch' = fetch
  PROVE  TasksNext
<1>1. armed' # None => Remembered'
  BY RememberedKept DEF TasksOK
<1>2. ASSUME NEW t \in Tasks, Busy(t)
      PROVE  Busy(t)' /\ CallOK(job[t])'
  <2>1. CallOK(job[t]) /\ job[t].todo # <<>> /\ Remembered => Remembered'
    BY <1>2, RememberedKept DEF TasksOK, CallsInStep, Busy
  <2>2. NextOK(job[t])
    BY <1>2, RememberedKept DEF TasksOK, CallsInStep, CallOK, NextOK, Waiting, WaitingNext, Busy
  <2> QED
    BY <2>2, NextHolds
<1>3. CallsInStep'
  BY <1>1, <1>2 DEF TasksOK, CallsInStep, Busy, Idle
<1>4. FetchNext
  BY DEF TasksOK, TypeOK, FetchNext
<1>5. FetchBalanced'
  BY DEF TasksOK, FetchBalanced, Open
<1>6. PollStaysOffTheLink'
  BY DEF TasksOK, PollStaysOffTheLink, Busy
<1> QED
  BY <1>3, <1>4, <1>5, <1>6 DEF TasksNext
-----------------------------------------------------------------------------
(* The types hold whatever happens.                                        *)

LEMMA ClientTypes ==
  ASSUME TasksOK, NEW t \in Tasks, Client(t), Latched
  PROVE  use' = use /\ CoresNext /\ RegsNext /\ LinesNext /\ HostNext
<1>1. TypeOK /\ CallsInStep
  BY DEF TasksOK
<1>2. /\ core' = core => CoresNext
      /\ regs' = regs => RegsNext
      /\ seen' = seen /\ fires' = fires /\ ticks' = ticks => LinesNext
      /\ host' = host => HostNext
  BY <1>1, TypeKept
<1>3. CASE \E c \in use.calls[t] : Begin(t, c)
  BY <1>2, <1>3 DEF Begin
<1>4. CASE Configure(t)
  <2>1. RegsNext /\ HostNext
    BY <1>1, <1>4, ConfigureTypes
  <2> QED
    BY <1>2, <1>4, <2>1, Zenon DEF Configure
<1>5. CASE ArmMember(t)
  <2>1. CoresNext
    BY <1>1, <1>5, ArmTypes
  <2> QED
    BY <1>2, <1>5, <2>1, Zenon DEF ArmMember
<1>6. CASE ReadStatus(t)
  BY <1>2, <1>6, Zenon DEF ReadStatus
<1>7. CASE AbortMember(t)
  <2>1. CoresNext
    BY <1>1, <1>7, AbortTypes
  <2> QED
    BY <1>2, <1>7, <2>1, Zenon DEF AbortMember
<1>8. CASE PollMember(t)
  <2>1. HostNext
    BY <1>1, <1>8, PollTypes
  <2> QED
    BY <1>2, <1>8, <2>1, Zenon DEF PollMember
<1>9. CASE ReadSize(t) \/ ReadHeads(t) \/ ReadBurst(t) \/ Fail(t)
  BY <1>2, <1>9, Zenon DEF ReadSize, ReadHeads, ReadBurst, Fail
<1> QED
  BY <1>3, <1>4, <1>5, <1>6, <1>7, <1>8, <1>9 DEF Client

LEMMA GatewareTypes ==
  ASSUME TypeOK, Gateware, Latched
  PROVE  /\ use' = use /\ armed' = armed /\ job' = job /\ fetch' = fetch
         /\ CoresNext /\ RegsNext /\ LinesNext /\ HostNext
<1>1. /\ core' = core => CoresNext
      /\ regs' = regs => RegsNext
      /\ seen' = seen /\ fires' = fires /\ ticks' = ticks => LinesNext
      /\ host' = host => HostNext
  BY TypeKept
<1>2. CASE Fire
  BY <1>1, <1>2, FireTypes DEF Fire
<1>3. ASSUME NEW i \in Members, Fill(i) \/ See(i) \/ Tick(i) \/ CompleteRaw(i) \/ CompleteRle(i)
      PROVE  /\ use' = use /\ armed' = armed /\ job' = job /\ fetch' = fetch
             /\ CoresNext /\ RegsNext /\ LinesNext /\ HostNext
  <2>1. CASE Fill(i)
    <3>1. fires' = fires /\ CoresNext
      BY <2>1, FillTypes DEF Fill
    <3> QED
      BY <1>1, <2>1, <3>1 DEF Fill
  <2>2. CASE See(i)
    BY <1>1, <2>2, SeeTypes DEF See
  <2>3. CASE Tick(i)
    BY <1>1, <2>3, TickTypes DEF Tick
  <2>4. CASE CompleteRaw(i)
    BY <1>1, <2>4, CompleteRawTypes, Zenon DEF CompleteRaw
  <2>5. CASE CompleteRle(i)
    BY <1>1, <2>5, CompleteRleTypes, Zenon DEF CompleteRle
  <2> QED
    BY <1>3, <2>1, <2>2, <2>3, <2>4, <2>5
<1> QED
  BY <1>2, <1>3 DEF Gateware

LEMMA TasksKept ==
  ASSUME TasksOK, Next
  PROVE  TasksOK' /\ use' = use
<1>1. Latched /\ (Gateware \/ \E t \in Tasks : Client(t))
  BY DEF Next
<1>2. TypeOK
  BY DEF TasksOK
<1>3. TasksNext /\ use' = use /\ CoresNext /\ RegsNext /\ LinesNext /\ HostNext
  <2>1. CASE Gateware
    BY <1>1, <1>2, <2>1, GatewareTypes, GatewareTasks
  <2>2. ASSUME NEW t \in Tasks, Client(t)
        PROVE  TasksNext /\ use' = use /\ CoresNext /\ RegsNext /\ LinesNext /\ HostNext
    BY <1>1, <2>2, ClientTasks, ClientTypes
  <2> QED
    BY <1>1, <2>1, <2>2
<1>4. TypeOK'
  BY <1>2, <1>3, TypeNext DEF TasksNext
<1> QED
  BY <1>3, <1>4 DEF TasksNext, TasksOK
-----------------------------------------------------------------------------
(* The lines of the trigger.                                               *)

(* What LinesInStep says of a core, whatever its line tells.               *)
Fits(i, c) ==
  /\ c.mode = "capturing" => c.triggered
  /\ i \in OneWindow[use] => /\ c.mode # "idle" => c.window = 0
                             /\ c.mode = "armed" => ~c.triggered
Pending == \E i \in Members : ticks[i] # <<>> \/ Stale(i)
HeldOff == \E i \in Members : HoldsOff(i)

LEMMA LinesParts ==
  ASSUME LinesOK
  PROVE  /\ \A i \in Members : M(i).crossed => i \in OneWindow[use]
         /\ \A i \in Members : M(i).crossed \in BOOLEAN /\ M(i).rle \in BOOLEAN /\ CoreOK(i, core[i])
         /\ \A i \in Members : ~M(i).crossed => ticks[i] = <<>>
         /\ fired => Enabled
         /\ \A i \in Members : Fits(i, core[i])
         /\ \A i \in Members : M(i).crossed /\ seen[i] /\ core[i].mode = "armed" => core[i].full
         /\ Pending => fired \/ HeldOff
<1>1. use \in Uses
  BY DEF LinesOK, TypeOK
<1>2. \A i \in Members : M(i).crossed => i \in OneWindow[use]
  BY DEF LinesOK, LinesHold, Members, M
<1>3. \A i \in Members : M(i).crossed \in BOOLEAN /\ M(i).rle \in BOOLEAN /\ CoreOK(i, core[i])
  BY <1>1, MembersOK DEF MemberOK, LinesOK, TypeOK
<1>4. OneWindow[use] \subseteq Members
  BY <1>1 DEF OneWindow, Members
<1>5. /\ \A i \in Members : ~M(i).crossed => ticks[i] = <<>>
      /\ fired => Enabled
      /\ \A i \in Members : M(i).crossed /\ seen[i] /\ core[i].mode = "armed" => core[i].full
  BY DEF LinesOK, LinesInStep
<1>6. \A i \in Members : Fits(i, core[i])
  <2> SUFFICES ASSUME NEW i \in Members PROVE Fits(i, core[i])
    OBVIOUS
  <2>1. LinesInStep
    BY DEF LinesOK
  <2>2. core[i].mode = "capturing" => core[i].triggered
    BY <2>1, Zenon DEF LinesInStep
  <2>3. i \in OneWindow[use] => (core[i].mode # "idle" => core[i].window = 0)
    BY <2>1, Zenon DEF LinesInStep
  <2>4. i \in OneWindow[use] => (core[i].mode = "armed" => ~core[i].triggered)
    BY <2>1, Zenon DEF LinesInStep
  <2> QED
    BY <2>2, <2>3, <2>4, Zenon DEF Fits
<1>7. Pending => fired \/ HeldOff
  BY DEF LinesOK, LinesInStep, Pending, HeldOff
<1> QED
  BY <1>2, <1>3, <1>5, <1>6, <1>7

(* On the trigger's own clock, a member that has one window.               *)
LEMMA OneUncrossed ==
  ASSUME LinesOK, NEW i \in Members, M(i).crossed, NEW k \in Members, ~M(k).crossed
  PROVE  \E j \in Members : ~M(j).crossed /\ j \in OneWindow[use]
BY DEF LinesOK, LinesHold, Members, M

LEMMA LinesFollow ==
  ASSUME use' = use, Latched,
         \A i \in Members : ~M(i).crossed => ticks'[i] = <<>>,
         OneWindow[use] \subseteq Members,
         \A i \in Members : Fits(i, core'[i]),
         \A i \in Members : M(i).crossed /\ seen'[i] /\ core'[i].mode = "armed" => core'[i].full,
         Pending' => fired' \/ HeldOff'
  PROVE  LinesInStep'
<1>1. fired' => Enabled'
  BY DEF Latched
<1>2. Members' = Members /\ \A i : M(i)' = M(i)
  BY DEF Members, M
<1> QED
  BY <1>1, <1>2 DEF LinesInStep, Fits, Pending, HeldOff

(* The trigger stays as it was, and so does what holds it off.             *)
LEMMA LinesQuiet ==
  ASSUME LinesOK, use' = use, Latched, fires' = fires,
         Enabled => Enabled',
         Pending' => Pending,
         \A i \in Members : HoldsOff(i) => HoldsOff(i)'
  PROVE  Pending' => fired' \/ HeldOff'
<1>1. Members' = Members
  BY DEF Members
<1>2. fired => fired'
  BY LinesParts DEF Latched
<1> QED
  BY <1>1, <1>2, LinesParts DEF HeldOff

LEMMA ArmFits ==
  ASSUME NEW i \in Members, NEW c, CoreOK(i, c), Fits(i, c)
  PROVE  /\ Fits(i, Arm(i, c))
         /\ c.mode # "idle" => Arm(i, c) = c
         /\ c.mode = "idle" => Arm(i, c).mode = "armed"
<1> DEFINE d == Arm(i, c)
<1>1. CASE c.mode # "idle"
  BY <1>1 DEF Arm
<1>2. CASE c.mode = "idle"
  <2>1. d.mode = "armed" /\ d.window = 0 /\ ~d.triggered
    BY <1>2 DEF Arm, CoreOK
  <2> QED
    BY <1>2, <2>1 DEF Fits
<1> QED
  BY <1>1, <1>2

LEMMA AbortFits ==
  ASSUME NEW i \in Members, NEW c, CoreOK(i, c)
  PROVE  Fits(i, Abort(c)) /\ Abort(c).mode = "idle" /\ (Abort(c).triggered <=> c.triggered)
<1>1. Abort(c).mode = "idle" /\ (Abort(c).triggered <=> c.triggered)
  BY DEF Abort, CoreOK
<1> QED
  BY <1>1 DEF Fits

LEMMA AcceptFits ==
  ASSUME NEW i \in Members, NEW c, CoreOK(i, c), Fits(i, c), NEW shot
  PROVE  /\ Fits(i, Accept(i, c, shot))
         /\ Accept(i, c, shot) = c \/ (c.mode = "armed" /\ Accept(i, c, shot).mode = "capturing")
         /\ Ready(c) => Accept(i, c, shot).mode = "capturing"
<1> DEFINE d == Accept(i, c, shot)
<1>1. CASE M(i).rle /\ c.mode = "armed"
  <2>1. d.mode = "capturing" /\ d.triggered /\ d.window = c.window
    BY <1>1 DEF Accept, CoreOK
  <2> QED
    BY <1>1, <2>1 DEF Fits, Ready
<1>2. CASE ~M(i).rle /\ c.mode = "armed" /\ c.full
  <2>1. d.mode = "capturing" /\ d.triggered /\ d.window = c.window
    BY <1>2 DEF Accept, CoreOK
  <2> QED
    BY <1>2, <2>1 DEF Fits, Ready
<1>3. CASE ~(M(i).rle /\ c.mode = "armed") /\ ~(~M(i).rle /\ c.mode = "armed" /\ c.full)
  <2>1. d = c /\ ~Ready(c)
    BY <1>3 DEF Accept, Ready
  <2> QED
    BY <2>1
<1> QED
  BY <1>1, <1>2, <1>3

(* One core moves, its line and the ticks as they were.                    *)
LEMMA CoreMoves ==
  ASSUME LinesOK, NEW i \in Members, NEW c, core' = [core EXCEPT ![i] = c], use' = use, seen' = seen
  PROVE  /\ \A k \in Members : core'[k] = IF k = i THEN c ELSE core[k]
         /\ Fits(i, c) => \A k \in Members : Fits(k, core'[k])
         /\ (M(i).crossed /\ seen[i] /\ c.mode = "armed" => c.full) =>
              \A k \in Members : M(k).crossed /\ seen'[k] /\ core'[k].mode = "armed" => core'[k].full
         /\ (~M(i).crossed /\ Ready(core[i]) => Ready(c)) /\ Enabled => Enabled'
         /\ (HoldsOff(i) => c.mode # "armed") => \A k \in Members : HoldsOff(k) => HoldsOff(k)'
         /\ \A k \in Members : k # i => (Stale(k)' <=> Stale(k))
         /\ Stale(i)' <=> M(i).crossed /\ seen[i] /\ c.mode # "armed" /\ c.triggered
<1>1. DOMAIN core = Members /\ Members' = Members /\ \A k : M(k)' = M(k)
  BY DEF LinesOK, TypeOK, Members, M
<1>2. \A k \in Members : core'[k] = IF k = i THEN c ELSE core[k]
  BY <1>1
<1>3. Fits(i, c) => \A k \in Members : Fits(k, core'[k])
  BY <1>2, LinesParts
<1>4. (M(i).crossed /\ seen[i] /\ c.mode = "armed" => c.full) =>
        \A k \in Members : M(k).crossed /\ seen'[k] /\ core'[k].mode = "armed" => core'[k].full
  BY <1>2, LinesParts
<1>5. (~M(i).crossed /\ Ready(core[i]) => Ready(c)) /\ Enabled => Enabled'
  BY <1>1, <1>2 DEF Enabled, Ready
<1>6. (HoldsOff(i) => c.mode # "armed") => \A k \in Members : HoldsOff(k) => HoldsOff(k)'
  BY <1>1, <1>2 DEF HoldsOff
<1>7. \A k \in Members : k # i => (Stale(k)' <=> Stale(k))
  BY <1>1, <1>2 DEF Stale
<1>8. Stale(i)' <=> M(i).crossed /\ seen[i] /\ c.mode # "armed" /\ c.triggered
  BY <1>1, <1>2 DEF Stale
<1> QED
  BY <1>2, <1>3, <1>4, <1>5, <1>6, <1>7, <1>8

(* A core on its own leaves the trigger alone, as long as it neither turns *)
(* stale nor stops holding it off.                                         *)
LEMMA CoreQuiet ==
  ASSUME LinesOK, NEW i \in Members, NEW c, core' = [core EXCEPT ![i] = c], use' = use, seen' = seen,
         ticks' = ticks, fires' = fires, Latched, Fits(i, c),
         M(i).crossed /\ seen[i] /\ c.mode = "armed" => c.full,
         ~M(i).crossed /\ Ready(core[i]) => Ready(c),
         HoldsOff(i) => c.mode # "armed",
         M(i).crossed /\ seen[i] /\ c.mode # "armed" /\ c.triggered => Stale(i)
  PROVE  LinesInStep'
<1>1. Members' = Members /\ OneWindow[use] \subseteq Members
  BY DEF LinesOK, TypeOK, Members, OneWindow
<1>2. \A k \in Members : Stale(k)' => Stale(k)
  BY CoreMoves
<1>3. Pending' => Pending
  BY <1>1, <1>2 DEF Pending
<1>4. Pending' => fired' \/ HeldOff'
  BY <1>3, CoreMoves, LinesQuiet
<1> QED
  BY <1>1, <1>4, LinesParts, CoreMoves, LinesFollow

LEMMA FillLines ==
  ASSUME LinesOK, Latched, NEW i \in Members, Fill(i)
  PROVE  LinesInStep'
<1>1. CoreOK(i, core[i]) /\ Fits(i, core[i])
  BY LinesParts
<1>2. PICK end : core' = [core EXCEPT ![i].full = TRUE, ![i].end = end]
  BY DEF Fill
<1> DEFINE c == [core[i] EXCEPT !.full = TRUE, !.end = end]
<1>3. core' = [core EXCEPT ![i] = c]
  BY <1>2 DEF LinesOK, TypeOK
<1>4. c.mode = core[i].mode /\ c.full /\ (c.triggered <=> core[i].triggered) /\ c.window = core[i].window
  BY <1>1 DEF CoreOK
<1>5. /\ core[i].mode = "armed" /\ use' = use /\ seen' = seen /\ ticks' = ticks /\ fires' = fires
  BY DEF Fill
<1> HIDE DEF c
<1>6. Fits(i, c)
  BY <1>1, <1>4 DEF Fits
<1>7. /\ ~M(i).crossed /\ Ready(core[i]) => Ready(c)
      /\ HoldsOff(i) => c.mode # "armed"
  BY <1>4, <1>5 DEF Ready, HoldsOff
<1> QED
  BY <1>3, <1>4, <1>5, <1>6, <1>7, CoreQuiet

LEMMA CompleteRawLines ==
  ASSUME LinesOK, Latched, NEW i \in Members, CompleteRaw(i)
  PROVE  LinesInStep'
<1> DEFINE n == core[i].window + 1
           kept == [core[i].kept EXCEPT ![n].shot = core[i].shot]
           opened == Opened(kept, n * core[i].run.count, core[i].run.count)
           rested == [core[i] EXCEPT !.mode = "idle", !.window = n, !.kept = kept, !.shot = None]
           again == [core[i] EXCEPT !.mode = "armed", !.full = FALSE, !.window = n, !.shot = None, !.kept = opened]
           c == IF n = core[i].run.windows THEN rested ELSE again
<1>1. CoreOK(i, core[i]) /\ Fits(i, core[i]) /\ (M(i).crossed => i \in OneWindow[use])
  BY LinesParts
<1>2. /\ core[i].mode = "capturing" /\ ~M(i).rle /\ use' = use /\ seen' = seen /\ ticks' = ticks /\ fires' = fires
      /\ core' = [core EXCEPT ![i] = c]
  BY DEF CompleteRaw
<1>3. i \in OneWindow[use] => n = core[i].run.windows
  BY <1>1, <1>2 DEF CoreOK, RunOK, Fits
<1> HIDE DEF n, kept, opened
<1>4. rested.mode = "idle" /\ (rested.triggered <=> core[i].triggered)
  BY <1>1 DEF CoreOK
<1>5. again.mode = "armed"
  BY <1>1 DEF CoreOK
<1> HIDE DEF rested, again
<1>6. /\ c.mode \in {"idle", "armed"} /\ (i \in OneWindow[use] => c.mode = "idle")
      /\ c.mode = "idle" => (c.triggered <=> core[i].triggered)
  <2>1. CASE n = core[i].run.windows
    BY <1>4, <2>1
  <2>2. CASE n # core[i].run.windows
    BY <1>3, <1>5, <2>2
  <2> QED
    BY <2>1, <2>2
<1> HIDE DEF c
<1>7. Fits(i, c)
  BY <1>6 DEF Fits
<1>8. /\ M(i).crossed /\ seen[i] /\ c.mode = "armed" => c.full
      /\ ~M(i).crossed /\ Ready(core[i]) => Ready(c)
      /\ HoldsOff(i) => c.mode # "armed"
  BY <1>1, <1>2, <1>6 DEF Ready, HoldsOff
<1>9. M(i).crossed /\ seen[i] /\ c.mode # "armed" /\ c.triggered => Stale(i)
  BY <1>2, <1>6 DEF Stale
<1> QED
  BY <1>2, <1>7, <1>8, <1>9, CoreQuiet

LEMMA CompleteRleLines ==
  ASSUME LinesOK, Latched, NEW i \in Members, CompleteRle(i)
  PROVE  LinesInStep'
<1>1. CoreOK(i, core[i]) /\ M(i).rle
  BY LinesParts DEF CompleteRle
<1>2. PICK end :
        core' = [core EXCEPT ![i].mode = "idle", ![i].shot = None, ![i].window = 1,
                             ![i].end = end, ![i].kept[1].shot = core[i].shot]
  BY Zenon DEF CompleteRle
<1> DEFINE kept == [core[i].kept EXCEPT ![1].shot = core[i].shot]
           c == [core[i] EXCEPT !.mode = "idle", !.shot = None, !.window = 1, !.end = end, !.kept = kept]
<1>3. core' = [core EXCEPT ![i] = c]
  BY <1>1, <1>2 DEF LinesOK, TypeOK, CoreOK
<1> HIDE DEF kept
<1>4. c.mode = "idle" /\ (c.triggered <=> core[i].triggered)
  BY <1>1 DEF CoreOK
<1>5. core[i].mode = "capturing" /\ use' = use /\ seen' = seen /\ ticks' = ticks /\ fires' = fires
  BY DEF CompleteRle
<1> HIDE DEF c
<1>6. Fits(i, c)
  BY <1>4 DEF Fits
<1>7. /\ M(i).crossed /\ seen[i] /\ c.mode = "armed" => c.full
      /\ ~M(i).crossed /\ Ready(core[i]) => Ready(c)
      /\ HoldsOff(i) => c.mode # "armed"
  BY <1>4, <1>5 DEF Ready, HoldsOff
<1>8. M(i).crossed /\ seen[i] /\ c.mode # "armed" /\ c.triggered => Stale(i)
  BY <1>4, <1>5 DEF Stale
<1> QED
  BY <1>3, <1>5, <1>6, <1>7, <1>8, CoreQuiet

LEMMA TickLines ==
  ASSUME LinesOK, Latched, NEW i \in Members, Tick(i)
  PROVE  LinesInStep'
<1> DEFINE c == Accept(i, core[i], Head(ticks[i]))
<1>1. CoreOK(i, core[i]) /\ Fits(i, core[i])
  BY LinesParts
<1>2. /\ ticks[i] # <<>> /\ use' = use /\ seen' = seen /\ fires' = fires
      /\ core' = [core EXCEPT ![i] = c] /\ ticks' = [ticks EXCEPT ![i] = Tail(ticks[i])]
  BY DEF Tick
<1>3. Fits(i, c) /\ (c = core[i] \/ (core[i].mode = "armed" /\ c.mode = "capturing"))
  BY <1>1, AcceptFits
<1>4. M(i).crossed
  BY <1>2, LinesParts
<1> HIDE DEF c
<1>5. M(i).crossed /\ seen[i] /\ c.mode = "armed" => c.full
  BY <1>3, LinesParts
<1>6. Enabled => Enabled'
  BY <1>2, <1>4, CoreMoves
<1>7. HoldsOff(i) => c.mode # "armed"
  BY <1>3 DEF HoldsOff
<1>8. \A k \in Members : HoldsOff(k) => HoldsOff(k)'
  BY <1>2, <1>7, CoreMoves
<1>9. Pending
  BY <1>2 DEF Pending
<1>10. Pending' => fired' \/ HeldOff'
  BY <1>2, <1>6, <1>8, <1>9, LinesQuiet
<1>11. \A k \in Members : ~M(k).crossed => ticks'[k] = <<>>
  BY <1>2, <1>4, LinesParts DEF LinesOK, TypeOK
<1>12. OneWindow[use] \subseteq Members
  BY DEF LinesOK, TypeOK, Members, OneWindow
<1>13. /\ \A k \in Members : Fits(k, core'[k])
       /\ \A k \in Members : M(k).crossed /\ seen'[k] /\ core'[k].mode = "armed" => core'[k].full
  BY <1>2, <1>3, <1>5, CoreMoves
<1> QED
  BY <1>2, <1>10, <1>11, <1>12, <1>13, LinesFollow

LEMMA SeeLines ==
  ASSUME LinesOK, Latched, NEW i \in Members, See(i)
  PROVE  LinesInStep'
<1>1. /\ M(i).crossed /\ use' = use /\ core' = core /\ ticks' = ticks /\ fires' = fires
      /\ seen' = [seen EXCEPT ![i] = ~seen[i]]
  BY DEF See
<1>2. Members' = Members /\ (\A k : M(k)' = M(k)) /\ OneWindow[use] \subseteq Members
  BY <1>1 DEF LinesOK, TypeOK, Members, M, OneWindow
<1>3. /\ \A k \in Members : k # i => seen'[k] = seen[k]
      /\ seen'[i] <=> ~seen[i]
  BY <1>1 DEF LinesOK, TypeOK
<1>4. seen[i] <=> ~Ready(core[i])
  BY DEF See, Ready, LinesOK, TypeOK, CoreOK
<1>5. CASE ~seen[i]
  <2>1. Ready(core[i]) /\ seen'[i]
    BY <1>3, <1>4, <1>5
  <2>2. Enabled => Enabled'
    BY <1>1, <1>2, <1>3, <2>1 DEF Enabled
  <2>3. \A k \in Members : Stale(k)' => Stale(k)
    BY <1>1, <1>2, <1>3, <2>1 DEF Stale, Ready
  <2>4. Pending' => Pending
    BY <1>1, <1>2, <2>3 DEF Pending
  <2>5. \A k \in Members : HoldsOff(k) => HoldsOff(k)'
    BY <1>1, <1>2, <1>3, <2>1 DEF HoldsOff, Ready
  <2>6. Pending' => fired' \/ HeldOff'
    BY <1>1, <2>2, <2>4, <2>5, LinesQuiet
  <2>7. \A k \in Members : M(k).crossed /\ seen'[k] /\ core'[k].mode = "armed" => core'[k].full
    BY <1>1, <1>3, <2>1, LinesParts DEF Ready
  <2> QED
    BY <1>1, <1>2, <2>6, <2>7, LinesParts, LinesFollow
<1>6. CASE seen[i]
  <2>1. ~Ready(core[i]) /\ ~seen'[i]
    BY <1>3, <1>4, <1>6
  <2>2. core[i].mode # "armed" /\ i \in OneWindow[use]
    BY <1>1, <1>6, <2>1, LinesParts DEF Ready
  <2>3. HoldsOff(i)'
    BY <1>1, <1>2, <2>1, <2>2 DEF HoldsOff
  <2>4. HeldOff'
    BY <1>2, <2>3 DEF HeldOff
  <2>5. \A k \in Members : M(k).crossed /\ seen'[k] /\ core'[k].mode = "armed" => core'[k].full
    BY <1>1, <1>3, <2>1, LinesParts
  <2> QED
    BY <1>1, <1>2, <2>4, <2>5, LinesParts, LinesFollow
<1> QED
  BY <1>5, <1>6

(* A fire leaves its own member of one window capturing, or none is on its *)
(* clock and the trigger stays enabled.                                    *)
LEMMA FireLines ==
  ASSUME LinesOK, Latched, Fire
  PROVE  LinesInStep'
<1>1. /\ Enabled /\ use' = use /\ seen' = seen /\ fires' = fires + 1
      /\ core' = [i \in Members |-> IF M(i).crossed THEN core[i] ELSE Accept(i, core[i], fires + 1)]
      /\ ticks' = [i \in Members |-> IF M(i).crossed THEN Append(ticks[i], fires + 1) ELSE ticks[i]]
  BY DEF Fire
<1>2. Members' = Members /\ (\A k : M(k)' = M(k)) /\ OneWindow[use] \subseteq Members
  BY <1>1 DEF LinesOK, TypeOK, Members, M, OneWindow
<1>3. /\ \A k \in Members : M(k).crossed => core'[k] = core[k]
      /\ \A k \in Members : ~M(k).crossed => core'[k] = Accept(k, core[k], fires + 1) /\ ticks'[k] = ticks[k]
  BY <1>1
<1>4. \A k \in Members : Fits(k, core'[k])
  <2> SUFFICES ASSUME NEW k \in Members PROVE Fits(k, core'[k])
    OBVIOUS
  <2>1. Fits(k, core[k]) /\ Fits(k, Accept(k, core[k], fires + 1))
    BY LinesParts, AcceptFits
  <2> QED
    BY <1>3, <2>1
<1>5. \A k \in Members : M(k).crossed /\ seen'[k] /\ core'[k].mode = "armed" => core'[k].full
  BY <1>1, <1>3, LinesParts
<1>6. \A k \in Members : ~M(k).crossed => ticks'[k] = <<>>
  BY <1>3, LinesParts
<1>7. CASE \A k \in Members : M(k).crossed
  <2>1. Enabled'
    BY <1>1, <1>2, <1>7 DEF Enabled
  <2>2. fires' # fires
    BY <1>1 DEF LinesOK, TypeOK
  <2>3. fired'
    BY <2>1, <2>2, Zenon DEF Latched
  <2> QED
    BY <1>1, <1>2, <1>4, <1>5, <1>6, <2>3, LinesFollow
<1>8. CASE \A k \in Members : ~M(k).crossed
  <2>1. ~Pending'
    BY <1>2, <1>6, <1>8 DEF Pending, Stale
  <2> QED
    BY <1>1, <1>2, <1>4, <1>5, <1>6, <2>1, LinesFollow
<1>9. CASE \E i, k \in Members : M(i).crossed /\ ~M(k).crossed
  <2>1. PICK j \in Members : ~M(j).crossed /\ j \in OneWindow[use]
    BY <1>9, OneUncrossed
  <2>2. Ready(core[j])
    BY <1>1, <2>1 DEF Enabled
  <2>3. core'[j].mode = "capturing"
    BY <1>3, <2>1, <2>2, LinesParts, AcceptFits
  <2>4. HoldsOff(j)'
    BY <1>1, <1>2, <2>1, <2>3 DEF HoldsOff
  <2>5. HeldOff'
    BY <1>2, <2>1, <2>4 DEF HeldOff
  <2> QED
    BY <1>1, <1>2, <1>4, <1>5, <1>6, <2>5, LinesFollow
<1> QED
  BY <1>7, <1>8, <1>9

(* All lines have crossed when a client's access of the link takes effect. *)
LEMMA SettledCore ==
  ASSUME LinesOK, Latched, Settled, NEW i \in Members, NEW c, core' = [core EXCEPT ![i] = c],
         use' = use, seen' = seen, ticks' = ticks, Fits(i, c),
         c = core[i] \/ core[i].mode = "idle" \/ c.mode = "idle",
         c.mode # "armed" => (c.triggered => core[i].triggered)
  PROVE  LinesInStep'
<1>1. Members' = Members /\ OneWindow[use] \subseteq Members
  BY DEF LinesOK, TypeOK, Members, OneWindow
<1>2. \A k \in Members : ticks'[k] = <<>> /\ (M(k).crossed => (seen[k] <=> Ready(core[k])))
  BY DEF Settled
<1>3. M(i).crossed /\ seen[i] => core[i].mode = "armed" /\ core[i].full /\ ~core[i].triggered
  BY <1>2, LinesParts DEF Ready, Fits
<1>4. M(i).crossed /\ seen[i] /\ c.mode = "armed" => c.full
  BY <1>3
<1>5. ~Stale(i)'
  BY <1>3, CoreMoves
<1>6. \A k \in Members : ~Stale(k)
  BY <1>2 DEF Stale, Ready
<1>7. \A k \in Members : ~Stale(k)'
  BY <1>5, <1>6, CoreMoves
<1>8. ~Pending'
  BY <1>1, <1>2, <1>7 DEF Pending
<1>9. /\ \A k \in Members : Fits(k, core'[k])
      /\ \A k \in Members : M(k).crossed /\ seen'[k] /\ core'[k].mode = "armed" => core'[k].full
  BY <1>4, CoreMoves
<1>10. \A k \in Members : ~M(k).crossed => ticks'[k] = <<>>
  BY <1>2
<1> QED
  BY <1>1, <1>8, <1>9, <1>10, LinesFollow

LEMMA ArmLines ==
  ASSUME LinesOK, CallsInStep, Latched, NEW t \in Tasks, ArmMember(t)
  PROVE  LinesInStep'
<1> DEFINE m == Head(job[t].todo).m
           c == Arm(m, core[m])
<1>1. /\ Settled /\ Busy(t) /\ Head(job[t].todo).op = "arm" /\ use' = use /\ seen' = seen /\ ticks' = ticks
      /\ core' = [core EXCEPT ![m] = c]
  BY DEF ArmMember, Now
<1>2. m \in Members
  BY <1>1, HeadStep DEF StepOK
<1>3. CoreOK(m, core[m]) /\ Fits(m, core[m])
  BY <1>2, LinesParts
<1>4. /\ Fits(m, c) /\ (core[m].mode # "idle" => c = core[m]) /\ (core[m].mode = "idle" => c.mode = "armed")
  BY <1>2, <1>3, ArmFits
<1> HIDE DEF c, m
<1>5. c = core[m] \/ core[m].mode = "idle" \/ c.mode = "idle"
  BY <1>4
<1>6. c.mode # "armed" => (c.triggered => core[m].triggered)
  BY <1>4
<1> QED
  BY <1>1, <1>2, <1>4, <1>5, <1>6, SettledCore

LEMMA AbortLines ==
  ASSUME LinesOK, CallsInStep, Latched, NEW t \in Tasks, AbortMember(t)
  PROVE  LinesInStep'
<1> DEFINE m == Head(job[t].todo).m
           c == Abort(core[m])
<1>1. /\ Settled /\ Busy(t) /\ Head(job[t].todo).op = "abort" /\ use' = use /\ seen' = seen /\ ticks' = ticks
      /\ core' = [core EXCEPT ![m] = c]
  BY DEF AbortMember, Now
<1>2. m \in Members
  BY <1>1, HeadStep DEF StepOK
<1>3. Fits(m, c) /\ c.mode = "idle" /\ (c.triggered <=> core[m].triggered)
  BY <1>2, LinesParts, AbortFits
<1> HIDE DEF c, m
<1> QED
  BY <1>1, <1>2, <1>3, SettledCore

LEMMA StillLines ==
  ASSUME LinesOK, Latched, use' = use, core' = core, seen' = seen, ticks' = ticks, fires' = fires
  PROVE  LinesInStep'
<1>1. Members' = Members /\ (\A k : M(k)' = M(k)) /\ OneWindow[use] \subseteq Members
  BY DEF LinesOK, TypeOK, Members, M, OneWindow
<1>2. (Enabled => Enabled') /\ (Pending' => Pending) /\ \A k \in Members : HoldsOff(k) => HoldsOff(k)'
  BY <1>1 DEF Enabled, Pending, Stale, HoldsOff
<1>3. Pending' => fired' \/ HeldOff'
  BY <1>2, LinesQuiet
<1> QED
  BY <1>1, <1>3, LinesParts, LinesFollow

LEMMA LinesKept ==
  ASSUME LinesOK, CallsInStep, Next
  PROVE  LinesInStep'
<1>1. Latched
  BY DEF Next
<1>2. CASE Gateware
  <2>1. CASE Fire
    BY <1>1, <2>1, FireLines
  <2>2. ASSUME NEW i \in Members, Fill(i) \/ See(i) \/ Tick(i) \/ CompleteRaw(i) \/ CompleteRle(i)
        PROVE  LinesInStep'
    BY <1>1, <2>2, FillLines, SeeLines, TickLines, CompleteRawLines, CompleteRleLines
  <2> QED
    BY <1>2, <2>1, <2>2 DEF Gateware
<1>3. ASSUME NEW t \in Tasks, Client(t) PROVE LinesInStep'
  <2>1. CASE ArmMember(t)
    BY <1>1, <2>1, ArmLines
  <2>2. CASE AbortMember(t)
    BY <1>1, <2>2, AbortLines
  <2>3. CASE \E c \in use.calls[t] : Begin(t, c)
    BY <1>1, <2>3, StillLines DEF Begin
  <2>4. CASE Configure(t) \/ ReadStatus(t) \/ PollMember(t)
    BY <1>1, <2>4, StillLines, Zenon DEF Configure, ReadStatus, PollMember
  <2>5. CASE ReadSize(t) \/ ReadHeads(t) \/ ReadBurst(t) \/ Fail(t)
    BY <1>1, <2>5, StillLines, Zenon DEF ReadSize, ReadHeads, ReadBurst, Fail
  <2> QED
    BY <1>3, <2>1, <2>2, <2>3, <2>4, <2>5 DEF Client
<1> QED
  BY <1>2, <1>3 DEF Next
-----------------------------------------------------------------------------
(* The beginning, and the theorems.                                        *)

LEMMA EmptyOK ==
  ASSUME use \in Uses, NEW i \in Members
  PROVE  CoreOK(i, Empty(i)) /\ RunOK(i, Empty(i).run)
<1>1. MemberOK(M(i)) /\ M(i).depth \in Nat /\ M(i).depth >= 1
  BY MembersOK DEF MemberOK
<1> DEFINE c == Empty(i)
           run == IF M(i).rle THEN [pre_lines |-> 0] ELSE [count |-> 1, windows |-> 1, pretrigger |-> 0]
           kept == [w \in 1..(IF M(i).rle THEN 1 ELSE M(i).max_windows) |->
                      [base |-> 0, count |-> 1, head |-> 0, shot |-> None]]
<1>2. RunOK(i, run)
  BY <1>1 DEF RunOK, MemberOK
<1>3. KeptOK(i, kept)
  BY DEF KeptOK, Windows, Shot
<1> HIDE DEF run, kept
<1>4. /\ DOMAIN c = {"mode", "full", "triggered", "window", "shot", "end", "run", "kept"}
      /\ c.mode = "idle" /\ c.full = FALSE /\ c.triggered = FALSE /\ c.window = 0 /\ c.shot = None
      /\ c.end = 1 /\ c.run = run /\ c.kept = kept
  BY DEF Empty, run, kept
<1>5. None \in Shot /\ 0 \in 0..Windows(i) /\ 1 \in 1..M(i).depth
  <2>1. Windows(i) \in Nat
    BY <1>1 DEF Windows, MemberOK
  <2> QED
    BY <1>1, <2>1 DEF Shot
<1> HIDE DEF c
<1> QED
  BY <1>2, <1>3, <1>4, <1>5 DEF CoreOK, c

LEMMA InitHolds ==
  ASSUME Init
  PROVE  AccountsOK
<1>1. use \in Uses /\ MaxFires \in Nat
  BY GroupAssumption DEF Init
<1>2. TypeOK
  <2>1. /\ DOMAIN core = Members /\ \A i \in Members : CoreOK(i, core[i])
        /\ DOMAIN regs = Members /\ \A i \in Members : RunOK(i, regs[i])
    BY <1>1, EmptyOK DEF Init
  <2>2. seen \in [Members -> BOOLEAN] /\ fires \in 0..MaxFires /\ fired \in BOOLEAN
    <3>1. seen = [i \in Members |-> FALSE] /\ fires = 0 /\ fired = FALSE
      BY DEF Init
    <3>2. fires \in 0..MaxFires
      BY <1>1, <3>1
    <3>3. fired \in BOOLEAN
      BY <3>1
    <3>4. seen \in [Members -> BOOLEAN]
      BY <3>1
    <3> QED
      BY <3>2, <3>3, <3>4
  <2>3. ticks \in [Members -> Seq(1..fires)]
    <3>1. <<>> \in Seq(1..fires)
      OBVIOUS
    <3> QED
      BY <3>1 DEF Init
  <2>4. fetch \in [{0} \union Members -> [total : Nat, done : Nat, depth : Nat]]
    BY DEF Init
  <2>5. \A i \in Members : M(i).depth \in Nat /\ M(i).depth >= 1
    BY <1>1, MembersOK DEF MemberOK
  <2>6. /\ DOMAIN host = Members
        /\ \A i \in Members : host[i] \in [pre_lines : Nat, triggered : BOOLEAN] /\ host[i].pre_lines = 0
    BY DEF Init
  <2>7. \A i \in Members : host[i].pre_lines \in 0..M(i).depth-1
    BY <2>5, <2>6
  <2> QED
    BY <1>1, <2>1, <2>2, <2>3, <2>4, <2>6, <2>7 DEF TypeOK
<1>3. \A t \in Tasks : job[t] = Idle /\ ~Busy(t) /\ job[t].open = <<>>
  BY DEF Init, Busy, Idle
<1>4. CallsInStep
  BY <1>3 DEF Init, CallsInStep
<1>5. FetchBalanced
  <2>1. ASSUME NEW x \in DOMAIN fetch PROVE fetch[x].depth = Cardinality(Open(x))
    <3>1. fetch[x].depth = 0
      BY DEF Init
    <3>2. DOMAIN <<>> = {}
      OBVIOUS
    <3>3. Open(x) = {}
      BY <1>3, <3>2, Zenon DEF Open
    <3> QED
      BY <3>1, <3>3, FS_EmptySet
  <2> QED
    BY <2>1 DEF FetchBalanced
<1>6. PollStaysOffTheLink
  BY <1>3 DEF PollStaysOffTheLink
<1>7. LinesInStep
  <2>1. \A i \in Members : core[i].mode = "idle" /\ seen[i] = FALSE /\ ticks[i] = <<>>
    BY DEF Init, Empty
  <2>2. ~fired /\ OneWindow[use] \subseteq Members
    BY <1>1 DEF Init, OneWindow, Members
  <2> QED
    BY <2>1, <2>2 DEF LinesInStep, Stale
<1> QED
  BY <1>2, <1>4, <1>5, <1>6, <1>7 DEF AccountsOK, TasksOK

LEMMA StepHolds ==
  ASSUME AccountsOK, [Next]_vars
  PROVE  AccountsOK' /\ use' = use
<1>1. TasksOK
  BY DEF AccountsOK, TasksOK
<1>2. CASE Next
  <2>1. TasksOK' /\ use' = use
    BY <1>1, <1>2, TasksKept
  <2>2. (use \in LinesHold => LinesInStep)'
    BY <1>1, <1>2, <2>1, LinesKept DEF AccountsOK, LinesOK, TasksOK
  <2> QED
    BY <2>1, <2>2 DEF AccountsOK, TasksOK
<1>3. CASE UNCHANGED vars
  <2>1. /\ use' = use /\ core' = core /\ regs' = regs /\ seen' = seen /\ ticks' = ticks /\ fires' = fires
        /\ fired' = fired /\ fetch' = fetch /\ host' = host /\ armed' = armed /\ job' = job
    BY <1>3 DEF vars
  <2>2. TypeOK'
    <3>1. LinesNext
      BY <1>1, <2>1 DEF TasksOK, TypeOK, LinesNext
    <3> QED
      BY <1>1, <2>1, <3>1, TypeKept, TypeNext DEF TasksOK
  <2>3. TasksNext
    BY <1>1, <2>1, GatewareTasks
  <2>4. (use \in LinesHold => LinesInStep)'
    BY <2>1 DEF AccountsOK, TasksOK, LinesInStep, Members, M, Enabled, Ready, Stale, HoldsOff
  <2> QED
    BY <2>1, <2>2, <2>3, <2>4 DEF AccountsOK, TasksOK, TasksNext
<1> QED
  BY <1>2, <1>3

LEMMA FireFinds ==
  ASSUME LinesOK, Fire, NEW i \in Members
  PROVE  Ready(core[i]) \/ JustAborted(i)
<1>1. Enabled /\ ~fired
  BY DEF Fire
<1>2. CASE ~M(i).crossed
  BY <1>1, <1>2 DEF Enabled
<1>3. CASE M(i).crossed /\ core[i].mode = "armed"
  BY <1>1, <1>3, LinesParts DEF Enabled, Ready
<1>4. CASE M(i).crossed /\ core[i].mode # "armed"
  <2>1. seen[i]
    BY <1>1, <1>4 DEF Enabled
  <2>2. ~HeldOff
    BY <1>1 DEF HeldOff, HoldsOff, Enabled, Ready
  <2>3. ~Pending
    BY <1>1, <2>2, LinesParts
  <2>4. ~core[i].triggered
    BY <1>4, <2>1, <2>3 DEF Pending, Stale
  <2>5. core[i].mode = "idle"
    BY <1>4, <2>4, LinesParts DEF Fits, CoreOK
  <2> QED
    BY <1>4, <2>1, <2>4, <2>5 DEF JustAborted
<1> QED
  BY <1>2, <1>3, <1>4

(* In a group whose lines can be trusted, a fire finds every core ready,   *)
(* but for one aborted a moment ago: "Every participating domain must be   *)
(* armed before the trigger can fire".                                     *)
THEOREM FireFindsAllArmedHolds == Spec /\ use \in LinesHold => FireFindsAllArmed
<1> DEFINE Found == fires' # fires => \A i \in Members : Ready(core[i]) \/ JustAborted(i)
<1>1. Init => AccountsOK
  BY InitHolds
<1>2. (AccountsOK /\ use \in LinesHold) /\ [Next]_vars => (AccountsOK /\ use \in LinesHold)'
  BY StepHolds
<1>3. (AccountsOK /\ use \in LinesHold) /\ [Next]_vars => [Found]_vars
  <2> SUFFICES ASSUME AccountsOK, use \in LinesHold, Next, fires' # fires, NEW i \in Members
               PROVE  Ready(core[i]) \/ JustAborted(i)
    BY DEF vars
  <2>1. LinesOK
    BY DEF AccountsOK, TasksOK, LinesOK
  <2>2. Fire
    <3>1. ASSUME NEW t \in Tasks, Client(t) PROVE fires' = fires
      BY <3>1, Zenon DEF Client, Begin, Configure, ArmMember, ReadStatus, AbortMember, PollMember,
                  ReadSize, ReadHeads, ReadBurst, Fail
    <3>2. ASSUME NEW k \in Members, Fill(k) \/ See(k) \/ Tick(k) \/ CompleteRaw(k) \/ CompleteRle(k)
          PROVE  fires' = fires
      BY <3>2, Zenon DEF Fill, See, Tick, CompleteRaw, CompleteRle
    <3> QED
      BY <3>1, <3>2 DEF Next, Gateware
  <2> QED
    BY <2>1, <2>2, FireFinds
<1>4. (Spec /\ use \in LinesHold) => [][Found]_vars
  BY <1>1, <1>2, <1>3, PTL DEF Spec
<1> QED
  BY <1>4 DEF FireFindsAllArmed

-----------------------------------------------------------------------------
(* What a poll tells, and what a readback announced.                      *)
TellNext == CompanyOK' /\ PollsOK' /\ ReadersOK'

(* The calls beside the one that takes a step, and that one.               *)
StaysCompany(t, c, j) ==
  /\ Busy(t) => c = job[t].call
  /\ j.todo # <<>> => /\ j.call = c
                      /\ j.alone => \A u \in Tasks \ {t} : Busy(u) => Quiet(job[u].call)

LEMMA OthersStay ==
  ASSUME TellOK, NEW t \in Tasks, NEW c, NEW j, job' = [Jobs(t, c) EXCEPT ![t] = j], StaysCompany(t, c, j),
         NEW u \in Tasks \ {t}, Busy(u)'
  PROVE  /\ Busy(u) /\ job'[u].call = job[u].call /\ job'[u].open = job[u].open /\ job'[u].todo = job[u].todo
         /\ job'[u].got = job[u].got /\ job'[u].whole = job[u].whole
         /\ job'[u].alone => job'[u] = job[u] /\ job[u].alone /\ Quiet(c)
<1>1. job'[u] = IF Busy(t) \/ Quiet(c) \/ ~Busy(u) THEN job[u] ELSE [job[u] EXCEPT !.alone = FALSE]
  BY DEF Jobs
<1>2. Busy(u)
  <2> SUFFICES ASSUME ~Busy(u) PROVE FALSE
    OBVIOUS
  <2>1. job'[u] = job[u]
    BY <1>1
  <2> QED
    BY <2>1 DEF Busy
<1>3. DOMAIN job[u] = CallFields
  BY <1>2, HeadStep, CallIs DEF TellOK, TasksOK
<1>4. CASE Busy(t) \/ Quiet(c)
  <2>1. job'[u] = job[u]
    BY <1>1, <1>4
  <2>2. job[u].alone => Quiet(c)
    BY <1>2, <1>4 DEF TellOK, CompanyOK, StaysCompany
  <2> QED
    BY <1>2, <2>1, <2>2
<1>5. CASE ~(Busy(t) \/ Quiet(c))
  <2>1. job'[u] = [job[u] EXCEPT !.alone = FALSE]
    BY <1>1, <1>2, <1>5
  <2>2. /\ job'[u].call = job[u].call /\ job'[u].open = job[u].open /\ job'[u].todo = job[u].todo
        /\ job'[u].got = job[u].got /\ job'[u].whole = job[u].whole /\ job'[u].alone = FALSE
    BY <1>3, <2>1 DEF CallFields
  <2> QED
    BY <1>2, <2>2
<1> QED
  BY <1>4, <1>5

LEMMA GotMembers ==
  ASSUME TellOK, NEW u \in Tasks, Busy(u), Quiet(job[u].call)
  PROVE  \A k \in DOMAIN job[u].got : k \in Members
<1> DEFINE a == Len(job[u].got)
           b == Len(job[u].todo)
           n == Len(use.members)
<1>1. IsSequence(job[u].got) /\ IsSequence(job[u].todo) /\ a + b = n
  BY HeadStep DEF PollsOK, Polling, TellOK, TasksOK
<1>2. DOMAIN job[u].got = 1..a /\ a \in Nat /\ b \in Nat
  BY <1>1, SequenceParts
<1>3. Members = 1..n /\ n \in Nat
  BY MembersOK DEF TellOK, TasksOK, TypeOK
<1> HIDE DEF a, b, n
<1>4. a <= n
  BY <1>1, <1>2, <1>3
<1> QED
  BY <1>2, <1>3, <1>4

(* What the step of a call keeps, and what it has to show for that.        *)
LEMMA TaskTells ==
  ASSUME TellOK, use' = use, NEW t \in Tasks, NEW c, NEW j, job' = [Jobs(t, c) EXCEPT ![t] = j],
         StaysCompany(t, c, j),
         j.todo # <<>> /\ Quiet(c) => Polling(j) /\ Witnessed(j, core'),
         j.todo # <<>> /\ j.open # <<>> /\ j.alone => Untouched(j, fetch'),
         Quiet(c) => /\ \A i \in Members : core[i].mode = "idle" => core'[i].mode = "idle"
                     /\ \A x \in Members : fetch'[x].done = fetch[x].done
  PROVE  TellNext
<1>1. job'[t] = j /\ Members' = Members
  BY DEF TellOK, TasksOK, CallsInStep, Jobs, Members
<1>2. CompanyOK'
  <2> SUFFICES ASSUME NEW u \in Tasks, Busy(u)', job'[u].alone, NEW v \in Tasks \ {u}, Busy(v)'
               PROVE  Quiet(job'[v].call)
    BY DEF CompanyOK, Quiet
  <2>1. CASE u = t
    <3>1. Busy(v) /\ job'[v].call = job[v].call
      BY <2>1, OthersStay
    <3>2. j.todo # <<>> /\ j.alone
      BY <1>1, <2>1 DEF Busy
    <3> QED
      BY <2>1, <3>1, <3>2 DEF StaysCompany
  <2>2. CASE u # t
    <3>1. Busy(u) /\ job[u].alone /\ Quiet(c)
      BY <2>2, OthersStay
    <3>2. CASE v = t
      BY <1>1, <3>1, <3>2 DEF Busy, StaysCompany
    <3>3. CASE v # t
      <4>1. Busy(v) /\ job'[v].call = job[v].call
        BY <3>3, OthersStay
      <4> QED
        BY <3>1, <4>1 DEF TellOK, CompanyOK
    <3> QED
      BY <3>2, <3>3
  <2> QED
    BY <2>1, <2>2
<1>3. PollsOK'
  <2> SUFFICES ASSUME NEW u \in Tasks, Busy(u)', Quiet(job'[u].call)
               PROVE  Polling(job'[u]) /\ Witnessed(job'[u], core')
    BY DEF PollsOK, Quiet, Polling, Only, Witnessed
  <2>1. CASE u = t
    <3>1. j.todo # <<>> /\ Quiet(c)
      BY <1>1, <2>1 DEF Busy, StaysCompany
    <3> QED
      BY <1>1, <2>1, <3>1
  <2>2. CASE u # t
    <3>1. /\ Busy(u) /\ job'[u].call = job[u].call /\ job'[u].open = job[u].open /\ job'[u].todo = job[u].todo
          /\ job'[u].got = job[u].got
          /\ job'[u].alone => job'[u] = job[u] /\ job[u].alone /\ Quiet(c)
      BY <2>2, OthersStay
    <3>2. Polling(job[u]) /\ Witnessed(job[u], core)
      BY <3>1 DEF TellOK, PollsOK
    <3>3. Polling(job'[u])
      BY <3>1, <3>2 DEF Polling, Only
    <3>4. \A k \in DOMAIN job[u].got : k \in Members
      BY <3>1, GotMembers
    <3>5. Witnessed(job'[u], core')
      BY <3>1, <3>2, <3>4 DEF Witnessed
    <3> QED
      BY <3>3, <3>5
  <2> QED
    BY <2>1, <2>2
<1>4. ReadersOK'
  <2> SUFFICES ASSUME NEW u \in Tasks, Busy(u)', job'[u].open # <<>>, job'[u].alone
               PROVE  Untouched(job'[u], fetch')
    BY <1>1 DEF ReadersOK, Reads, Untouched
  <2>1. CASE u = t
    BY <1>1, <2>1 DEF Busy
  <2>2. CASE u # t
    <3>1. Busy(u) /\ job'[u] = job[u] /\ job[u].alone /\ Quiet(c)
      BY <2>2, OthersStay
    <3>2. Untouched(job[u], fetch)
      BY <3>1 DEF TellOK, ReadersOK, Reads
    <3>3. \A k \in DOMAIN job[u].todo : job[u].todo[k].op = "heads" => job[u].todo[k].m \in Members
      <4>1. \A k \in DOMAIN job[u].todo : StepOK(job[u].todo[k])
        <5>1. CallOK(job[u])
          BY <3>1, HeadStep DEF TellOK, TasksOK
        <5> QED
          BY <5>1, Zenon DEF CallOK
      <4> QED
        BY <4>1 DEF StepOK
    <3> QED
      BY <3>1, <3>2, <3>3 DEF Untouched
  <2> QED
    BY <2>1, <2>2
<1> QED
  BY <1>2, <1>3, <1>4 DEF TellNext

(* Only a poll has polls to take, so a call at any other step spoils the   *)
(* aloneness of the ones beside it.                                        *)
LEMMA NotQuiet ==
  ASSUME TellOK, NEW t \in Tasks, Busy(t), Head(job[t].todo).op # "poll"
  PROVE  ~Quiet(job[t].call)
<1>1. 1 \in DOMAIN job[t].todo /\ job[t].todo[1].op # "poll"
  BY HeadStep DEF TellOK, TasksOK
<1>2. ~Only(job[t], {"poll"})
  BY <1>1 DEF Only
<1> QED
  BY <1>2 DEF TellOK, PollsOK, Polling

LEMMA CompanyOf ==
  ASSUME TellOK, NEW t \in Tasks, Busy(t), NEW j, j.call = job[t].call, j.alone => job[t].alone
  PROVE  StaysCompany(t, j.call, j)
BY DEF TellOK, CompanyOK, StaysCompany

(* A call with nothing of its own open goes on, or ends.                   *)
LEMMA CallTells ==
  ASSUME TellOK, use' = use, NEW t \in Tasks, Busy(t), ~Quiet(job[t].call), NEW j,
         j.call = job[t].call, j.alone => job[t].alone,
         \/ Goes(t, j) /\ (j.open # <<>> /\ j.alone => Untouched(j, fetch'))
         \/ \E end, value : Ends(t, j, end, value)
  PROVE  TellNext
<1>1. CASE Goes(t, j) /\ (j.open # <<>> /\ j.alone => Untouched(j, fetch'))
  <2>1. job' = [Jobs(t, j.call) EXCEPT ![t] = j]
    BY <1>1 DEF Goes
  <2>2. StaysCompany(t, j.call, j)
    BY CompanyOf
  <2> QED
    BY <1>1, <2>1, <2>2, TaskTells
<1>2. CASE \E end, value : Ends(t, j, end, value)
  <2>1. job' = [Jobs(t, j.call) EXCEPT ![t] = Idle]
    BY <1>2 DEF Ends
  <2>2. StaysCompany(t, j.call, Idle)
    BY DEF StaysCompany, Idle
  <2>3. Idle.todo = <<>>
    BY DEF Idle
  <2> QED
    BY <2>1, <2>2, <2>3, TaskTells
<1> QED
  BY <1>1, <1>2

(* The counters, but for their depths.                                     *)
LEMMA StartedWords ==
  ASSUME NEW fs \in Counters, NEW ids, NEW x \in Ids
  PROVE  /\ fs[x].depth # 0 \/ x \notin ids => Started(fs, ids)[x].done = fs[x].done /\ Started(fs, ids)[x].total = fs[x].total
         /\ fs[x].depth = 0 /\ x \in ids => Started(fs, ids)[x].done = 0
         /\ fs[x].done = 0 => Started(fs, ids)[x].done = 0
<1>1. fs[x] \in [total : Nat, done : Nat, depth : Int] /\ Started(fs, ids)[x] = IF x \in ids THEN BeginOf(fs[x]) ELSE fs[x]
  BY DEF Counters, Started, Ids
<1>2. /\ fs[x].depth = 0 => BeginOf(fs[x]).done = 0
      /\ fs[x].depth # 0 => BeginOf(fs[x]).done = fs[x].done /\ BeginOf(fs[x]).total = fs[x].total
  BY <1>1 DEF BeginOf
<1> QED
  BY <1>1, <1>2

LEMMA ClosedWords ==
  ASSUME NEW fs \in Counters, NEW open, NEW x \in Ids
  PROVE  Closed(fs, open)[x].done = fs[x].done /\ Closed(fs, open)[x].total = fs[x].total
<1>1. fs[x] \in [total : Nat, done : Nat, depth : Int] /\ Closed(fs, open)[x] = [fs[x] EXCEPT !.depth = fs[x].depth - Times(open, x)]
  BY DEF Counters, Closed, EndOf, Ids
<1> QED
  BY <1>1

LEMMA ExpectedWords ==
  ASSUME NEW fs \in Counters, NEW m \in Ids, NEW words \in Nat, NEW x \in Ids
  PROVE  /\ Expected(fs, m, words)[x].done = fs[x].done
         /\ x # m => Expected(fs, m, words)[x].total = fs[x].total
BY DEF Expected, Counters, Ids

LEMMA NoneOpen ==
  ASSUME TellOK, NEW t \in Tasks, job[t].open = <<>>,
         \A u \in Tasks \ {t} : Busy(u) => Quiet(job[u].call)
  PROVE  \A x \in Ids : fetch[x].depth = 0
<1>1. \A u \in Tasks : job[u].open = <<>>
  <2> SUFFICES ASSUME NEW u \in Tasks, u # t PROVE job[u].open = <<>>
    OBVIOUS
  <2>1. CASE Busy(u)
    BY <2>1 DEF TellOK, PollsOK, Polling
  <2>2. CASE ~Busy(u)
    BY <2>2 DEF TellOK, TasksOK, CallsInStep, Idle
  <2> QED
    BY <2>1, <2>2
<1>2. DOMAIN fetch = Ids
  BY CountedSame DEF TellOK
<1>3. \A x : Open(x) = {}
  <2> SUFFICES ASSUME NEW x, NEW h \in Open(x) PROVE FALSE
    OBVIOUS
  <2>1. h[1] \in Tasks /\ h[2] \in DOMAIN job[h[1]].open
    BY DEF Open
  <2> QED
    BY <1>1, <2>1
<1> QED
  BY <1>2, <1>3, FS_EmptySet DEF TellOK, TasksOK, FetchBalanced

LEMMA Typed ==
  ASSUME TellOK
  PROVE  /\ TasksOK /\ use \in Uses /\ fetch \in Counters /\ DOMAIN fetch = Ids
         /\ Members = 1..Len(use.members) /\ Len(use.members) \in Nat /\ Len(use.members) > 0
         /\ Members \subseteq Ids /\ 0 \in Ids
<1>1. TasksOK /\ use \in Uses /\ fetch \in Counters
  BY DEF TellOK, TasksOK, TypeOK, Counters
<1>2. DOMAIN fetch = Ids
  BY <1>1 DEF Counters, Ids
<1>3. Members = 1..Len(use.members) /\ Len(use.members) \in Nat /\ Len(use.members) > 0
  BY <1>1, MembersOK
<1> QED
  BY <1>1, <1>2, <1>3 DEF Ids

LEMMA TwoHalves ==
  ASSUME NEW s, IsSequence(s), NEW u, IsSequence(u), NEW n, Len(s) = n, Len(u) = n
  PROVE  /\ DOMAIN (s \o u) = 1..n+n
         /\ \A l \in 1..n+n : (s \o u)[l] = IF l <= n THEN s[l] ELSE u[l - n]
<1>1. /\ DOMAIN (s \o u) = 1..Len(s)+Len(u)
      /\ \A l \in 1..Len(s)+Len(u) : (s \o u)[l] = IF l <= Len(s) THEN s[l] ELSE u[l - Len(s)]
  BY JoinParts
<1>2. 1..Len(s)+Len(u) = 1..n+n
  OBVIOUS
<1>3. DOMAIN (s \o u) = 1..n+n
  BY <1>1, <1>2
<1>4. \A l \in 1..n+n : (s \o u)[l] = IF l <= Len(s) THEN s[l] ELSE u[l - Len(s)]
  BY <1>1, <1>2
<1>5. ASSUME NEW l \in 1..n+n PROVE (s \o u)[l] = IF l <= n THEN s[l] ELSE u[l - n]
  <2>1. (s \o u)[l] = IF l <= Len(s) THEN s[l] ELSE u[l - Len(s)]
    BY <1>4
  <2> DEFINE join == (s \o u)[l]
  <2> HIDE DEF join
  <2>2. join = IF l <= Len(s) THEN s[l] ELSE u[l - Len(s)]
    BY <2>1 DEF join
  <2>3. join = IF l <= n THEN s[l] ELSE u[l - n]
    BY <2>2
  <2> QED
    BY <2>3 DEF join
<1> QED
  BY <1>3, <1>5

(* A readback of the group that starts alone finds nothing moved.          *)
LEMMA ReadingUntouched ==
  ASSUME TellOK, NEW t \in Tasks, job[t].open = <<>>, NEW j, NEW plan, DOMAIN j = CallFields,
         j.alone => \A u \in Tasks \ {t} : Busy(u) => Quiet(job[u].call)
  PROVE  /\ Reading(j, plan).call = j.call /\ Reading(j, plan).alone = j.alone
         /\ j.alone => Untouched(Reading(j, plan), Started(fetch, DOMAIN fetch))
<1> DEFINE k == Reading(j, plan)
           fs == Started(fetch, DOMAIN fetch)
           n == Len(use.members)
           todo == All("size") \o All("heads")
<1>1. k.call = j.call /\ k.alone = j.alone /\ k.todo = todo
  BY DEF Reading, CallFields
<1>2. n \in Nat /\ n > 0 /\ Members = 1..n /\ fetch \in Counters /\ use \in Uses /\ DOMAIN fetch = Ids /\ Members \subseteq Ids
  BY Typed
<1>3. /\ IsSequence(All("size")) /\ Len(All("size")) = n
      /\ IsSequence(All("heads")) /\ Len(All("heads")) = n
      /\ \A l \in Members : /\ All("size")[l].op = "size"
                            /\ All("heads")[l].op = "heads" /\ All("heads")[l].m = l
  BY <1>2, AllParts
<1> SUFFICES ASSUME j.alone PROVE Untouched(k, fs)
  BY <1>1
<1>4. \A x \in Ids : fs[x].done = 0
  BY <1>2, NoneOpen, StartedWords
<1> HIDE DEF k, fs, n
<1>5. /\ DOMAIN todo = 1..n+n
      /\ \A l \in 1..n+n : todo[l] = IF l <= n THEN All("size")[l] ELSE All("heads")[l - n]
  BY <1>2, <1>3, TwoHalves
<1> HIDE DEF todo
<1>6. ASSUME NEW l \in DOMAIN todo
      PROVE  IF l <= n THEN todo[l].op = "size" ELSE todo[l].op = "heads" /\ todo[l].m = l - n /\ l - n \in Members
  <2>1. CASE l <= n
    <3>1. l \in Members
      BY <1>2, <1>5, <2>1
    <3>2. todo[l] = All("size")[l]
      BY <1>5, <2>1
    <3> QED
      BY <1>3, <2>1, <3>1, <3>2
  <2>2. CASE ~(l <= n)
    <3>1. l - n \in Members
      BY <1>2, <1>5, <2>2
    <3>2. todo[l] = All("heads")[l - n]
      BY <1>5, <2>2
    <3> QED
      BY <1>3, <2>2, <3>1, <3>2
  <2> QED
    BY <2>1, <2>2
<1>7. \A i \in Members : fs[i].done = 0
  BY <1>2, <1>4
<1>8. \A l \in DOMAIN todo : todo[l].op = "heads" => fs[todo[l].m].done = 0
  BY <1>6, <1>7
<1>9. ASSUME NEW l \in DOMAIN todo, NEW p \in DOMAIN todo, l < p, todo[l].op # "size", todo[p].op = "heads"
      PROVE  todo[l].m # todo[p].m
  <2>1. l \in Nat /\ p \in Nat
    BY <1>2, <1>5
  <2>2. ~(l <= n) /\ ~(p <= n)
    BY <1>2, <1>6, <1>9, <2>1
  <2>3. todo[l].m = l - n /\ todo[p].m = p - n
    BY <1>6, <2>2
  <2> QED
    BY <1>2, <1>9, <2>1, <2>3
<1> QED
  BY <1>1, <1>7, <1>8, <1>9 DEF Untouched
-----------------------------------------------------------------------------
(* The steps, one by one.                                                  *)

LEMMA ConfigureTells ==
  ASSUME TellOK, NEW t \in Tasks, Configure(t)
  PROVE  TellNext
<1> DEFINE j == Advanced(t)
<1>1. Busy(t) /\ Head(job[t].todo).op = "configure" /\ Goes(t, j) /\ use' = use
  BY Zenon DEF Configure, Now
<1>2. j.call = job[t].call /\ j.open = job[t].open /\ DOMAIN job[t] = CallFields
  BY <1>1, AdvancedParts DEF TellOK
<1>3. j.alone = job[t].alone
  BY <1>2 DEF Advanced, CallFields
<1>4. j.open = <<>>
  BY <1>1, <1>2, Phase DEF TellOK, Arming
<1>5. ~Quiet(job[t].call)
  BY <1>1, NotQuiet
<1> HIDE DEF j
<1> QED
  BY <1>1, <1>2, <1>3, <1>4, <1>5, CallTells

LEMMA ArmTells ==
  ASSUME TellOK, NEW t \in Tasks, ArmMember(t)
  PROVE  TellNext
<1> DEFINE j == Advanced(t)
           k == [j EXCEPT !.todo = All("status")]
<1>1. /\ Busy(t) /\ Head(job[t].todo).op = "arm" /\ use' = use
      /\ Goes(t, j) \/ Goes(t, k) \/ Ends(t, j, "done", j.plan) \/ Ends(t, j, "raised", j.plan)
  BY Zenon DEF ArmMember, Now
<1>2. j.call = job[t].call /\ j.open = job[t].open /\ DOMAIN job[t] = CallFields /\ DOMAIN j = CallFields
  BY <1>1, AdvancedParts DEF TellOK
<1>3. j.alone = job[t].alone
  BY <1>2 DEF Advanced, CallFields
<1>4. j.open = <<>>
  BY <1>1, <1>2, Phase DEF TellOK, Arming
<1>5. ~Quiet(job[t].call)
  BY <1>1, NotQuiet
<1> HIDE DEF j
<1>6. k.call = j.call /\ k.open = j.open /\ k.alone = j.alone
  BY <1>2 DEF CallFields
<1> HIDE DEF k
<1>7. CASE Goes(t, k)
  BY <1>1, <1>2, <1>3, <1>4, <1>5, <1>6, <1>7, CallTells
<1>8. CASE Goes(t, j) \/ Ends(t, j, "done", j.plan) \/ Ends(t, j, "raised", j.plan)
  BY <1>1, <1>2, <1>3, <1>4, <1>5, <1>8, CallTells
<1> QED
  BY <1>1, <1>7, <1>8

LEMMA FailTells ==
  ASSUME TellOK, NEW t \in Tasks, Fail(t)
  PROVE  TellNext
<1>1. /\ Busy(t) /\ use' = use /\ core' = core /\ fetch' = Closed(fetch, job[t].open)
      /\ job' = [Jobs(t, job[t].call) EXCEPT ![t] = Idle]
  BY Zenon DEF Fail, Ends
<1>2. \A x \in Members : fetch'[x].done = fetch[x].done
  BY <1>1, Typed, ClosedWords
<1>3. StaysCompany(t, job[t].call, Idle) /\ Idle.todo = <<>>
  BY DEF StaysCompany, Idle
<1> QED
  BY <1>1, <1>2, <1>3, TaskTells

(* The readback of a group that begins after a wait.                       *)
LEMMA GroupReadTells ==
  ASSUME TellOK, use' = use, NEW t \in Tasks, Busy(t), ~Quiet(job[t].call), job[t].open = <<>>,
         NEW j, NEW plan, DOMAIN j = CallFields, j.call = job[t].call, j.alone = job[t].alone,
         Goes(t, Reading(j, plan)), fetch' = Started(fetch, DOMAIN fetch)
  PROVE  TellNext
<1>1. j.alone => \A u \in Tasks \ {t} : Busy(u) => Quiet(job[u].call)
  BY DEF TellOK, CompanyOK
<1> DEFINE k == Reading(j, plan)
<1>2. /\ k.call = j.call /\ k.alone = j.alone
      /\ j.alone => Untouched(k, Started(fetch, DOMAIN fetch))
  BY <1>1, ReadingUntouched
<1>3. Goes(t, k)
  OBVIOUS
<1> HIDE DEF k
<1> QED
  BY <1>2, <1>3, CallTells

LEMMA StatusTells ==
  ASSUME TellOK, NEW t \in Tasks, ReadStatus(t)
  PROVE  TellNext
<1> DEFINE c == core[Head(job[t].todo).m]
           j == [Advanced(t) EXCEPT !.got = Append(Advanced(t).got, [state |-> c.mode, triggered |-> c.triggered])]
           whole == \A k \in DOMAIN j.got : j.got[k].triggered
           k == [j EXCEPT !.whole = whole]
           again == [j EXCEPT !.got = <<>>, !.tries = j.tries - 1,
                              !.todo = IF j.tries > 1 THEN All("status") ELSE All("abort")]
<1>1. Busy(t) /\ Head(job[t].todo).op = "status" /\ use' = use
  BY Zenon DEF ReadStatus, Now
<1>2. \/ Goes(t, j)
      \/ Goes(t, Reading(k, armed.plan)) /\ fetch' = Started(fetch, DOMAIN fetch)
      \/ Goes(t, again)
  BY Zenon DEF ReadStatus
<1>3. /\ DOMAIN job[t] = CallFields /\ DOMAIN Advanced(t) = CallFields
      /\ Advanced(t).call = job[t].call /\ Advanced(t).open = job[t].open
  BY <1>1, AdvancedParts DEF TellOK
<1>4. Advanced(t).alone = job[t].alone
  BY <1>3 DEF Advanced, CallFields
<1>5. job[t].open = <<>> /\ ~Quiet(job[t].call)
  BY <1>1, Phase, NotQuiet DEF TellOK
<1>6. DOMAIN j = CallFields /\ j.call = job[t].call /\ j.open = <<>> /\ j.alone = job[t].alone
  BY <1>3, <1>4, <1>5 DEF CallFields
<1> HIDE DEF j, whole
<1>7. /\ DOMAIN k = CallFields /\ k.call = j.call /\ k.alone = j.alone
      /\ again.call = j.call /\ again.alone = j.alone /\ again.open = j.open
  BY <1>6 DEF CallFields
<1> HIDE DEF k, again
<1>8. CASE Goes(t, j)
  BY <1>1, <1>5, <1>6, <1>8, CallTells
<1>9. CASE Goes(t, Reading(k, armed.plan)) /\ fetch' = Started(fetch, DOMAIN fetch)
  BY <1>1, <1>5, <1>6, <1>7, <1>9, GroupReadTells
<1>10. CASE Goes(t, again)
  BY <1>1, <1>5, <1>6, <1>7, <1>10, CallTells
<1> QED
  BY <1>2, <1>8, <1>9, <1>10

LEMMA AbortTells ==
  ASSUME TellOK, NEW t \in Tasks, AbortMember(t)
  PROVE  TellNext
<1> DEFINE j == Advanced(t)
<1>1. Busy(t) /\ Head(job[t].todo).op = "abort" /\ use' = use
  BY Zenon DEF AbortMember, Now
<1>2. \/ Goes(t, j)
      \/ Goes(t, Reading(j, armed.plan)) /\ fetch' = Started(fetch, DOMAIN fetch)
      \/ Ends(t, j, "done", None)
  BY Zenon DEF AbortMember
<1>3. DOMAIN job[t] = CallFields /\ DOMAIN j = CallFields /\ j.call = job[t].call /\ j.open = job[t].open
  BY <1>1, AdvancedParts DEF TellOK
<1>4. j.alone = job[t].alone
  BY <1>3 DEF Advanced, CallFields
<1>5. job[t].open = <<>> /\ ~Quiet(job[t].call)
  BY <1>1, Phase, NotQuiet DEF TellOK
<1> HIDE DEF j
<1>6. CASE Goes(t, j) \/ Ends(t, j, "done", None)
  BY <1>1, <1>3, <1>4, <1>5, <1>6, CallTells
<1>7. CASE Goes(t, Reading(j, armed.plan)) /\ fetch' = Started(fetch, DOMAIN fetch)
  BY <1>1, <1>3, <1>4, <1>5, <1>7, GroupReadTells
<1> QED
  BY <1>2, <1>6, <1>7

(* A readback a step on, and the next member's counters opened.            *)
LEMMA RestUntouched ==
  ASSUME NEW j, IsSequence(j.todo), j.todo # <<>>, NEW k, k.todo = Tail(j.todo), Untouched(j, fetch), NEW fs,
         \A l \in DOMAIN j.todo : l # 1 /\ j.todo[l].op = "heads" => fs[j.todo[l].m].done = 0,
         k.todo[1].op = "size" => \A i \in Members : fs[i].done = 0
  PROVE  Untouched(k, fs)
<1> DEFINE n == Len(j.todo)
<1>1. /\ DOMAIN j.todo = 1..n /\ n \in Nat /\ n > 0 /\ DOMAIN k.todo = 1..n-1
      /\ \A l \in 1..n-1 : k.todo[l] = j.todo[l + 1]
  BY TailParts
<1> HIDE DEF n
<1>2. \A l \in 1..n-1 : l + 1 \in 1..n /\ l + 1 # 1 /\ k.todo[l] = j.todo[l + 1]
  BY <1>1
<1>3. \A l \in 1..n-1 : k.todo[l].op = "heads" => fs[k.todo[l].m].done = 0
  BY <1>1, <1>2
<1>4. ASSUME NEW l \in 1..n-1, NEW p \in 1..n-1, l < p, k.todo[l].op # "size", k.todo[p].op = "heads"
      PROVE  k.todo[l].m # k.todo[p].m
  <2>1. l + 1 < p + 1 /\ l + 1 \in DOMAIN j.todo /\ p + 1 \in DOMAIN j.todo
    BY <1>1, <1>2, <1>4
  <2> QED
    BY <1>2, <1>4, <2>1 DEF Untouched
<1> QED
  BY <1>1, <1>3, <1>4 DEF Untouched

LEMMA InsideUntouched ==
  ASSUME NEW j, DOMAIN j = CallFields, NEW fs \in Counters, Untouched(j, fs),
         \A l \in DOMAIN j.todo : j.todo[l].op = "heads" => j.todo[l].m \in Members
  PROVE  /\ Inside(j).call = j.call /\ Inside(j).alone = j.alone
         /\ Untouched(Inside(j), Begins(fs, j)) /\ Untouched(Inside(j), fs)
<1>1. Inside(j).call = j.call /\ Inside(j).alone = j.alone /\ Inside(j).todo = j.todo
  BY DEF Inside, CallFields
<1>2. Members \subseteq Ids
  BY DEF Ids
<1>3. \A i \in Members : fs[i].done = 0 => Begins(fs, j)[i].done = 0
  BY <1>2, StartedWords DEF Begins
<1> QED
  BY <1>1, <1>3 DEF Untouched

LEMMA DoneTells ==
  ASSUME TellOK, use' = use, NEW t \in Tasks, Busy(t), ~Quiet(job[t].call), NEW j, NEW m \in Members,
         NEW fs \in Counters, DOMAIN j = CallFields, j.call = job[t].call, j.alone = job[t].alone,
         MemberDone(t, j, m, fs), j.todo # <<>> /\ j.alone => Untouched(j, fs),
         \A l \in DOMAIN j.todo : StepOK(j.todo[l])
  PROVE  TellNext
<1> DEFINE shots == [w \in DOMAIN j.got[Len(j.got)].shots |->
                       IF Shots(m, j.plan[m])[w] = j.got[Len(j.got)].shots[w]
                       THEN Shots(m, j.plan[m])[w] ELSE None]
           k == [j EXCEPT !.open = Front(j.open), !.got[Len(j.got)].shots = shots]
           closed == Closed(fs, <<m>>)
<1>1. \/ j.todo # <<>> /\ Goes(t, Inside(k)) /\ fetch' = Begins(closed, k)
      \/ \E value : Ends(t, k, "done", value)
  BY Zenon DEF MemberDone
<1>2. DOMAIN k = CallFields /\ k.todo = j.todo /\ k.call = j.call /\ k.alone = j.alone
  BY DEF CallFields
<1>3. closed \in Counters /\ \A i \in Members : closed[i].done = fs[i].done
  <2>1. <<m>> \in Seq({m})
    OBVIOUS
  <2>2. IsSequence(<<m>>)
    BY <2>1, SequenceOver
  <2> QED
    BY <2>2, ClosedCounts, ClosedWords DEF Ids
<1> HIDE DEF k, closed
<1>4. CASE j.todo # <<>> /\ Goes(t, Inside(k)) /\ fetch' = Begins(closed, k)
  <2>1. \A l \in DOMAIN k.todo : k.todo[l].op = "heads" => k.todo[l].m \in Members
    BY <1>2 DEF StepOK
  <2>2. ASSUME k.alone PROVE Untouched(k, closed)
    BY <1>2, <1>3, <1>4, <2>1, <2>2 DEF Untouched
  <2>3. Inside(k).call = k.call /\ Inside(k).alone = k.alone
    BY <1>2 DEF Inside, CallFields
  <2>4. Inside(k).alone => Untouched(Inside(k), fetch')
    BY <1>2, <1>3, <1>4, <2>1, <2>2, <2>3, InsideUntouched
  <2> QED
    BY <1>2, <1>4, <2>3, <2>4, CallTells
<1>5. CASE \E value : Ends(t, k, "done", value)
  BY <1>2, <1>5, CallTells
<1> QED
  BY <1>1, <1>4, <1>5

LEMMA JobUntouched ==
  ASSUME TellOK, NEW t \in Tasks, Busy(t), job[t].open # <<>>, job[t].alone
  PROVE  Untouched(job[t], fetch)
BY DEF TellOK, ReadersOK, Reads

(* What a phase of reading has open.                                       *)
LEMMA ReadingOpen ==
  ASSUME TellOK, NEW t \in Tasks, Busy(t),
         Sizing(job[t]) \/ \E m \in Members : Transferring(job[t], m) \/ ReadingOwn(job[t], m)
  PROVE  job[t].open # <<>>
<1>1. IsSequence(GroupOpen) /\ Len(GroupOpen) > 0
  BY Typed, GroupOpenParts
<1>2. GroupOpen # <<>>
  BY <1>1
<1>3. \A m : Append(GroupOpen, m) # <<>> /\ <<m>> # <<>>
  BY <1>1, AppendParts
<1> QED
  BY <1>2, <1>3 DEF Sizing, Transferring, ReadingOwn

LEMMA SizeTells ==
  ASSUME TellOK, NEW t \in Tasks, ReadSize(t)
  PROVE  TellNext
<1> DEFINE m == Head(job[t].todo).m
           words == PlannedWords(M(m), Regions(m, job[t].plan[m]))
           j == [Advanced(t) EXCEPT !.words = Advanced(t).words + words]
<1>1. /\ Busy(t) /\ Head(job[t].todo).op = "size" /\ use' = use
      /\ Goes(t, Inside(j))
      /\ fetch' = IF Head(j.todo).op # "size" THEN Begins(Expected(fetch, 0, j.words), j) ELSE fetch
  BY Zenon DEF ReadSize, Now
<1>2. Sizing(job[t]) /\ TypeOK
  BY <1>1, Phase DEF TellOK, TasksOK
<1>3. /\ DOMAIN job[t] = CallFields /\ DOMAIN Advanced(t) = CallFields /\ Advanced(t).todo = Tail(job[t].todo)
      /\ Advanced(t).call = job[t].call /\ Advanced(t).words = job[t].words
      /\ IsSequence(Tail(job[t].todo)) /\ Head(job[t].todo) = job[t].todo[1]
  BY <1>1, AdvancedParts DEF TellOK
<1>4. Advanced(t).alone = job[t].alone
  BY <1>3 DEF Advanced, CallFields
<1>5. m \in Members
  BY <1>1, HeadStep DEF TellOK, TasksOK, StepOK
<1>6. words \in Nat
  <2>1. MemberOK(M(m)) /\ Readable(M(m), job[t].plan[m])
    BY <1>2, <1>5, Typed, MembersOK DEF Sizing, AllReadable
  <2>2. RegionsOK(Regions(m, job[t].plan[m]))
    BY <1>2, <1>5, <2>1, RegionsAreOK
  <2> QED
    BY <2>1, <2>2, PlannedWordsAreNat
<1> HIDE DEF m, words
<1>7. /\ DOMAIN j = CallFields /\ j.todo = Tail(job[t].todo) /\ j.call = job[t].call
      /\ j.words = job[t].words + words /\ j.alone = job[t].alone
  BY <1>3, <1>4 DEF CallFields
<1> HIDE DEF j
<1>8. j.words \in Nat
  BY <1>2, <1>6, <1>7 DEF Sizing
<1>9. ~Quiet(job[t].call) /\ job[t].open # <<>>
  BY <1>1, <1>2, NotQuiet, ReadingOpen
<1>10. Inside(j).call = j.call /\ Inside(j).alone = j.alone
  BY <1>7 DEF Inside, CallFields
<1> DEFINE fs == Expected(fetch, 0, j.words)
<1>11. fs \in Counters /\ fetch \in Counters /\ \A i \in Members : fs[i].done = fetch[i].done
  <2>1. fetch \in Counters /\ 0 \in Ids /\ Members \subseteq Ids
    BY Typed
  <2> QED
    BY <1>8, <2>1, ExpectedCounts, ExpectedWords DEF Ids
<1> HIDE DEF fs
<1>12. fetch' = IF Head(j.todo).op # "size" THEN Begins(fs, j) ELSE fetch
  BY <1>1 DEF fs
<1>13. ASSUME j.alone PROVE Untouched(Inside(j), fetch')
  <2>1. Untouched(job[t], fetch) /\ IsSequence(job[t].todo) /\ job[t].todo # <<>>
    BY <1>1, <1>7, <1>9, <1>13, JobUntouched, HeadStep DEF TellOK, TasksOK
  <2>2. \A i \in Members : fetch[i].done = 0 /\ fs[i].done = 0
    BY <1>1, <1>3, <1>11, <2>1 DEF Untouched
  <2>3. \A l \in DOMAIN job[t].todo : StepOK(job[t].todo[l])
    BY <1>1, AdvancedParts DEF TellOK
  <2>4. \A l \in DOMAIN job[t].todo : job[t].todo[l].op = "heads" => job[t].todo[l].m \in Members
    BY <2>3 DEF StepOK
  <2>5. Untouched(j, fetch) /\ Untouched(j, fs)
    BY <1>7, <2>1, <2>2, <2>4, RestUntouched
  <2>6. \A l \in DOMAIN j.todo : j.todo[l].op = "heads" => j.todo[l].m \in Members
    <3>1. \A l \in DOMAIN Tail(job[t].todo) : StepOK(Tail(job[t].todo)[l])
      BY <1>1, AdvancedParts DEF TellOK
    <3> QED
      BY <1>7, <3>1 DEF StepOK
  <2> QED
    BY <1>7, <1>11, <1>12, <2>5, <2>6, InsideUntouched
<1> QED
  BY <1>1, <1>7, <1>9, <1>10, <1>13, CallTells

LEMMA BurstTells ==
  ASSUME TellOK, NEW t \in Tasks, ReadBurst(t)
  PROVE  TellNext
<1> DEFINE s == Head(job[t].todo)
           j == Advanced(t)
           moved == [fetch EXCEPT ![s.m].done = fetch[s.m].done + s.words]
<1>1. /\ Busy(t) /\ s.op = "burst" /\ use' = use
      /\ MemberDone(t, j, s.m, moved) \/ (j.todo # <<>> /\ Goes(t, j) /\ fetch' = moved)
  BY DEF ReadBurst, Now
<1>2. /\ DOMAIN job[t] = CallFields /\ DOMAIN j = CallFields /\ j.todo = Tail(job[t].todo) /\ j.call = job[t].call
      /\ IsSequence(Tail(job[t].todo)) /\ s = job[t].todo[1] /\ IsSequence(job[t].todo) /\ job[t].todo # <<>>
      /\ DOMAIN job[t].todo = 1..Len(job[t].todo) /\ Len(job[t].todo) \in Nat /\ 1 \in DOMAIN job[t].todo
      /\ \A l \in DOMAIN Tail(job[t].todo) : StepOK(Tail(job[t].todo)[l])
  BY <1>1, AdvancedParts, HeadStep DEF TellOK, TasksOK
<1>3. j.alone = job[t].alone
  BY <1>2 DEF Advanced, CallFields
<1>4. StepOK(s) /\ s.m \in Members /\ s.words \in Nat
  BY <1>1, HeadStep DEF TellOK, TasksOK, StepOK
<1>5. ~Quiet(job[t].call) /\ job[t].open # <<>>
  BY <1>1, NotQuiet, Phase, ReadingOpen DEF TellOK
<1> HIDE DEF j, s
<1>6. /\ moved \in Counters /\ \A i \in Members : i # s.m => moved[i].done = fetch[i].done
  <2>1. fetch \in Counters /\ s.m \in {0} \union Members
    BY <1>4, Typed
  <2>2. moved \in Counters
    BY <1>4, <2>1, MovedCounts
  <2> QED
    BY <2>1, <2>2 DEF Counters
<1> HIDE DEF moved
<1>7. ASSUME j.todo # <<>>, j.alone PROVE Untouched(j, moved)
  <2>1. Untouched(job[t], fetch)
    BY <1>1, <1>3, <1>5, <1>7, JobUntouched
  <2>2. ASSUME NEW l \in DOMAIN job[t].todo, l # 1, job[t].todo[l].op = "heads"
        PROVE  moved[job[t].todo[l].m].done = 0
    <3>1. 1 < l
      BY <1>2, <2>2
    <3>2. job[t].todo[l].m # s.m
      BY <1>1, <1>2, <2>1, <2>2, <3>1 DEF Untouched
    <3>3. job[t].todo[l].m \in Members
      <4>1. StepOK(job[t].todo[l])
        BY <1>1, <2>2, AdvancedParts DEF TellOK
      <4> QED
        BY <2>2, <4>1 DEF StepOK
    <3> QED
      BY <1>6, <2>1, <2>2, <3>2, <3>3 DEF Untouched
  <2>3. j.todo[1].op # "size"
    <3>1. PICK m \in Members : Transferring(job[t], m) \/ ReadingOwn(job[t], m)
      BY <1>1, Phase DEF TellOK, s
    <3>2. Only(job[t], {"heads", "burst"})
      BY <3>1 DEF Transferring, ReadingOwn, Only
    <3>3. 1 \in DOMAIN j.todo
      BY <1>2, <1>7, TailParts
    <3>4. 1 + 1 \in DOMAIN job[t].todo /\ j.todo[1] = job[t].todo[1 + 1]
      BY <1>2, <3>3, TailParts
    <3> QED
      BY <3>2, <3>4 DEF Only
  <2> QED
    BY <1>2, <2>1, <2>2, <2>3, RestUntouched
<1>8. CASE MemberDone(t, j, s.m, moved)
  BY <1>1, <1>2, <1>3, <1>4, <1>5, <1>6, <1>7, <1>8, DoneTells
<1>9. CASE j.todo # <<>> /\ Goes(t, j) /\ fetch' = moved
  BY <1>1, <1>2, <1>3, <1>5, <1>7, <1>9, CallTells
<1> QED
  BY <1>1, <1>8, <1>9

LEMMA HeadsTells ==
  ASSUME TellOK, NEW t \in Tasks, ReadHeads(t)
  PROVE  TellNext
<1> DEFINE n == Len(job[t].todo)
<1>0. PICK m \in Members, words \in Nat, b \in Nat : \E j : HeadsRead(t, m, words, b, j)
  BY HeadsStep DEF TellOK
<1>1. PICK j : HeadsRead(t, m, words, b, j)
  BY <1>0
<1> DEFINE expected == Expected(fetch, m, words)
<1>2. /\ Busy(t) /\ Head(job[t].todo).op = "heads" /\ Head(job[t].todo) = job[t].todo[1] /\ job[t].todo[1].m = m
      /\ n \in Nat /\ n > 0 /\ DOMAIN job[t].todo = 1..n /\ use' = use
      /\ Transferring(job[t], m) \/ ReadingOwn(job[t], m)
  BY <1>1 DEF HeadsRead
<1>3. /\ DOMAIN j = CallFields /\ j.call = job[t].call /\ j.open = job[t].open /\ j.alone = job[t].alone
      /\ IsSequence(j.todo) /\ Len(j.todo) = b + (n - 1) /\ DOMAIN j.todo = 1..b+(n-1)
      /\ \A k \in 1..b : k \in 1..b+(n-1) /\ j.todo[k].op = "burst" /\ j.todo[k].m = m
      /\ \A k \in 1..b+(n-1) : ~(k <= b) => k - b \in 1..n-1 /\ j.todo[k] = job[t].todo[(k - b) + 1]
      /\ \A k \in DOMAIN j.todo : StepOK(j.todo[k])
  BY <1>1 DEF HeadsRead
<1>4. \/ b = 0 /\ MemberDone(t, j, m, expected)
      \/ b # 0 /\ Goes(t, j) /\ fetch' = expected
  BY <1>1 DEF HeadsRead
<1>5. expected \in Counters /\ \A i \in Members : expected[i].done = fetch[i].done
  <2>1. fetch \in Counters /\ m \in Ids /\ Members \subseteq Ids
    BY Typed
  <2> QED
    BY <2>1, ExpectedCounts, ExpectedWords DEF Ids
<1>6. ~Quiet(job[t].call) /\ job[t].open # <<>>
  BY <1>2, NotQuiet, ReadingOpen
<1> HIDE DEF n, expected
<1>7. \A k \in 1..b+(n-1) : IF k <= b THEN k \in 1..b ELSE k - b \in 1..n-1 /\ (k - b) + 1 \in 1..n /\ 1 < (k - b) + 1
  BY <1>2
<1>8. ASSUME j.todo # <<>>, j.alone PROVE Untouched(j, expected)
  <2>1. Untouched(job[t], fetch)
    BY <1>2, <1>3, <1>6, <1>8, JobUntouched
  <2>2. Only(job[t], {"heads", "burst"})
    BY <1>2 DEF Transferring, ReadingOwn, Only
  <2>3. ASSUME NEW k \in 1..b+(n-1) PROVE j.todo[k].op # "size"
    <3>1. CASE k <= b
      BY <1>3, <1>7, <3>1
    <3>2. CASE ~(k <= b)
      <4>1. (k - b) + 1 \in DOMAIN job[t].todo /\ j.todo[k] = job[t].todo[(k - b) + 1]
        BY <1>2, <1>3, <1>7, <3>2
      <4> QED
        BY <2>2, <4>1 DEF Only
    <3> QED
      BY <3>1, <3>2
  <2>4. 1 \in 1..b+(n-1)
    <3>1. Len(j.todo) > 0
      BY <1>3, <1>8, SequenceParts
    <3> QED
      BY <1>2, <1>3, <3>1
  <2>5. ASSUME NEW k \in 1..b+(n-1), j.todo[k].op = "heads"
        PROVE  /\ ~(k <= b) /\ (k - b) + 1 \in DOMAIN job[t].todo /\ 1 < (k - b) + 1
               /\ j.todo[k] = job[t].todo[(k - b) + 1] /\ j.todo[k].m # m /\ j.todo[k].m \in Members
               /\ fetch[j.todo[k].m].done = 0
    <3>1. ~(k <= b)
      BY <1>3, <1>7, <2>5
    <3>2. (k - b) + 1 \in DOMAIN job[t].todo /\ 1 < (k - b) + 1 /\ j.todo[k] = job[t].todo[(k - b) + 1]
      BY <1>2, <1>3, <1>7, <3>1
    <3>3. 1 \in DOMAIN job[t].todo /\ job[t].todo[1].op # "size"
      BY <1>2
    <3>4. j.todo[k].m # m
      BY <1>2, <2>1, <2>5, <3>2, <3>3 DEF Untouched
    <3>5. j.todo[k].m \in Members
      BY <1>3, <2>5 DEF StepOK
    <3>6. fetch[j.todo[k].m].done = 0
      BY <2>1, <2>5, <3>2 DEF Untouched
    <3> QED
      BY <3>1, <3>2, <3>4, <3>5, <3>6
  <2>6. ASSUME NEW k \in 1..b+(n-1), NEW l \in 1..b+(n-1), k < l, j.todo[l].op = "heads"
        PROVE  j.todo[k].m # j.todo[l].m
    <3>1. CASE k <= b
      BY <1>3, <1>7, <2>5, <2>6, <3>1
    <3>2. CASE ~(k <= b)
      <4> DEFINE p == (k - b) + 1
                 q == (l - b) + 1
      <4>1. p \in DOMAIN job[t].todo /\ j.todo[k] = job[t].todo[p] /\ p < q
        BY <1>2, <1>3, <1>7, <2>6, <3>2
      <4>2. q \in DOMAIN job[t].todo /\ j.todo[l] = job[t].todo[q]
        BY <2>5, <2>6
      <4> HIDE DEF p, q
      <4>3. job[t].todo[p].op # "size"
        BY <2>3, <4>1
      <4> QED
        BY <2>1, <2>6, <4>1, <4>2, <4>3 DEF Untouched
    <3> QED
      BY <3>1, <3>2
  <2>7. \A k \in 1..b+(n-1) : j.todo[k].op = "heads" => expected[j.todo[k].m].done = 0
    BY <1>5, <2>5
  <2> QED
    BY <1>3, <2>3, <2>4, <2>6, <2>7 DEF Untouched
<1>9. CASE b = 0 /\ MemberDone(t, j, m, expected)
  BY <1>2, <1>3, <1>5, <1>6, <1>8, <1>9, DoneTells
<1>10. CASE b # 0 /\ Goes(t, j) /\ fetch' = expected
  <2>1. j.todo # <<>>
    <3>1. b + (n - 1) > 0
      BY <1>2, <1>10
    <3> QED
      BY <1>3, <3>1
  <2> QED
    BY <1>2, <1>3, <1>6, <1>8, <1>10, <2>1, CallTells
<1> QED
  BY <1>4, <1>9, <1>10

(* A poll, as it is answered.                                              *)
Asking(k) ==
  /\ IsSequence(k.got) /\ Len(k.got) + Len(k.todo) = Len(use.members)
  /\ \A l \in DOMAIN k.todo : k.todo[l].m = Len(k.got) + l
  /\ \A l \in DOMAIN k.got : k.got[l].state \in DOMAIN Rank

LEMMA AnsweredIs ==
  ASSUME NEW k, PollCall(k)
  PROVE  \E n \in 0..Len(k.todo) :
           Answered(k, fetch) = [k EXCEPT !.got = k.got \o [l \in 1..n |-> FromMemory(k.todo[l].m, fetch)],
                                          !.todo = SubSeq(k.todo, n + 1, Len(k.todo))]
<1> DEFINE asked == {l \in DOMAIN k.todo : fetch[k.todo[l].m].depth = 0}
           n == IF asked = {} THEN Len(k.todo) ELSE Smallest(asked) - 1
<1>1. Len(k.todo) \in Nat /\ DOMAIN k.todo = 1..Len(k.todo)
  BY SequenceParts DEF PollCall
<1>2. n \in 0..Len(k.todo)
  <2>1. CASE asked = {}
    BY <1>1, <2>1
  <2>2. CASE asked # {}
    <3>1. asked \in SUBSET Nat /\ asked \subseteq 1..Len(k.todo)
      BY <1>1
    <3> HIDE DEF asked
    <3>2. Smallest(asked) \in 1..Len(k.todo)
      BY <2>2, <3>1, SmallestIsLeast
    <3> HIDE DEF n
    <3>3. n = Smallest(asked) - 1
      BY <2>2 DEF n
    <3> QED
      BY <1>1, <3>2, <3>3
  <2> QED
    BY <2>1, <2>2
<1>3. Answered(k, fetch) = [k EXCEPT !.got = k.got \o [l \in 1..n |-> FromMemory(k.todo[l].m, fetch)],
                                     !.todo = SubSeq(k.todo, n + 1, Len(k.todo))]
  BY DEF Answered
<1> HIDE DEF n
<1> QED
  BY <1>2, <1>3

LEMMA AnsweredTells ==
  ASSUME NEW k, PollCall(k), Asking(k), NEW cores, Witnessed(k, cores), NEW a, a = Answered(k, fetch)
  PROVE  Asking(a) /\ Witnessed(a, cores) /\ a.call = k.call /\ a.alone = k.alone
<1>1. PICK n \in 0..Len(k.todo) :
        a = [k EXCEPT !.got = k.got \o [l \in 1..n |-> FromMemory(k.todo[l].m, fetch)],
                      !.todo = SubSeq(k.todo, n + 1, Len(k.todo))]
  BY AnsweredIs
<1> DEFINE told == [l \in 1..n |-> FromMemory(k.todo[l].m, fetch)]
           rest == SubSeq(k.todo, n + 1, Len(k.todo))
           g == Len(k.got)
           d == Len(k.todo)
<1>2. a.got = k.got \o told /\ a.todo = rest /\ a.call = k.call /\ a.alone = k.alone
  <2>1. DOMAIN k = CallFields
    BY DEF PollCall
  <2> HIDE DEF told, rest
  <2>2. a = [k EXCEPT !.got = k.got \o told, !.todo = rest]
    BY <1>1 DEF told, rest
  <2> QED
    BY <2>1, <2>2 DEF CallFields
<1>3. /\ g \in Nat /\ d \in Nat /\ DOMAIN k.got = 1..g /\ DOMAIN k.todo = 1..d /\ IsSequence(k.got) /\ IsSequence(k.todo)
      /\ g + d = Len(use.members) /\ n \in Nat /\ n <= d
  <2>1. IsSequence(k.got) /\ IsSequence(k.todo) /\ g + d = Len(use.members)
    BY DEF Asking, PollCall
  <2>2. g \in Nat /\ d \in Nat /\ DOMAIN k.got = 1..g /\ DOMAIN k.todo = 1..d
    BY <2>1, SequenceParts
  <2>3. n \in 0..d
    OBVIOUS
  <2> HIDE DEF g, d
  <2> QED
    BY <2>1, <2>2, <2>3
<1>4. /\ IsSequence(rest) /\ Len(rest) = d - n /\ DOMAIN rest = 1..d-n
      /\ \A l \in 1..d-n : rest[l] = k.todo[l + n]
  BY <1>3, RestParts
<1>5. /\ IsSequence(told) /\ Len(told) = n /\ DOMAIN told = 1..n
      /\ \A l \in 1..n : told[l].state = "reading"
  <2>1. \A l \in 1..n : told[l].state = "reading"
    BY DEF FromMemory
  <2> DEFINE E == {told[l] : l \in 1..n}
  <2>2. told \in [1..n -> E]
    OBVIOUS
  <2> HIDE DEF told, E
  <2> QED
    BY <1>3, <2>1, <2>2, FunctionIsSequence
<1> HIDE DEF told, rest
<1> DEFINE joined == k.got \o told
<1>6. IsSequence(joined) /\ Len(joined) = g + Len(told) /\ DOMAIN joined = 1..g+Len(told)
      /\ \A l \in 1..g+Len(told) : joined[l] = IF l <= g THEN k.got[l] ELSE told[l - g]
  BY <1>3, <1>5, JoinParts
<1> HIDE DEF joined, g, d
<1>7. IsSequence(joined) /\ Len(joined) = g + n /\ DOMAIN joined = 1..g+n
  BY <1>5, <1>6
<1>8. ASSUME NEW l \in 1..g+n
      PROVE  IF l <= g THEN l \in 1..g /\ joined[l] = k.got[l] ELSE joined[l].state = "reading"
  <2>1. joined[l] = IF l <= g THEN k.got[l] ELSE told[l - g]
    BY <1>5, <1>6
  <2>2. ~(l <= g) => l - g \in 1..n
    BY <1>3
  <2> QED
    BY <1>3, <1>5, <2>1, <2>2
<1>9. Len(joined) + Len(rest) = Len(use.members)
  <2>1. (g + n) + (d - n) = g + d
    BY <1>3
  <2>2. Len(joined) + Len(rest) = (g + n) + (d - n)
    BY <1>4, <1>7, Zenon
  <2> QED
    BY <1>3, <2>1, <2>2, Zenon
<1>10. ASSUME NEW l \in DOMAIN rest PROVE rest[l].m = Len(joined) + l
  <2>1. l + n \in 1..d /\ rest[l] = k.todo[l + n] /\ l \in Nat
    BY <1>3, <1>4
  <2>2. k.todo[l + n].m = g + (l + n)
    BY <1>3, <2>1 DEF Asking, g
  <2> QED
    BY <1>3, <1>7, <2>1, <2>2
<1>11. "reading" \in DOMAIN Rank
  BY DEF Rank
<1>12. \A l \in DOMAIN joined : joined[l].state \in DOMAIN Rank
  BY <1>3, <1>7, <1>8, <1>11 DEF Asking
<1>13. Asking(a)
  <2>1. a.got = joined
    BY <1>2 DEF joined
  <2> QED
    BY <1>2, <1>7, <1>9, <1>10, <1>12, <2>1 DEF Asking
<1>14. Witnessed(a, cores)
  <2>1. a.got = joined
    BY <1>2 DEF joined
  <2> SUFFICES ASSUME k.alone, NEW l \in 1..g+n, joined[l].state = "idle" PROVE cores[l].mode = "idle"
    BY <1>2, <1>7, <2>1 DEF Witnessed
  <2>2. l \in DOMAIN k.got /\ joined[l] = k.got[l]
    BY <1>3, <1>8
  <2> QED
    BY <2>2 DEF Witnessed
<1> QED
  BY <1>2, <1>13, <1>14

(* The states of the members, all idle if what they compose to is.         *)
LEMMA ComposedIdle ==
  ASSUME NEW states, states # {}, states \subseteq DOMAIN Rank, Compose(states) = "idle"
  PROVE  \A s \in states : s = "idle"
<1>1. /\ DOMAIN Rank = {"idle", "armed", "capturing", "reading"}
      /\ Rank["idle"] = 0 /\ Rank["armed"] = 1 /\ Rank["capturing"] = 2 /\ Rank["reading"] = 3
  BY DEF Rank
<1> HIDE DEF Rank
<1>2. \E s \in states : \A o \in states : Rank[o] <= Rank[s]
  <2>1. CASE "reading" \in states
    BY <1>1, <2>1
  <2>2. CASE "reading" \notin states /\ "capturing" \in states
    BY <1>1, <2>2
  <2>3. CASE "reading" \notin states /\ "capturing" \notin states /\ "armed" \in states
    BY <1>1, <2>3
  <2>4. CASE "reading" \notin states /\ "capturing" \notin states /\ "armed" \notin states
    BY <1>1, <2>4
  <2> QED
    BY <2>1, <2>2, <2>3, <2>4
<1>3. \A o \in states : Rank[o] <= Rank["idle"]
  BY <1>2 DEF Compose
<1> QED
  BY <1>1, <1>3

(* A poll that is over and says idle has found every member so.            *)
LEMMA PolledIdle ==
  ASSUME TellOK, NEW a, Asking(a), a.todo = <<>>, NEW cores, Witnessed(a, cores), a.alone,
         NEW fs, Polled(a.got, fs).state = "idle"
  PROVE  \A i \in Members : cores[i].mode = "idle"
<1>1. DOMAIN a.got = Members /\ 1 \in Members
  <2>1. Len(a.todo) = 0
    OBVIOUS
  <2>2. DOMAIN a.got = 1..Len(a.got) /\ Len(a.got) \in Nat
    BY SequenceParts DEF Asking
  <2>3. Len(a.got) = Len(use.members)
    BY <2>1, <2>2 DEF Asking
  <2> QED
    BY <2>2, <2>3, Typed
<1> DEFINE states == {a.got[k].state : k \in DOMAIN a.got}
<1>2. Compose(states) = "idle"
  BY DEF Polled
<1>3. states # {} /\ states \subseteq DOMAIN Rank
  BY <1>1 DEF Asking
<1>4. \A s \in states : s = "idle"
  <2> HIDE DEF states
  <2> QED
    BY <1>2, <1>3, ComposedIdle
<1>5. \A k \in Members : a.got[k].state = "idle"
  BY <1>1, <1>4
<1> QED
  BY <1>1, <1>5 DEF Witnessed

LEMMA AnsweredAlone ==
  ASSUME NEW k, PollCall(k)
  PROVE  Answered(k, fetch).call = k.call /\ Answered(k, fetch).alone = k.alone
<1>1. DOMAIN k = CallFields
  BY DEF PollCall
<1>2. \E got, todo : Answered(k, fetch) = [k EXCEPT !.got = got, !.todo = todo]
  BY AnsweredIs
<1> QED
  BY <1>1, <1>2 DEF CallFields

(* What a step of a poll leaves: more answers, or its outcome.             *)
LEMMA PollTells ==
  ASSUME TellOK, use' = use, fetch' = fetch, core' = core, NEW t \in Tasks, NEW k, PollCall(k),
         Quiet(k.call) => Asking(k) /\ Witnessed(k, core),
         Busy(t) => k.call = job[t].call, k.alone => \A u \in Tasks \ {t} : Busy(u) => Quiet(job[u].call),
         PollGoes(t, k)
  PROVE  TellNext
<1> DEFINE a == Answered(k, fetch)
<1>1. \/ Goes(t, a)
      \/ Ends(t, a, "done", Polled(a.got, fetch))
  BY DEF PollGoes
<1>2. PollCall(a) /\ a.call = k.call /\ a.alone = k.alone
  <2>1. Answered(k, fetch).call = k.call /\ Answered(k, fetch).alone = k.alone
    BY AnsweredAlone
  <2>2. PollCall(a)
    <3>1. PICK n \in 0..Len(k.todo) :
            a = [k EXCEPT !.got = k.got \o [l \in 1..n |-> FromMemory(k.todo[l].m, fetch)],
                          !.todo = SubSeq(k.todo, n + 1, Len(k.todo))]
      BY AnsweredIs
    <3> HIDE DEF a
    <3>2. PICK got : a = [k EXCEPT !.got = got, !.todo = SubSeq(k.todo, n + 1, Len(k.todo))]
      BY <3>1
    <3> DEFINE rest == SubSeq(k.todo, n + 1, Len(k.todo))
    <3>3. IsSequence(k.todo) /\ DOMAIN k.todo = 1..Len(k.todo) /\ Len(k.todo) \in Nat
      BY SequenceParts DEF PollCall
    <3>4. /\ IsSequence(rest) /\ DOMAIN rest = 1..Len(k.todo)-n
          /\ \A l \in 1..Len(k.todo)-n : rest[l] = k.todo[l + n]
      BY <3>3, RestParts
    <3> HIDE DEF rest
    <3>5. a = [k EXCEPT !.got = got, !.todo = rest]
      BY <3>2 DEF rest
    <3>6. DOMAIN a = CallFields /\ a.todo = rest /\ a.open = k.open
      BY <3>5 DEF PollCall, CallFields
    <3>7. \A l \in DOMAIN rest : l + n \in DOMAIN k.todo /\ rest[l] = k.todo[l + n]
      BY <3>3, <3>4
    <3> QED
      BY <3>4, <3>6, <3>7 DEF PollCall
  <2> QED
    BY <2>1, <2>2
<1>3. Quiet(k.call) => Asking(a) /\ Witnessed(a, core)
  BY AnsweredTells
<1> HIDE DEF a
<1>4. StaysCompany(t, a.call, a) /\ StaysCompany(t, a.call, Idle) /\ Idle.todo = <<>>
  BY <1>2 DEF StaysCompany, Idle
<1>5. Quiet(a.call) => Polling(a) /\ Witnessed(a, core')
  BY <1>2, <1>3 DEF Polling, Asking, PollCall, Only
<1>6. CASE Goes(t, a)
  <2>1. job' = [Jobs(t, a.call) EXCEPT ![t] = a]
    BY <1>6 DEF Goes
  <2>2. a.open = <<>>
    BY <1>2 DEF PollCall
  <2> QED
    BY <1>4, <1>5, <2>1, <2>2, TaskTells
<1>7. CASE Ends(t, a, "done", Polled(a.got, fetch))
  <2>1. job' = [Jobs(t, a.call) EXCEPT ![t] = Idle]
    BY <1>7 DEF Ends
  <2> QED
    BY <1>4, <2>1, TaskTells
<1> QED
  BY <1>1, <1>6, <1>7

(* The poll that a member answers.                                         *)
AskedMember(t) ==
  LET c == core[Head(job[t].todo).m]
  IN [Advanced(t) EXCEPT !.got = Append(Advanced(t).got, [state |-> c.mode, triggered |-> c.triggered, fetch |-> None])]

LEMMA AskedTells ==
  ASSUME TellOK, NEW t \in Tasks, Busy(t), Head(job[t].todo).op = "poll"
  PROVE  /\ PollCall(AskedMember(t)) /\ AskedMember(t).call = job[t].call /\ AskedMember(t).alone = job[t].alone
         /\ Quiet(job[t].call) => Asking(AskedMember(t)) /\ Witnessed(AskedMember(t), core)
<1> DEFINE s == Head(job[t].todo)
           j == Advanced(t)
           e == [state |-> core[s.m].mode, triggered |-> core[s.m].triggered, fetch |-> None]
           k == [j EXCEPT !.got = Append(j.got, e)]
           d == Len(job[t].todo)
<1>1. AskedMember(t) = k
  BY DEF AskedMember
<1>2. job[t].open = <<>> /\ Only(job[t], {"poll"})
  BY Phase DEF TellOK
<1>3. /\ DOMAIN job[t] = CallFields /\ DOMAIN j = CallFields /\ j.todo = Tail(job[t].todo) /\ j.call = job[t].call
      /\ j.open = job[t].open /\ j.got = job[t].got /\ IsSequence(Tail(job[t].todo))
      /\ DOMAIN Tail(job[t].todo) = 1..d-1 /\ DOMAIN job[t].todo = 1..d /\ d \in Nat /\ d > 0
      /\ Len(Tail(job[t].todo)) = d - 1 /\ s = job[t].todo[1]
      /\ \A l \in 1..d-1 : Tail(job[t].todo)[l] = job[t].todo[l + 1] /\ StepOK(Tail(job[t].todo)[l])
  BY AdvancedParts DEF TellOK
<1>4. j.alone = job[t].alone
  BY <1>3 DEF Advanced, CallFields
<1>5. StepOK(s) /\ s.m \in Members
  BY HeadStep DEF TellOK, TasksOK, StepOK
<1>6. e.state = core[s.m].mode /\ core[s.m].mode \in {"idle", "armed", "capturing"}
  <2>1. CoreOK(s.m, core[s.m])
    BY <1>5 DEF TellOK, TasksOK, TypeOK
  <2> QED
    BY <2>1 DEF CoreOK
<1> HIDE DEF j, s, e, d
<1>7. /\ DOMAIN k = CallFields /\ k.todo = Tail(job[t].todo) /\ k.call = job[t].call /\ k.open = <<>>
      /\ k.alone = job[t].alone /\ k.got = Append(job[t].got, e)
  BY <1>2, <1>3, <1>4 DEF CallFields
<1> HIDE DEF k
<1>8. \A l \in 1..d-1 : l + 1 \in 1..d /\ k.todo[l] = job[t].todo[l + 1]
  BY <1>3, <1>7
<1>9. PollCall(k)
  <2>1. ASSUME NEW l \in 1..d-1 PROVE k.todo[l].op = "poll" /\ k.todo[l].m \in Members
    <3>1. k.todo[l].op = "poll"
      BY <1>2, <1>3, <1>8 DEF Only
    <3> QED
      BY <1>3, <1>7, <3>1 DEF StepOK
  <2> QED
    BY <1>3, <1>7, <2>1 DEF PollCall
<1>10. ASSUME Quiet(job[t].call) PROVE Asking(k) /\ Witnessed(k, core)
  <2> DEFINE g == Len(job[t].got)
  <2>1. Polling(job[t]) /\ Witnessed(job[t], core)
    BY <1>10 DEF TellOK, PollsOK
  <2>2. /\ IsSequence(job[t].got) /\ g + d = Len(use.members)
        /\ \A l \in 1..d : job[t].todo[l].m = g + l
        /\ \A l \in DOMAIN job[t].got : job[t].got[l].state \in DOMAIN Rank
    BY <1>3, <2>1 DEF Polling, d
  <2>3. DOMAIN job[t].got = 1..g /\ g \in Nat
    BY <2>2, SequenceParts
  <2>4. /\ IsSequence(k.got) /\ Len(k.got) = g + 1 /\ DOMAIN k.got = 1..g+1
        /\ \A l \in 1..g : k.got[l] = job[t].got[l]
        /\ k.got[g + 1] = e
    BY <1>7, <2>2, AppendParts
  <2> HIDE DEF g
  <2>5. Len(k.got) + Len(k.todo) = Len(use.members)
    <3>1. Len(k.todo) = d - 1
      BY <1>3, <1>7, Zenon
    <3>2. (g + 1) + (d - 1) = g + d
      BY <1>3, <2>3
    <3> QED
      BY <2>2, <2>4, <3>1, <3>2, Zenon
  <2>6. ASSUME NEW l \in 1..d-1 PROVE k.todo[l].m = (g + 1) + l
    <3>1. k.todo[l].m = g + (l + 1)
      BY <1>8, <2>2
    <3> QED
      BY <1>3, <2>3, <3>1
  <2>7. ASSUME NEW l \in 1..g+1
        PROVE  IF l = g + 1 THEN k.got[l] = e ELSE l \in 1..g /\ k.got[l] = job[t].got[l]
    BY <2>3, <2>4
  <2>8. e.state \in DOMAIN Rank
    BY <1>6 DEF Rank
  <2>9. Asking(k)
    <3>1. \A l \in DOMAIN k.todo : k.todo[l].m = Len(k.got) + l
      BY <1>3, <1>7, <2>4, <2>6
    <3>2. \A l \in DOMAIN k.got : k.got[l].state \in DOMAIN Rank
      BY <2>2, <2>3, <2>4, <2>7, <2>8
    <3> QED
      BY <2>4, <2>5, <3>1, <3>2 DEF Asking
  <2>10. Witnessed(k, core)
    <3> SUFFICES ASSUME job[t].alone, NEW l \in 1..g+1, k.got[l].state = "idle" PROVE core[l].mode = "idle"
      BY <1>7, <2>4 DEF Witnessed
    <3>1. CASE l = g + 1
      <4>1. s.m = l
        <5>1. 1 \in 1..d
          BY <1>3
        <5> QED
          BY <1>3, <2>2, <3>1, <5>1
      <4> QED
        BY <1>6, <2>4, <3>1, <4>1
    <3>2. CASE l # g + 1
      BY <2>1, <2>3, <2>7, <3>2 DEF Witnessed
    <3> QED
      BY <3>1, <3>2
  <2> QED
    BY <2>9, <2>10
<1> QED
  BY <1>1, <1>7, <1>9, <1>10

LEMMA MemberPolledTells ==
  ASSUME TellOK, NEW t \in Tasks, PollMember(t)
  PROVE  TellNext
<1> DEFINE k == AskedMember(t)
<1>1. Busy(t) /\ Head(job[t].todo).op = "poll" /\ use' = use /\ fetch' = fetch /\ core' = core
  BY Zenon DEF PollMember, Now
<1>2. PollGoes(t, k)
  BY Zenon DEF PollMember, AskedMember
<1>3. /\ PollCall(k) /\ k.call = job[t].call /\ k.alone = job[t].alone
      /\ Quiet(job[t].call) => Asking(k) /\ Witnessed(k, core)
  BY <1>1, AskedTells
<1>4. k.alone => \A u \in Tasks \ {t} : Busy(u) => Quiet(job[u].call)
  BY <1>1, <1>3 DEF TellOK, CompanyOK
<1> HIDE DEF k
<1> QED
  BY <1>1, <1>2, <1>3, <1>4, PollTells

(* A call begins.                                                          *)
Alone(t) == \A u \in Tasks \ {t} : Busy(u) => Quiet(job[u].call)

LEMMA BegunTells ==
  ASSUME TellOK, use' = use, NEW t \in Tasks, ~Busy(t), NEW k, ~Quiet(k.call), k.alone => Alone(t),
         \/ Goes(t, k) /\ (k.open # <<>> /\ k.alone => Untouched(k, fetch'))
         \/ \E end, value : Ends(t, k, end, value)
  PROVE  TellNext
<1>1. StaysCompany(t, k.call, k) /\ StaysCompany(t, k.call, Idle) /\ Idle.todo = <<>>
  BY DEF StaysCompany, Idle, Alone
<1>2. CASE Goes(t, k) /\ (k.open # <<>> /\ k.alone => Untouched(k, fetch'))
  <2>1. job' = [Jobs(t, k.call) EXCEPT ![t] = k]
    BY <1>2 DEF Goes
  <2> QED
    BY <1>1, <1>2, <2>1, TaskTells
<1>3. CASE \E end, value : Ends(t, k, end, value)
  <2>1. job' = [Jobs(t, k.call) EXCEPT ![t] = Idle]
    BY <1>3 DEF Ends
  <2> QED
    BY <1>1, <2>1, TaskTells
<1> QED
  BY <1>2, <1>3

LEMMA BeginTells ==
  ASSUME TellOK, NEW t \in Tasks, NEW c \in use.calls[t], Begin(t, c)
  PROVE  TellNext
<1> DEFINE j == [Call(c) EXCEPT !.alone = Alone(t)]
<1>1. ~Busy(t) /\ use' = use /\ core' = core /\ job[t].open = <<>>
  <2>1. ~Busy(t) /\ use' = use /\ core' = core
    BY Zenon DEF Begin
  <2> QED
    BY <2>1, BeginParts DEF TellOK
<1>2. BeginArm(t, c, j) \/ BeginAbort(t, c, j) \/ BeginPoll(t, c, j) \/ BeginRead(t, c, j) \/ BeginOwnRead(t, c, j)
  BY Zenon DEF Begin, Alone
<1>3. DOMAIN j = CallFields /\ j.call = c /\ j.open = <<>> /\ j.got = <<>> /\ (j.alone <=> Alone(t))
  BY DEF Call, CallFields
<1> HIDE DEF j
<1>4. CASE BeginArm(t, c, j)
  <2> DEFINE window == WindowOf(c)
             plan == Plan(window, use.members, c.overrides)
             k == [j EXCEPT !.todo = ArmSteps(plan), !.plan = plan, !.window = window, !.tries = use.tries]
  <2>1. c.op \in {"arm", "capture"} /\ (Goes(t, k) \/ Ends(t, j, "refused", None) \/ Ends(t, j, "raised", plan))
    BY <1>4, Zenon DEF BeginArm
  <2>2. k.call = c /\ k.open = <<>> /\ k.alone = j.alone
    BY <1>3 DEF CallFields
  <2>3. ~Quiet(c)
    BY <2>1 DEF Quiet
  <2> HIDE DEF k
  <2>4. CASE Goes(t, k)
    BY <1>1, <1>3, <2>2, <2>3, <2>4, BegunTells
  <2>5. CASE Ends(t, j, "refused", None) \/ Ends(t, j, "raised", plan)
    BY <1>1, <1>3, <2>3, <2>5, BegunTells
  <2> QED
    BY <2>1, <2>4, <2>5
<1>5. CASE BeginAbort(t, c, j)
  <2> DEFINE k == [j EXCEPT !.todo = All("abort")]
  <2>1. c.op = "abort" /\ Goes(t, k)
    BY <1>5, Zenon DEF BeginAbort
  <2>2. k.call = c /\ k.open = <<>> /\ k.alone = j.alone
    BY <1>3 DEF CallFields
  <2>3. ~Quiet(c)
    BY <2>1 DEF Quiet
  <2> HIDE DEF k
  <2> QED
    BY <1>1, <1>3, <2>1, <2>2, <2>3, BegunTells
<1>6. CASE BeginPoll(t, c, j)
  <2> DEFINE k == [j EXCEPT !.todo = All("poll"), !.during = fetch[0].depth > 0]
  <2>1. PollGoes(t, k) /\ fetch' = fetch
    BY <1>6, Zenon DEF BeginPoll
  <2>2. DOMAIN k = CallFields /\ k.todo = All("poll") /\ k.call = c /\ k.open = <<>> /\ k.alone = j.alone /\ k.got = <<>>
    BY <1>3 DEF CallFields
  <2> HIDE DEF k
  <2>3. /\ IsSequence(All("poll")) /\ Len(All("poll")) = Len(use.members) /\ DOMAIN All("poll") = 1..Len(use.members)
        /\ \A l \in 1..Len(use.members) : /\ All("poll")[l].op = "poll" /\ All("poll")[l].m = l
                                          /\ All("poll")[l].m \in Members
    BY Typed, AllParts
  <2>4. PollCall(k)
    BY <2>2, <2>3 DEF PollCall
  <2>5. IsSequence(<<>>) /\ Len(<<>>) = 0 /\ DOMAIN <<>> = {}
    <3>1. <<>> \in Seq({})
      OBVIOUS
    <3>2. IsSequence(<<>>)
      BY <3>1, SequenceOver, Zenon
    <3> QED
      BY <3>2
  <2>6. Asking(k) /\ Witnessed(k, core)
    <3>1. IsSequence(k.got) /\ Len(k.got) = 0 /\ DOMAIN k.got = {}
      BY <2>2, <2>5, Zenon
    <3>2. Len(k.todo) = Len(use.members)
      BY <2>2, <2>3, Zenon
    <3>3. \A l \in DOMAIN k.todo : k.todo[l].m = 0 + l
      BY <2>2, <2>3, Typed
    <3>4. Len(k.got) + Len(k.todo) = Len(use.members)
      BY <3>1, <3>2, Typed
    <3> QED
      BY <3>1, <3>3, <3>4 DEF Asking, Witnessed
  <2> QED
    BY <1>1, <1>3, <2>1, <2>2, <2>4, <2>6, PollTells DEF Alone
<1>7. CASE BeginRead(t, c, j)
  <2> DEFINE i == [j EXCEPT !.whole = Whole /\ Reused(c)]
             k == Reading(i, ReadPlan(c))
  <2>1. /\ c.op = "read"
        /\ \/ Ends(t, j, "refused", None)
           \/ Goes(t, k) /\ fetch' = Started(fetch, DOMAIN fetch)
    BY <1>7, Zenon DEF BeginRead
  <2>2. DOMAIN i = CallFields /\ i.call = c /\ i.alone = j.alone
    BY <1>3 DEF CallFields
  <2>3. ~Quiet(c)
    BY <2>1 DEF Quiet
  <2> HIDE DEF i
  <2>4. k.call = c /\ k.alone = j.alone /\ (j.alone => Untouched(k, Started(fetch, DOMAIN fetch)))
    BY <1>1, <1>3, <2>2, ReadingUntouched DEF Alone
  <2> HIDE DEF k
  <2>5. CASE Ends(t, j, "refused", None)
    BY <1>1, <1>3, <2>3, <2>5, BegunTells
  <2>6. CASE Goes(t, k) /\ fetch' = Started(fetch, DOMAIN fetch)
    BY <1>1, <1>3, <2>3, <2>4, <2>6, BegunTells
  <2> QED
    BY <2>1, <2>5, <2>6
<1>8. CASE BeginOwnRead(t, c, j)
  <2> DEFINE todo == <<[op |-> "heads", m |-> c.m]>>
             k == [j EXCEPT !.open = <<c.m>>, !.todo = todo, !.plan = [i \in Members |-> c.params]]
  <2>1. c.op = "own" /\ Goes(t, k) /\ fetch' = Started(fetch, {c.m})
    BY <1>8, Zenon DEF BeginOwnRead
  <2>2. k.call = c /\ k.alone = j.alone /\ k.todo = todo
    BY <1>3 DEF CallFields
  <2>3. ~Quiet(c)
    BY <2>1 DEF Quiet
  <2>4. DOMAIN todo = {1} /\ todo[1].op = "heads" /\ todo[1].m = c.m
    OBVIOUS
  <2> HIDE DEF k, todo
  <2>5. c.m \in Members
    <3>1. UseOK(use) /\ c \in Calls(use, {"own"})
      BY <2>1, Typed, GroupAssumption DEF Calls
    <3> QED
      BY <3>1 DEF UseOK, Members
  <2>6. ASSUME k.alone PROVE Untouched(k, fetch')
    <3>1. fetch[c.m].depth = 0 /\ c.m \in Ids /\ fetch \in Counters
      BY <1>1, <1>3, <2>2, <2>5, <2>6, NoneOpen, Typed DEF Alone
    <3>2. fetch'[c.m].done = 0
      BY <2>1, <3>1, StartedWords
    <3> QED
      BY <2>2, <2>4, <3>2 DEF Untouched
  <2> QED
    BY <1>1, <1>3, <2>1, <2>2, <2>3, <2>6, BegunTells
<1> QED
  BY <1>2, <1>4, <1>5, <1>6, <1>7, <1>8

LEMMA ClientTells ==
  ASSUME TellOK, NEW t \in Tasks, Client(t)
  PROVE  TellNext
<1>1. CASE \E c \in use.calls[t] : Begin(t, c)
  BY <1>1, BeginTells
<1> QED
  BY <1>1, ConfigureTells, ArmTells, StatusTells, AbortTells, MemberPolledTells, SizeTells, HeadsTells, BurstTells,
     FailTells, Zenon DEF Client

LEMMA GatewareTells ==
  ASSUME TellOK, Gateware
  PROVE  TellNext
<1>1. use' = use /\ job' = job /\ fetch' = fetch
  BY Zenon DEF Gateware, Fill, See, Tick, CompleteRaw, CompleteRle, Fire
<1>2. \A i \in Members : core[i].mode = "idle" => core'[i].mode = "idle"
  <2> USE DEF TellOK, TasksOK, TypeOK
  <2>1. ASSUME NEW k \in Members, Fill(k) PROVE \A i \in Members : core[i].mode = "idle" => core'[i].mode = "idle"
    BY <2>1 DEF Fill
  <2>2. ASSUME NEW k \in Members, See(k) PROVE \A i \in Members : core[i].mode = "idle" => core'[i].mode = "idle"
    BY <2>2 DEF See
  <2>3. ASSUME NEW k \in Members, Tick(k) PROVE \A i \in Members : core[i].mode = "idle" => core'[i].mode = "idle"
    BY <2>3 DEF Tick, Accept
  <2>4. ASSUME NEW k \in Members, CompleteRaw(k) \/ CompleteRle(k)
        PROVE \A i \in Members : core[i].mode = "idle" => core'[i].mode = "idle"
    BY <2>4, Zenon DEF CompleteRaw, CompleteRle
  <2>5. ASSUME Fire PROVE \A i \in Members : core[i].mode = "idle" => core'[i].mode = "idle"
    BY <2>5 DEF Fire, Accept
  <2> QED
    BY <2>1, <2>2, <2>3, <2>4, <2>5 DEF Gateware
<1>3. CompanyOK'
  BY <1>1 DEF TellOK, CompanyOK, Busy, Quiet
<1>4. PollsOK'
  <2> SUFFICES ASSUME NEW u \in Tasks, Busy(u), Quiet(job[u].call)
               PROVE  Polling(job[u]) /\ Witnessed(job[u], core')
    BY <1>1 DEF PollsOK, Busy, Quiet, Polling, Only, Witnessed
  <2>1. Polling(job[u]) /\ Witnessed(job[u], core)
    BY DEF TellOK, PollsOK
  <2> QED
    BY <1>2, <2>1, GotMembers DEF Witnessed
<1>5. ReadersOK'
  BY <1>1 DEF TellOK, ReadersOK, Reads, Busy, Untouched, Members
<1> QED
  BY <1>3, <1>4, <1>5 DEF TellNext

LEMMA TellKept ==
  ASSUME TellOK, TasksOK', [Next]_vars
  PROVE  TellOK'
<1>1. CASE Next
  <2>1. TellNext
    BY <1>1, ClientTells, GatewareTells DEF Next
  <2> QED
    BY <2>1 DEF TellNext, TellOK
<1>2. CASE UNCHANGED vars
  <2>1. use' = use /\ job' = job /\ fetch' = fetch /\ core' = core
    BY <1>2 DEF vars
  <2>2. CompanyOK' /\ PollsOK' /\ ReadersOK'
    BY <2>1, Zenon DEF TellOK, CompanyOK, PollsOK, ReadersOK, Reads, Busy, Quiet, Polling, Only, Witnessed,
                       Untouched, Members
  <2> QED
    BY <2>2 DEF TellOK
<1> QED
  BY <1>1, <1>2

LEMMA TellStarts == Init /\ TasksOK => TellOK
<1> SUFFICES ASSUME Init, TasksOK PROVE TellOK
  OBVIOUS
<1>1. \A t \in Tasks : ~Busy(t)
  BY DEF Init, Busy, Idle
<1> QED
  BY <1>1 DEF TellOK, CompanyOK, PollsOK, ReadersOK, Reads

(* A poll that says idle, when it is answered, is right.                   *)
LEMMA IdleIsSo ==
  ASSUME TellOK, Next, NEW t \in Tasks, Busy(t), job[t].call.op = "poll", ~Busy(t)', outcome'.end = "done",
         outcome'.alone, outcome'.value.state = "idle"
  PROVE  \A i \in Members : core'[i].mode = "idle"
<1>1. \A u \in Tasks : DOMAIN job = Tasks
  BY DEF TellOK, TasksOK, CallsInStep
<1>2. Quiet(job[t].call) /\ Head(job[t].todo).op = "poll"
  <2>1. Quiet(job[t].call)
    BY DEF Quiet
  <2> QED
    BY <2>1, NotQuiet
<1>3. ~Gateware
  <2> SUFFICES ASSUME Gateware PROVE FALSE
    OBVIOUS
  <2>1. job' = job
    BY Zenon DEF Gateware, Fill, See, Tick, CompleteRaw, CompleteRle, Fire
  <2> QED
    BY <2>1 DEF Busy
<1>4. PICK u \in Tasks : Client(u)
  BY <1>3 DEF Next
<1>5. u = t
  <2> SUFFICES ASSUME u # t PROVE FALSE
    OBVIOUS
  <2>1. \E c, j : job' = [Jobs(u, c) EXCEPT ![u] = j]
    <3>1. ASSUME NEW j, Goes(u, j) PROVE \E c, k : job' = [Jobs(u, c) EXCEPT ![u] = k]
      BY <3>1 DEF Goes
    <3>2. ASSUME NEW j, NEW end, NEW value, Ends(u, j, end, value) PROVE \E c, k : job' = [Jobs(u, c) EXCEPT ![u] = k]
      BY <3>2 DEF Ends
    <3> QED
      BY <1>4, <3>1, <3>2, Zenon DEF Client, Begin, BeginArm, BeginAbort, BeginPoll, BeginRead, BeginOwnRead, PollGoes,
         Configure, ArmMember, ReadStatus, AbortMember, PollMember, ReadSize, ReadHeads, ReadBurst, MemberDone, Fail
  <2>2. PICK c, j : job' = [Jobs(u, c) EXCEPT ![u] = j]
    BY <2>1
  <2>3. job'[t] = job[t] \/ job'[t] = [job[t] EXCEPT !.alone = FALSE]
    BY <2>2 DEF Jobs
  <2>4. DOMAIN job[t] = CallFields
    BY AdvancedParts DEF TellOK
  <2>5. job'[t].todo = job[t].todo
    BY <2>3, <2>4 DEF CallFields
  <2> QED
    BY <2>5 DEF Busy
<1>6. PollMember(t)
  <2>1. ~Fail(t)
    <3> SUFFICES ASSUME Fail(t) PROVE FALSE
      OBVIOUS
    <3>1. outcome' = Ending(job[t], "failed", None)
      BY Zenon DEF Fail, Ends
    <3> QED
      BY <3>1 DEF Ending
  <2> QED
    BY <1>2, <1>4, <1>5, <2>1 DEF Client, Begin, Configure, ArmMember, ReadStatus, AbortMember, ReadSize, ReadHeads,
       ReadBurst, Now
<1> DEFINE k == AskedMember(t)
           a == Answered(k, fetch)
<1>7. core' = core /\ PollGoes(t, k)
  BY <1>6, Zenon DEF PollMember, AskedMember
<1>8. PollCall(k) /\ Asking(k) /\ Witnessed(k, core)
  BY <1>2, AskedTells
<1> HIDE DEF k
<1>9. Asking(a) /\ Witnessed(a, core)
  BY <1>8, AnsweredTells
<1>10. IF a.todo = <<>> THEN Ends(t, a, "done", Polled(a.got, fetch)) ELSE Goes(t, a)
  BY <1>7 DEF PollGoes
<1> HIDE DEF a
<1>11. a.todo = <<>>
  <2> SUFFICES ASSUME a.todo # <<>> PROVE FALSE
    OBVIOUS
  <2>1. job'[t] = a
    BY <1>1, <1>10 DEF Goes, Jobs
  <2> QED
    BY <2>1 DEF Busy
<1>12. outcome' = Ending(a, "done", Polled(a.got, fetch))
  BY <1>10, <1>11 DEF Ends
<1>13. a.alone /\ Polled(a.got, fetch).state = "idle"
  BY <1>12 DEF Ending
<1> QED
  BY <1>7, <1>9, <1>11, <1>13, PolledIdle

(* The counters of the next member are open already.                       *)
LEMMA DoneTotals ==
  ASSUME NEW t \in Tasks, NEW j, NEW m \in Members, NEW fs \in Counters, MemberDone(t, j, m, fs),
         DOMAIN j = CallFields, NEW x \in Ids, fs[x].depth > 0,
         j.todo # <<>> /\ Head(j.todo).op = "heads" => Head(j.todo).m # m
  PROVE  fetch'[x].total = fs[x].total
<1> DEFINE shots == [w \in DOMAIN j.got[Len(j.got)].shots |->
                       IF Shots(m, j.plan[m])[w] = j.got[Len(j.got)].shots[w]
                       THEN Shots(m, j.plan[m])[w] ELSE None]
           k == [j EXCEPT !.open = Front(j.open), !.got[Len(j.got)].shots = shots]
           closed == Closed(fs, <<m>>)
<1>1. \/ j.todo # <<>> /\ fetch' = Begins(closed, k)
      \/ fetch' = Closed(closed, k.open)
  BY Zenon DEF MemberDone
<1>2. k.todo = j.todo
  BY DEF CallFields
<1>3. /\ closed \in Counters /\ closed[x].total = fs[x].total
      /\ x # m => closed[x].depth = fs[x].depth
  <2>1. PICK one : one = <<m>>
    OBVIOUS
  <2>2. IsSequence(one) /\ DOMAIN one = {1} /\ one[1] = m /\ closed = Closed(fs, one)
    <3>1. <<m>> \in Seq({m}) /\ DOMAIN <<m>> = {1} /\ <<m>>[1] = m
      OBVIOUS
    <3>2. one \in Seq({m}) /\ DOMAIN one = {1} /\ one[1] = m
      BY <2>1, <3>1, Zenon
    <3>3. IsSequence(one)
      BY <3>2, SequenceOver
    <3>4. closed = Closed(fs, one)
      BY <2>1, Zenon
    <3> QED
      BY <3>2, <3>3, <3>4
  <2> HIDE DEF closed
  <2>3. closed \in Counters /\ closed[x].depth = fs[x].depth - Times(one, x)
    BY <2>2, ClosedCounts DEF Ids
  <2>4. x # m => Times(one, x) = 0
    BY <2>2, TimesIsNat
  <2>5. fs[x].depth \in Int
    BY DEF Counters, Ids
  <2>6. closed[x].total = fs[x].total
    BY <2>2, ClosedWords
  <2> QED
    BY <2>3, <2>4, <2>5, <2>6
<1> HIDE DEF k, closed
<1>4. CASE fetch' = Closed(closed, k.open)
  BY <1>3, <1>4, ClosedWords
<1>5. CASE j.todo # <<>> /\ fetch' = Begins(closed, k)
  <2>1. CASE fetch' = closed
    BY <1>3, <2>1
  <2>2. CASE Head(j.todo).op = "heads" /\ fetch' = Started(closed, {Head(j.todo).m})
    <3>1. x = Head(j.todo).m => closed[x].depth # 0
      BY <1>3, <1>5, <2>2
    <3>2. closed[x].depth # 0 \/ x \notin {Head(j.todo).m}
      BY <3>1
    <3> QED
      BY <1>3, <2>2, <3>2, StartedWords
  <2> QED
    BY <1>2, <1>5, <2>1, <2>2 DEF Begins
<1> QED
  BY <1>1, <1>4, <1>5

(* What is left after the step that ends a member's readback is another's. *)
LEMMA NextHeads ==
  ASSUME NEW todo, IsSequence(todo), todo # <<>>, NEW j, j.todo = todo, Untouched(j, fetch), todo[1].op # "size",
         Tail(todo) # <<>>, Head(Tail(todo)).op = "heads"
  PROVE  Head(Tail(todo)).m # todo[1].m
<1>1. /\ IsSequence(Tail(todo)) /\ DOMAIN Tail(todo) = 1..Len(todo)-1 /\ DOMAIN todo = 1..Len(todo)
      /\ \A k \in 1..Len(todo)-1 : Tail(todo)[k] = todo[k + 1]
      /\ Len(todo) \in Nat /\ Len(todo) > 0
  BY TailParts
<1>2. Head(Tail(todo)) = Tail(todo)[1] /\ 1 \in DOMAIN Tail(todo)
  <2>1. Head(Tail(todo)) = Tail(todo)[1] /\ Len(Tail(todo)) \in Nat /\ Len(Tail(todo)) > 0
        /\ DOMAIN Tail(todo) = 1..Len(Tail(todo))
    BY <1>1, TailParts
  <2> QED
    BY <2>1
<1>3. 1 + 1 \in DOMAIN todo /\ 1 \in DOMAIN todo /\ Tail(todo)[1] = todo[1 + 1]
  BY <1>1, <1>2
<1> QED
  BY <1>2, <1>3 DEF Untouched

LEMMA SizeTotals ==
  ASSUME TellOK, NEW t \in Tasks, ReadSize(t), Reads(t) => job[t].alone, NEW x \in Ids, fetch[x].depth > 0,
         \E y \in IF x = 0 THEN Members ELSE {x} : fetch[y].done > 0
  PROVE  fetch'[x].total = fetch[x].total
<1>1. Busy(t) /\ Head(job[t].todo).op = "size"
  BY Zenon DEF ReadSize, Now
<1>2. Sizing(job[t]) /\ Head(job[t].todo) = job[t].todo[1]
  BY <1>1, Phase, HeadStep DEF TellOK, TasksOK
<1>3. Untouched(job[t], fetch)
  BY <1>1, <1>2, ReadingOpen, JobUntouched DEF Reads
<1>4. \A i \in Members : fetch[i].done = 0
  BY <1>1, <1>2, <1>3 DEF Untouched
<1>5. x # 0 /\ x \in Members
  BY <1>4 DEF Ids
<1> QED
  BY <1>4, <1>5

LEMMA HeadsTotals ==
  ASSUME TellOK, NEW t \in Tasks, ReadHeads(t), Reads(t) => job[t].alone, NEW x \in Ids, fetch[x].depth > 0,
         \E y \in IF x = 0 THEN Members ELSE {x} : fetch[y].done > 0
  PROVE  fetch'[x].total = fetch[x].total
<1>0. PICK m \in Members, words \in Nat, b \in Nat : \E j : HeadsRead(t, m, words, b, j)
  BY HeadsStep DEF TellOK
<1>1. PICK j : HeadsRead(t, m, words, b, j)
  BY <1>0
<1> DEFINE expected == Expected(fetch, m, words)
           n == Len(job[t].todo)
<1>2. /\ Busy(t) /\ Head(job[t].todo).op = "heads" /\ Head(job[t].todo) = job[t].todo[1] /\ job[t].todo[1].m = m
      /\ Transferring(job[t], m) \/ ReadingOwn(job[t], m)
      /\ n \in Nat /\ n > 0 /\ DOMAIN job[t].todo = 1..n
      /\ DOMAIN j = CallFields /\ IsSequence(j.todo) /\ DOMAIN j.todo = 1..b+(n-1)
      /\ \A k \in 1..b+(n-1) : ~(k <= b) => k - b \in 1..n-1 /\ j.todo[k] = job[t].todo[(k - b) + 1]
      /\ IF b = 0 THEN MemberDone(t, j, m, expected) ELSE fetch' = expected
  BY <1>1 DEF HeadsRead
<1>3. Untouched(job[t], fetch)
  BY <1>2, ReadingOpen, JobUntouched DEF Reads
<1> HIDE DEF n
<1>4. fetch[m].done = 0 /\ x # m
  <2>1. 1 \in DOMAIN job[t].todo
    BY <1>2
  <2>2. fetch[m].done = 0
    BY <1>2, <1>3, <2>1 DEF Untouched
  <2>3. 0 \notin Members
    BY Typed
  <2> QED
    BY <2>2, <2>3
<1>5. expected \in Counters /\ expected[x].total = fetch[x].total /\ expected[x].depth = fetch[x].depth
  <2>1. fetch \in Counters /\ m \in Ids
    BY Typed
  <2> QED
    BY <1>4, <2>1, ExpectedCounts, ExpectedWords DEF Ids
<1> HIDE DEF expected
<1>6. CASE b = 0
  <2>1. ASSUME j.todo # <<>>, Head(j.todo).op = "heads" PROVE Head(j.todo).m # m
    <3>1. Head(j.todo) = j.todo[1] /\ DOMAIN j.todo = 1..Len(j.todo) /\ Len(j.todo) \in Nat /\ Len(j.todo) > 0
      BY <1>2, <2>1, TailParts
    <3>2. 1 \in DOMAIN j.todo
      BY <3>1
    <3>3. j.todo[1] = job[t].todo[1 + 1] /\ 1 + 1 \in DOMAIN job[t].todo /\ 1 \in DOMAIN job[t].todo
      BY <1>2, <1>6, <3>2
    <3>4. job[t].todo[1].op = "heads" /\ job[t].todo[1 + 1].op = "heads" /\ job[t].todo[1].m = m
      BY <1>2, <2>1, <3>1, <3>3
    <3>5. 1 < 1 + 1 /\ "heads" # "size"
      OBVIOUS
    <3>6. job[t].todo[1].m # job[t].todo[1 + 1].m
      BY <1>3, <3>3, <3>4, <3>5 DEF Untouched
    <3> QED
      BY <3>1, <3>3, <3>4, <3>6
  <2>2. MemberDone(t, j, m, expected) /\ expected[x].depth > 0
    BY <1>2, <1>5, <1>6
  <2>3. expected \in Counters /\ DOMAIN j = CallFields /\ expected[x].total = fetch[x].total
    BY <1>2, <1>5
  <2> QED
    BY <2>1, <2>2, <2>3, DoneTotals
<1>7. CASE b # 0
  BY <1>2, <1>5, <1>7
<1> QED
  BY <1>6, <1>7

LEMMA BurstTotals ==
  ASSUME TellOK, NEW t \in Tasks, ReadBurst(t), Reads(t) => job[t].alone, NEW x \in Ids, fetch[x].depth > 0
  PROVE  fetch'[x].total = fetch[x].total
<1> DEFINE s == Head(job[t].todo)
           j == Advanced(t)
           moved == [fetch EXCEPT ![s.m].done = fetch[s.m].done + s.words]
<1>1. /\ Busy(t) /\ s.op = "burst"
      /\ MemberDone(t, j, s.m, moved) \/ fetch' = moved
  BY DEF ReadBurst, Now
<1>2. /\ DOMAIN j = CallFields /\ j.todo = Tail(job[t].todo) /\ s = job[t].todo[1]
      /\ IsSequence(job[t].todo) /\ job[t].todo # <<>>
  BY <1>1, AdvancedParts, HeadStep DEF TellOK, TasksOK
<1>3. StepOK(s) /\ s.m \in Members /\ s.words \in Nat
  BY <1>1, HeadStep DEF TellOK, TasksOK, StepOK
<1>4. Untouched(job[t], fetch)
  BY <1>1, Phase, ReadingOpen, JobUntouched DEF Reads, TellOK
<1>5. j.todo # <<>> /\ Head(j.todo).op = "heads" => Head(j.todo).m # s.m
  BY <1>1, <1>2, <1>4, NextHeads
<1> HIDE DEF s, j
<1>6. moved \in Counters /\ moved[x].total = fetch[x].total /\ moved[x].depth = fetch[x].depth
  <2>1. fetch \in Counters /\ s.m \in {0} \union Members /\ x \in {0} \union Members
    BY <1>3, Typed DEF Ids
  <2>2. moved \in Counters /\ moved[x].depth = fetch[x].depth
    BY <1>3, <2>1, MovedCounts
  <2> QED
    BY <2>1, <2>2 DEF Counters
<1> HIDE DEF moved
<1>7. CASE MemberDone(t, j, s.m, moved)
  <2>1. PICK m \in Members : m = s.m
    BY <1>3
  <2>2. MemberDone(t, j, m, moved) /\ moved[x].depth > 0 /\ (j.todo # <<>> /\ Head(j.todo).op = "heads" => Head(j.todo).m # m)
    BY <1>5, <1>6, <1>7, <2>1
  <2> QED
    BY <1>2, <1>6, <2>2, DoneTotals
<1> QED
  BY <1>1, <1>6, <1>7

(* The denominator a poll reports stays, while words move.                 *)
LEMMA TotalsStay ==
  ASSUME TellOK, Next, \A t \in Tasks : Reads(t) => job[t].alone, NEW x \in DOMAIN fetch, fetch[x].depth > 0,
         \E y \in IF x = 0 THEN Members ELSE {x} : fetch[y].done > 0
  PROVE  fetch'[x].total = fetch[x].total
<1>1. fetch \in Counters /\ x \in Ids
  BY Typed
<1>2. \A ids : fetch' = Started(fetch, ids) => fetch'[x].total = fetch[x].total
  BY <1>1, StartedWords
<1>3. CASE Gateware
  <2>1. fetch' = fetch
    BY <1>3, Zenon DEF Gateware, Fill, See, Tick, CompleteRaw, CompleteRle, Fire
  <2> QED
    BY <2>1
<1>4. ASSUME NEW t \in Tasks, Client(t) PROVE fetch'[x].total = fetch[x].total
  <2>1. ASSUME NEW c, Begin(t, c) PROVE fetch' = fetch \/ \E ids : fetch' = Started(fetch, ids)
    BY <2>1, Zenon DEF Begin, BeginArm, BeginAbort, BeginPoll, BeginRead, BeginOwnRead
  <2>2. ASSUME Configure(t) \/ ArmMember(t) \/ PollMember(t) PROVE fetch' = fetch
    BY <2>2, Zenon DEF Configure, ArmMember, PollMember
  <2>3. ASSUME ReadStatus(t) \/ AbortMember(t) PROVE fetch' = fetch \/ \E ids : fetch' = Started(fetch, ids)
    BY <2>3, Zenon DEF ReadStatus, AbortMember
  <2>4. ASSUME Fail(t) PROVE fetch'[x].total = fetch[x].total
    <3>1. fetch' = Closed(fetch, job[t].open)
      BY <2>4 DEF Fail
    <3> QED
      BY <1>1, <3>1, ClosedWords
  <2>5. ASSUME ReadSize(t) PROVE fetch'[x].total = fetch[x].total
    BY <1>1, <2>5, SizeTotals
  <2>6. ASSUME ReadHeads(t) PROVE fetch'[x].total = fetch[x].total
    BY <1>1, <2>6, HeadsTotals
  <2>7. ASSUME ReadBurst(t) PROVE fetch'[x].total = fetch[x].total
    BY <1>1, <2>7, BurstTotals
  <2> QED
    BY <1>2, <1>4, <2>1, <2>2, <2>3, <2>4, <2>5, <2>6, <2>7 DEF Client
<1> QED
  BY <1>3, <1>4 DEF Next

(* What a poll tells is so: if it says idle, every member is at rest; and  *)
(* the words a readback is to move do not change once it moves any.        *)
THEOREM PollsTellHolds == Spec => PollsTell
<1> DEFINE Idles == \A t \in Tasks : Busy(t) /\ job[t].call.op = "poll" /\ ~Busy(t)' /\ outcome'.end = "done"
                      /\ outcome'.alone /\ outcome'.value.state = "idle" =>
                        \A i \in Members : core'[i].mode = "idle"
           Fixed == (\A t \in Tasks : Reads(t) => job[t].alone) =>
                      \A x \in DOMAIN fetch :
                        /\ fetch[x].depth > 0 /\ fetch'[x].depth > 0
                        /\ \E y \in IF x = 0 THEN Members ELSE {x} : fetch[y].done > 0
                        => fetch'[x].total = fetch[x].total
<1>1. Init => AccountsOK /\ TellOK
  BY InitHolds, TellStarts DEF AccountsOK, TasksOK
<1>2. AccountsOK /\ TellOK /\ [Next]_vars => (AccountsOK /\ TellOK)'
  <2> SUFFICES ASSUME AccountsOK, TellOK, [Next]_vars PROVE (AccountsOK /\ TellOK)'
    OBVIOUS
  <2>1. AccountsOK'
    BY StepHolds
  <2>2. TasksOK'
    BY <2>1 DEF AccountsOK, TasksOK
  <2> QED
    BY <2>1, <2>2, TellKept
<1>3. TellOK /\ [Next]_vars => [Idles]_vars /\ [Fixed]_vars
  <2> SUFFICES ASSUME TellOK, Next PROVE Idles /\ Fixed
    OBVIOUS
  <2>1. Idles
    BY IdleIsSo
  <2>2. Fixed
    BY TotalsStay
  <2> QED
    BY <2>1, <2>2
<1>4. Spec => [][Idles]_vars /\ [][Fixed]_vars
  BY <1>1, <1>2, <1>3, PTL DEF Spec
<1> QED
  BY <1>4 DEF PollsTell, IdleIsRest, DenominatorFixed
-----------------------------------------------------------------------------
(* What a read shows.                                                      *)
OwnNext(j) ==
  /\ j.whole => j.open # <<>>
  /\ Armers(j) => Ordered(j) /\ ArmedTo(j, core', regs', seen', ticks')
  /\ Waiters(j) => orderly' /\ Waited(j, core')
  /\ Tellers(j) => orderly' /\ Telling(j, core', armed')

LEMMA SessionNext ==
  ASSUME use' = use, NEW F, Session(F, core', ticks', fires', armed')
  PROVE  Session(F, core, ticks, fires, armed)'
<1>1. Members' = Members /\ \A i : M(i)' = M(i)
  BY DEF Members, M
<1>2. Fires(F, fires)'
  BY <1>1 DEF Session, Fires
<1>3. ASSUME NEW i \in Members
      PROVE  core'[i].run = armed'.plan[i] /\ Cut(i, core[i], ticks[i], F)'
  <2>1. core'[i].run = armed'.plan[i] /\ Cut(i, core'[i], ticks'[i], F)
    BY DEF Session
  <2>2. \A w, fire, shot : Holds(i, core'[i], w, fire, shot) <=> Holds(i, core[i], w, fire, shot)'
    BY <1>1 DEF Holds
  <2> QED
    BY <1>1, <2>1, <2>2 DEF Cut, Armed, Coming, Capturing, Rested, Planning
<1> QED
  BY <1>1, <1>2, <1>3 DEF Session

LEMMA SessionKept ==
  ASSUME CutsOK, use' = use, armed' = armed, job' = job, orderly' = orderly,
         \A F : Session(F, core, ticks, fires, armed) => \E G : Session(G, core', ticks', fires', armed)
  PROVE  SessionOK'
<1> SUFFICES ASSUME orderly' PROVE /\ (\E F : Session(F, core, ticks, fires, armed)')
                                   /\ \A t \in Tasks : ~ArmsNow(t)'
  BY DEF SessionOK
<1>1. (\E F : Session(F, core, ticks, fires, armed)) /\ \A t \in Tasks : ~ArmsNow(t)
  BY DEF CutsOK, SessionOK
<1>2. PICK F : Session(F, core', ticks', fires', armed')
  BY <1>1
<1>3. Session(F, core, ticks, fires, armed)'
  BY <1>2, SessionNext
<1> QED
  BY <1>1, <1>3 DEF ArmsNow, Busy

LEMMA CoreCut ==
  ASSUME CutsOK, use' = use, armed' = armed, job' = job, orderly' = orderly, fires' = fires,
         NEW i \in Members, NEW c, core' = [core EXCEPT ![i] = c], c.run = core[i].run,
         \A k \in Members \ {i} : ticks'[k] = ticks[k],
         \A F : Fires(F, fires) /\ Cut(i, core[i], ticks[i], F) => Cut(i, c, ticks'[i], F)
  PROVE  SessionOK'
<1>1. DOMAIN core = Members
  BY DEF CutsOK, LinesOK, TypeOK
<1>2. ASSUME NEW F, Session(F, core, ticks, fires, armed) PROVE Session(F, core', ticks', fires', armed)
  <2>1. core'[i] = c /\ \A k \in Members \ {i} : core'[k] = core[k]
    BY <1>1
  <2> QED
    BY <1>2, <2>1 DEF Session
<1> QED
  BY <1>2, SessionKept

(* What is known of a core.                                                *)
LEMMA CoreIs ==
  ASSUME CutsOK, NEW i \in Members
  PROVE  /\ CoreOK(i, core[i]) /\ Fits(i, core[i]) /\ MemberOK(M(i)) /\ M(i).rle \in BOOLEAN
         /\ M(i).crossed => i \in OneWindow[use]
         /\ ~M(i).crossed => ticks[i] = <<>>
         /\ M(i).rle => i \in OneWindow[use]
<1>1. use \in Uses
  BY DEF CutsOK, LinesOK, TypeOK
<1>2. M(i).rle => i \in OneWindow[use]
  BY <1>1 DEF OneWindow, M, Members
<1> QED
  BY <1>1, <1>2, LinesParts, MembersOK DEF CutsOK, MemberOK

LEMMA FillCuts ==
  ASSUME CutsOK, NEW i \in Members, Fill(i)
  PROVE  SessionOK'
<1> DEFINE c(end) == [core[i] EXCEPT !.full = TRUE, !.end = end]
<1>1. PICK end : core' = [core EXCEPT ![i].full = TRUE, ![i].end = end]
  BY DEF Fill
<1>2. core' = [core EXCEPT ![i] = c(end)] /\ CoreOK(i, core[i])
  BY <1>1, CoreIs DEF CutsOK, LinesOK, TypeOK
<1>3. /\ c(end).mode = core[i].mode /\ c(end).window = core[i].window /\ c(end).full /\ c(end).shot = core[i].shot
      /\ c(end).run = core[i].run /\ c(end).kept = core[i].kept /\ c(end).triggered = core[i].triggered
  BY <1>2 DEF CoreOK
<1>4. /\ use' = use /\ armed' = armed /\ job' = job /\ orderly' = orderly /\ fires' = fires /\ ticks' = ticks
  BY DEF Fill
<1> HIDE DEF c
<1>5. ASSUME NEW F, Cut(i, core[i], ticks[i], F) PROVE Cut(i, c(end), ticks'[i], F)
  BY <1>3, <1>4, <1>5 DEF Cut, Armed, Coming, Capturing, Rested, Holds, Planning
<1> QED
  BY <1>2, <1>3, <1>4, <1>5, CoreCut

(* The tick of a fire reaches a core that has its context in.              *)
LEMMA AcceptCut ==
  ASSUME CutsOK, NEW i \in Members, NEW F, Ready(core[i]), core[i].window + 1 = Len(F),
         \A w \in 1..core[i].window : Holds(i, core[i], w, F[w], F[w])
  PROVE  Cut(i, Accept(i, core[i], F[Len(F)]), <<>>, F)
<1> DEFINE c == Accept(i, core[i], F[Len(F)])
           n == Len(F)
<1>1. /\ CoreOK(i, core[i]) /\ M(i).rle \in BOOLEAN /\ core[i].mode = "armed" /\ core[i].full
      /\ M(i).rle => core[i].window = 0
  BY CoreIs DEF Ready, Fits
<1>2. CASE M(i).rle
  <2>1. c = [core[i] EXCEPT !.mode = "capturing", !.triggered = TRUE, !.shot = F[n], !.end = core[i].run.pre_lines + 1]
    BY <1>1, <1>2 DEF Accept
  <2>2. c.mode = "capturing" /\ c.window = 0 /\ c.shot = F[n] /\ c.run = core[i].run
    BY <1>1, <1>2, <2>1 DEF CoreOK
  <2> HIDE DEF c, n
  <2>3. Capturing(i, c, <<>>, F)
    BY <1>1, <1>2, <2>2 DEF Capturing, n
  <2>4. \A w \in 1..c.window : Holds(i, c, w, F[w], F[w])
    BY <2>2
  <2> QED
    BY <2>2, <2>3, <2>4 DEF Cut, c, n
<1>3. CASE ~M(i).rle
  <2> DEFINE slot == [base |-> core[i].window * core[i].run.count, count |-> core[i].run.count, shot |-> None,
                      head |-> core[i].window * core[i].run.count + (F[n] % core[i].run.count)]
             kept == [core[i].kept EXCEPT ![core[i].window + 1] = slot]
  <2>1. c = [core[i] EXCEPT !.mode = "capturing", !.triggered = TRUE, !.shot = F[n], !.kept = kept]
    <3>1. c = [core[i] EXCEPT !.mode = "capturing", !.triggered = TRUE, !.shot = F[n],
                              !.kept[core[i].window + 1] = slot]
      BY <1>1, <1>3, Zenon DEF Accept
    <3> HIDE DEF slot, c
    <3> QED
      BY <1>1, <3>1 DEF CoreOK
  <2> HIDE DEF kept
  <2>2. c.mode = "capturing" /\ c.window = core[i].window /\ c.shot = F[n] /\ c.run = core[i].run /\ c.kept = kept
    BY <1>1, <2>1 DEF CoreOK
  <2> HIDE DEF c
  <2>3. /\ core[i].window \in Nat /\ core[i].window < core[i].run.windows /\ core[i].run.windows \in 1..M(i).max_windows
        /\ DOMAIN core[i].kept = 1..M(i).max_windows /\ M(i).max_windows \in Nat
    BY <1>1, <1>3, CoreIs DEF CoreOK, RunOK, KeptOK, Windows, MemberOK
  <2>4. core[i].window + 1 \in DOMAIN core[i].kept /\ n = core[i].window + 1
    BY <2>3
  <2>5. kept[n] = slot /\ \A w \in 1..core[i].window : kept[w] = core[i].kept[w]
    <3> HIDE DEF slot
    <3> QED
      BY <2>3, <2>4 DEF kept
  <2>6. n - 1 = core[i].window
    BY <2>3, <2>4
  <2>7. Holds(i, c, n, F[n], None)
    <3> HIDE DEF n
    <3> QED
      BY <1>3, <2>2, <2>5, <2>6 DEF Holds
  <2>8. \A w \in 1..c.window : Holds(i, c, w, F[w], F[w])
    BY <1>3, <2>2, <2>5 DEF Holds
  <2>9. Capturing(i, c, <<>>, F)
    BY <2>2, <2>4, <2>7 DEF Capturing
  <2> QED
    BY <2>2, <2>8, <2>9 DEF Cut, c
<1> QED
  BY <1>1, <1>2, <1>3

LEMMA AcceptRun ==
  ASSUME NEW i, NEW c, CoreOK(i, c), NEW shot
  PROVE  /\ Accept(i, c, shot).run = c.run
         /\ c.mode = "idle" => Accept(i, c, shot) = c
BY DEF Accept, CoreOK

LEMMA TickCuts ==
  ASSUME CutsOK, NEW i \in Members, Tick(i)
  PROVE  SessionOK'
<1> DEFINE c == Accept(i, core[i], Head(ticks[i]))
<1>1. /\ core' = [core EXCEPT ![i] = c] /\ ticks' = [ticks EXCEPT ![i] = Tail(ticks[i])] /\ ticks[i] # <<>>
      /\ use' = use /\ armed' = armed /\ job' = job /\ orderly' = orderly /\ fires' = fires
  BY Zenon DEF Tick
<1>2. CoreOK(i, core[i]) /\ DOMAIN ticks = Members
  BY CoreIs DEF CutsOK, LinesOK, TypeOK
<1>3. c.run = core[i].run
  BY <1>2, AcceptRun
<1>4. ticks'[i] = Tail(ticks[i]) /\ \A k \in Members \ {i} : ticks'[k] = ticks[k]
  BY <1>1, <1>2
<1> HIDE DEF c
<1>5. ASSUME NEW F, Fires(F, fires), Cut(i, core[i], ticks[i], F) PROVE Cut(i, c, ticks'[i], F)
  <2>1. Coming(core[i], ticks[i], F)
    BY <1>1, <1>5 DEF Cut, Armed, Capturing, Rested
  <2>2. F = ticks[i] /\ Len(F) = 1 /\ core[i].window = 0 /\ Ready(core[i])
    BY <2>1 DEF Coming, Ready
  <2>3. F \in Seq(Nat)
    BY <1>5 DEF Fires
  <2>4. Head(F) = F[1] /\ Tail(F) = <<>>
    <3>1. IsSequence(F)
      BY <2>3, SequenceOver
    <3>2. F # <<>>
      BY <1>1, <2>2
    <3>3. IsSequence(Tail(F)) /\ Len(Tail(F)) = 0 /\ Head(F) = F[1]
      BY <2>2, <3>1, <3>2, TailParts
    <3> DEFINE rest == Tail(F)
    <3>4. IsSequence(rest) /\ Len(rest) = 0
      BY <3>3, Zenon
    <3> HIDE DEF rest
    <3>5. rest = <<>>
      BY <3>4, SequenceParts
    <3> QED
      BY <3>3, <3>5 DEF rest
  <2>5. c = Accept(i, core[i], F[Len(F)])
    BY <2>2, <2>4 DEF c
  <2>6. \A w \in 1..core[i].window : Holds(i, core[i], w, F[w], F[w])
    BY <2>2
  <2>7. Cut(i, c, <<>>, F)
    <3>1. core[i].window + 1 = Len(F)
      BY <2>2
    <3>2. Cut(i, Accept(i, core[i], F[Len(F)]), <<>>, F)
      BY <2>2, <2>6, <3>1, AcceptCut
    <3> QED
      BY <2>5, <3>2
  <2> QED
    BY <1>4, <2>2, <2>4, <2>7
<1> QED
  BY <1>1, <1>3, <1>4, <1>5, CoreCut

(* A window that is complete keeps what the ones before it hold: the slot  *)
(* that opens is after all of theirs.                                      *)
LEMMA SlotsApart ==
  ASSUME NEW w \in Nat, NEW n \in Nat, w <= n, NEW count \in Nat, NEW base, base = (w - 1) * count
  PROVE  ~(n * count < base + count)
<1>1. base + count = w * count
  BY SMTT(30)
<1>2. \E d \in Nat : n = w + d
  <2>1. n - w \in Nat /\ n = w + (n - w)
    OBVIOUS
  <2> QED
    BY <2>1
<1>3. PICK d \in Nat : n = w + d
  BY <1>2
<1>4. n * count = w * count + d * count /\ d * count \in Nat /\ w * count \in Nat
  BY <1>3, SMTT(30)
<1> QED
  BY <1>1, <1>4

LEMMA RawCut ==
  ASSUME CutsOK, NEW i \in Members, CompleteRaw(i), NEW F, Fires(F, fires), Cut(i, core[i], ticks[i], F)
  PROVE  Cut(i, core'[i], ticks[i], F) /\ core'[i].run = core[i].run
<1> DEFINE c == core[i]
           n == c.window + 1
           count == c.run.count
           kept == [c.kept EXCEPT ![n].shot = c.shot]
           rested == [c EXCEPT !.mode = "idle", !.window = n, !.kept = kept, !.shot = None]
           again == [c EXCEPT !.mode = "armed", !.full = FALSE, !.window = n, !.shot = None,
                              !.kept = Opened(kept, n * count, count)]
<1>1. ~M(i).rle /\ c.mode = "capturing" /\ core'[i] = IF n = c.run.windows THEN rested ELSE again
  BY Zenon DEF CompleteRaw, CutsOK, LinesOK, TypeOK
<1>2. /\ CoreOK(i, c) /\ c.triggered /\ c.window \in Nat /\ n \in Nat /\ n <= c.run.windows /\ count \in Nat
      /\ DOMAIN c.kept = 1..M(i).max_windows /\ M(i).max_windows \in Nat /\ n \in DOMAIN c.kept
      /\ c.run.windows \in 1..M(i).max_windows
  BY <1>1, CoreIs DEF CoreOK, RunOK, KeptOK, Windows, MemberOK, Fits
<1>3. Capturing(i, c, ticks[i], F)
  BY <1>1 DEF Cut, Armed, Coming, Rested
<1>4. n = Len(F) /\ c.shot = F[n] /\ ticks[i] = <<>> /\ Holds(i, c, n, F[n], None)
  BY <1>1, <1>3 DEF Capturing
<1>5. \A w \in 1..n-1 : Holds(i, c, w, F[w], F[w])
  BY <1>2 DEF Cut
<1> DEFINE Slotted(slot, w) == slot = [base |-> (w - 1) * count, count |-> count,
                                       head |-> (w - 1) * count + (F[w] % count), shot |-> F[w]]
<1>6. \A w \in 1..n : Slotted(kept[w], w)
  <2>1. \A w \in 1..n-1 : Slotted(c.kept[w], w)
    BY <1>1, <1>5 DEF Holds
  <2>2. c.kept[n] = [base |-> (n - 1) * count, count |-> count, head |-> (n - 1) * count + (F[n] % count), shot |-> None]
    BY <1>1, <1>4 DEF Holds
  <2>3. kept[n] = [c.kept[n] EXCEPT !.shot = c.shot] /\ \A w \in 1..n-1 : kept[w] = c.kept[w]
    BY <1>2
  <2>4. Slotted(kept[n], n)
    <3> DEFINE b == (n - 1) * count
               h == b + (F[n] % count)
    <3>1. c.kept[n] = [base |-> b, count |-> count, head |-> h, shot |-> None]
      BY <2>2
    <3>2. kept[n] = [c.kept[n] EXCEPT !.shot = F[n]]
      BY <1>4, <2>3
    <3> HIDE DEF b, h, count, n, kept
    <3>3. kept[n] = [base |-> b, count |-> count, head |-> h, shot |-> F[n]]
      BY <3>1, <3>2
    <3> QED
      BY <3>3 DEF b, h
  <2> HIDE DEF kept, Slotted
  <2> QED
    BY <1>2, <2>1, <2>3, <2>4
<1>7. \A w \in 1..n : Slotted(Opened(kept, n * count, count)[w], w)
  <2> SUFFICES ASSUME NEW w \in 1..n PROVE Opened(kept, n * count, count)[w] = kept[w]
    BY <1>6
  <2>1. kept[w].base = (w - 1) * count /\ kept[w].count = count
    <3>1. Slotted(kept[w], w)
      BY <1>6
    <3> HIDE DEF kept, n, count
    <3> QED
      BY <3>1
  <2>2. ~(n * count < kept[w].base + kept[w].count)
    <3>1. w \in Nat /\ w <= n
      BY <1>2
    <3> HIDE DEF kept, n, count
    <3> QED
      BY <1>2, <2>1, <3>1, SlotsApart
  <2>3. w \in DOMAIN kept
    BY <1>2
  <2> HIDE DEF kept, n, count
  <2> QED
    BY <2>2, <2>3 DEF Opened
<1> DEFINE d == core'[i]
<1>8. /\ d.window = n /\ d.run = c.run /\ d.triggered = c.triggered
      /\ d.kept = kept \/ d.kept = Opened(kept, n * count, count)
      /\ \/ d.mode = "idle" /\ n = c.run.windows
         \/ d.mode = "armed"
  <2> DEFINE opened == Opened(kept, n * count, count)
  <2>1. DOMAIN c = {"mode", "full", "triggered", "window", "shot", "end", "run", "kept"}
    BY <1>2 DEF CoreOK
  <2>2. IF n = c.run.windows THEN d = rested ELSE d = again
    BY <1>1
  <2> HIDE DEF kept, n, count, opened, d, c
  <2>3. CASE n = c.run.windows
    <3>1. d = [c EXCEPT !.mode = "idle", !.window = n, !.kept = kept, !.shot = None]
      BY <2>2, <2>3
    <3> QED
      BY <2>1, <2>3, <3>1
  <2>4. CASE n # c.run.windows
    <3>1. d = [c EXCEPT !.mode = "armed", !.full = FALSE, !.window = n, !.shot = None, !.kept = opened]
      BY <2>2, <2>4 DEF opened
    <3> QED
      BY <2>1, <3>1 DEF opened
  <2> QED
    BY <2>3, <2>4
<1> HIDE DEF d, kept, rested, again
<1>9. \A w \in 1..d.window : Holds(i, d, w, F[w], F[w])
  BY <1>1, <1>6, <1>7, <1>8 DEF Holds
<1> HIDE DEF n, count
<1>10. Rested(i, d, ticks[i], F) \/ Armed(d, ticks[i], F)
  BY <1>1, <1>2, <1>4, <1>8 DEF Rested, Armed, Planning
<1> QED
  BY <1>8, <1>9, <1>10 DEF Cut, d

LEMMA CompleteRawCuts ==
  ASSUME CutsOK, NEW i \in Members, CompleteRaw(i)
  PROVE  SessionOK'
<1>1. /\ use' = use /\ armed' = armed /\ job' = job /\ orderly' = orderly /\ fires' = fires /\ ticks' = ticks
      /\ \E c : core' = [core EXCEPT ![i] = c]
  BY Zenon DEF CompleteRaw
<1>2. PICK c : core' = [core EXCEPT ![i] = c]
  BY <1>1
<1>3. ASSUME NEW F, Session(F, core, ticks, fires, armed) PROVE Session(F, core', ticks', fires', armed)
  <2>1. \A k \in Members \ {i} : core'[k] = core[k]
    BY <1>2 DEF CutsOK, LinesOK, TypeOK
  <2>2. Fires(F, fires) /\ Cut(i, core[i], ticks[i], F)
    BY <1>3 DEF Session
  <2>3. Cut(i, core'[i], ticks[i], F) /\ core'[i].run = core[i].run
    BY <2>2, RawCut
  <2> QED
    BY <1>1, <1>3, <2>1, <2>3 DEF Session
<1> QED
  BY <1>1, <1>3, SessionKept

LEMMA CompleteRleCuts ==
  ASSUME CutsOK, NEW i \in Members, CompleteRle(i)
  PROVE  SessionOK'
<1> DEFINE kept == [core[i].kept EXCEPT ![1].shot = core[i].shot]
           c(end) == [core[i] EXCEPT !.mode = "idle", !.shot = None, !.window = 1, !.end = end, !.kept = kept]
<1>1. /\ use' = use /\ armed' = armed /\ job' = job /\ orderly' = orderly /\ fires' = fires /\ ticks' = ticks
      /\ core[i].mode = "capturing" /\ M(i).rle
      /\ \E end : core' = [core EXCEPT ![i].mode = "idle", ![i].shot = None, ![i].window = 1, ![i].end = end,
                                       ![i].kept[1].shot = core[i].shot]
  BY Zenon DEF CompleteRle
<1>2. PICK end : core' = [core EXCEPT ![i].mode = "idle", ![i].shot = None, ![i].window = 1, ![i].end = end,
                                      ![i].kept[1].shot = core[i].shot]
  BY <1>1
<1>3. CoreOK(i, core[i]) /\ core[i].window = 0 /\ core[i].triggered
  BY <1>1, CoreIs DEF Fits
<1>4. core' = [core EXCEPT ![i] = c(end)]
  BY <1>2, <1>3 DEF CoreOK, CutsOK, LinesOK, TypeOK
<1>5. kept[1].shot = core[i].shot
  BY <1>1, <1>3 DEF CoreOK, KeptOK, Windows
<1> HIDE DEF kept
<1>6. /\ c(end).mode = "idle" /\ c(end).window = 1 /\ c(end).run = core[i].run /\ c(end).kept = kept
      /\ c(end).triggered
  BY <1>3 DEF CoreOK
<1> HIDE DEF c
<1>7. ASSUME NEW F, Cut(i, core[i], ticks[i], F) PROVE Cut(i, c(end), ticks'[i], F)
  <2>1. Capturing(i, core[i], ticks[i], F)
    BY <1>1, <1>7 DEF Cut, Armed, Coming, Rested
  <2>2. Len(F) = 1 /\ core[i].shot = F[1] /\ ticks[i] = <<>>
    <3>1. core[i].window + 1 = Len(F) /\ core[i].shot = F[Len(F)] /\ ticks[i] = <<>>
      BY <2>1 DEF Capturing
    <3>2. Len(F) = 1
      BY <1>3, <3>1
    <3> QED
      BY <3>1, <3>2
  <2>3. Rested(i, c(end), ticks'[i], F)
    BY <1>1, <1>6, <2>2 DEF Rested, Planning
  <2>4. \A w \in 1..c(end).window : Holds(i, c(end), w, F[w], F[w])
    BY <1>1, <1>5, <1>6, <2>2 DEF Holds
  <2> QED
    BY <2>3, <2>4 DEF Cut
<1> QED
  BY <1>1, <1>4, <1>6, <1>7, CoreCut

LEMMA SeeCuts ==
  ASSUME CutsOK, NEW i \in Members, See(i)
  PROVE  SessionOK'
<1>1. /\ use' = use /\ armed' = armed /\ job' = job /\ orderly' = orderly /\ fires' = fires /\ ticks' = ticks
      /\ core' = core
  BY DEF See
<1> QED
  BY <1>1, SessionKept

(* A group with a crossed member fires once: the member of one window that *)
(* the first fire left capturing, or its stale line, holds the next off.   *)
LEMMA FiresOnce ==
  ASSUME CutsOK, Fire, NEW F, Session(F, core, ticks, fires, armed), NEW k \in Members, M(k).crossed
  PROVE  Len(F) = 0
<1> SUFFICES ASSUME Len(F) # 0 PROVE FALSE
  OBVIOUS
<1>1. Enabled /\ ~fired /\ LinesOK
  BY DEF Fire, CutsOK
<1>2. F \in Seq(Nat) /\ Len(F) <= 1
  BY DEF Session, Fires
<1>3. Len(F) = 1
  <2>1. Len(F) \in Nat
    BY <1>2, LenProperties
  <2>2. \A x \in Nat : x <= 1 /\ x # 0 => x = 1
    OBVIOUS
  <2> QED
    BY <1>2, <2>1, <2>2
<1>4. F # <<>>
  BY <1>3
<1>5. ASSUME NEW i \in Members, i \in OneWindow[use], core[i].mode = "armed" PROVE ticks[i] # <<>>
  <2>1. core[i].window = 0 /\ Cut(i, core[i], ticks[i], F)
    BY <1>5, CoreIs DEF Fits, Session
  <2>2. Coming(core[i], ticks[i], F)
    BY <1>3, <1>5, <2>1 DEF Cut, Armed, Capturing, Rested
  <2> QED
    BY <1>4, <2>2 DEF Coming
<1>6. CASE \E u \in Members : ~M(u).crossed
  <2>1. PICK i \in Members : ~M(i).crossed /\ i \in OneWindow[use]
    BY <1>1, <1>6, OneUncrossed
  <2>2. core[i].mode = "armed" /\ ticks[i] = <<>>
    BY <1>1, <2>1, CoreIs DEF Enabled, Ready
  <2> QED
    BY <1>5, <2>1, <2>2
<1>7. CASE \A u \in Members : M(u).crossed
  <2>1. \A u \in Members : seen[u]
    BY <1>1, <1>7 DEF Enabled
  <2>2. ~HeldOff
    BY <1>7, <2>1 DEF HeldOff, HoldsOff
  <2>3. ~Pending
    BY <1>1, <2>2, LinesParts
  <2>4. ticks[k] = <<>> /\ (core[k].mode # "armed" => ~core[k].triggered)
    BY <2>1, <2>3 DEF Pending, Stale
  <2>5. core[k].mode # "armed"
    BY <1>5, <2>4, CoreIs
  <2>6. Cut(k, core[k], ticks[k], F) /\ Fits(k, core[k])
    BY CoreIs DEF Session
  <2> QED
    BY <2>4, <2>5, <2>6 DEF Cut, Armed, Coming, Capturing, Rested, Fits
<1> QED
  BY <1>6, <1>7

LEMMA FireCuts ==
  ASSUME CutsOK, Fire
  PROVE  SessionOK'
<1>1. /\ use' = use /\ armed' = armed /\ job' = job /\ orderly' = orderly /\ fires' = fires + 1
      /\ core' = [i \in Members |-> IF M(i).crossed THEN core[i] ELSE Accept(i, core[i], fires + 1)]
      /\ ticks' = [i \in Members |-> IF M(i).crossed THEN Append(ticks[i], fires + 1) ELSE ticks[i]]
      /\ Enabled
  BY DEF Fire
<1>2. fires \in Nat
  BY GroupAssumption DEF CutsOK, LinesOK, TypeOK
<1>3. ASSUME NEW F, Session(F, core, ticks, fires, armed)
      PROVE  \E G : Session(G, core', ticks', fires', armed)
  <2> DEFINE shot == fires + 1
             n == Len(F)
             G == Append(F, shot)
  <2>1. /\ F \in Seq(Nat) /\ n \in Nat /\ DOMAIN F = 1..n /\ \A w \in 1..n : F[w] \in 1..fires
        /\ \A w \in 1..n : w > 1 => F[w - 1] < F[w]
    BY <1>3, LenProperties DEF Session, Fires
  <2>2. /\ IsSequence(G) /\ Len(G) = n + 1 /\ DOMAIN G = 1..n+1 /\ G[n + 1] = shot
        /\ \A w \in 1..n : G[w] = F[w]
    BY <2>1, SequenceOver, AppendParts
  <2>3. G \in Seq(Nat)
    BY <1>2, <2>1
  <2>4. \A i \in Members : M(i).crossed => n = 0
    BY <1>3, FiresOnce
  <2> HIDE DEF G, n
  <2>5. Fires(G, fires')
    <3>1. ASSUME NEW w \in 1..n+1 PROVE G[w] \in 1..fires+1
      <4>1. w = n + 1 \/ w \in 1..n
        BY <2>1
      <4>2. shot \in 1..fires+1 /\ 1..fires \subseteq 1..fires+1
        BY <1>2
      <4> QED
        BY <2>1, <2>2, <4>1, <4>2
    <3>2. ASSUME NEW w \in 1..n+1, w > 1 PROVE G[w - 1] < G[w]
      <4>1. w - 1 \in 1..n
        BY <2>1, <3>2
      <4>2. CASE w = n + 1
        <5>1. G[w - 1] = F[w - 1] /\ F[w - 1] \in 1..fires /\ G[w] = shot
          BY <2>1, <2>2, <4>1, <4>2
        <5> QED
          BY <1>2, <5>1
      <4>3. CASE w # n + 1
        <5>1. w \in 1..n
          BY <2>1, <4>3
        <5> QED
          BY <2>1, <2>2, <3>2, <4>1, <5>1
      <4> QED
        BY <4>2, <4>3
    <3>3. \A i \in Members : M(i).crossed => Len(G) <= 1
      BY <2>2, <2>4
    <3> QED
      BY <1>1, <2>2, <2>3, <3>1, <3>2, <3>3 DEF Fires
  <2>6. ASSUME NEW i \in Members PROVE core'[i].run = armed.plan[i] /\ Cut(i, core'[i], ticks'[i], G)
    <3>1. Cut(i, core[i], ticks[i], F) /\ core[i].run = armed.plan[i] /\ CoreOK(i, core[i])
      BY <1>3, CoreIs DEF Session
    <3>2. CASE M(i).crossed
      <4>1. core'[i] = core[i] /\ ticks'[i] = Append(ticks[i], shot) /\ seen[i] /\ Len(F) = 0
        BY <1>1, <2>4, <3>2 DEF Enabled, n
      <4>2. Armed(core[i], ticks[i], F)
        <5>1. core[i].window \in Nat /\ Planning(i, core[i]) # 0
          <6>1. Windows(i) \in Nat /\ core[i].window \in 0..Windows(i)
            BY <3>1, CoreIs DEF CoreOK, Windows, MemberOK
          <6>2. Planning(i, core[i]) # 0
            <7>1. CASE M(i).rle
              BY <7>1 DEF Planning
            <7>2. CASE ~M(i).rle
              BY <3>1, <7>2, CoreIs DEF CoreOK, RunOK, Planning, MemberOK
            <7> QED
              BY <7>1, <7>2
          <6> QED
            BY <6>1, <6>2
        <5>2. ~Coming(core[i], ticks[i], F) /\ ~Rested(i, core[i], ticks[i], F)
          BY <4>1, <5>1 DEF Coming, Rested
        <5>3. ~Capturing(i, core[i], ticks[i], F)
          <6>1. core[i].window + 1 # 0
            BY <5>1
          <6> QED
            BY <4>1, <6>1 DEF Capturing
        <5> QED
          BY <3>1, <5>2, <5>3 DEF Cut
      <4>3. core[i].mode = "armed" /\ core[i].window = 0 /\ ticks[i] = <<>> /\ core[i].full
        <5>1. LinesOK
          BY DEF CutsOK
        <5> QED
          BY <3>2, <4>1, <4>2, <5>1, LinesParts DEF Armed
      <4>4. F = <<>>
        BY <2>1, <4>1, SequenceOver, SequenceParts
      <4>5. Append(ticks[i], shot) = G
        BY <4>3, <4>4 DEF G
      <4>6. Len(G) = 1
        BY <2>2, <4>1 DEF n
      <4>7. Coming(core'[i], ticks'[i], G)
        BY <4>1, <4>3, <4>5, <4>6 DEF Coming
      <4>8. \A w \in 1..core'[i].window : Holds(i, core'[i], w, G[w], G[w])
        BY <4>1, <4>3
      <4> QED
        BY <3>1, <4>1, <4>7, <4>8 DEF Cut
    <3>3. CASE ~M(i).crossed
      <4>1. core'[i] = Accept(i, core[i], shot) /\ ticks'[i] = <<>> /\ ticks[i] = <<>> /\ Ready(core[i])
        BY <1>1, <3>3, CoreIs DEF Enabled
      <4>2. core[i].window = n
        <5>1. ~Coming(core[i], ticks[i], F)
          <6> SUFFICES ASSUME Len(F) = 1 PROVE F # <<>>
            BY <4>1 DEF Coming
          <6> QED
            OBVIOUS
        <5> QED
          BY <3>1, <4>1, <5>1 DEF Cut, Armed, Capturing, Rested, Ready, n
      <4>3. core[i].window + 1 = Len(G) /\ G[Len(G)] = shot
        BY <2>2, <4>2
      <4>4. \A w \in 1..core[i].window : Holds(i, core[i], w, G[w], G[w])
        BY <2>2, <3>1, <4>2 DEF Cut
      <4>5. Cut(i, Accept(i, core[i], G[Len(G)]), <<>>, G)
        BY <4>1, <4>3, <4>4, AcceptCut
      <4>6. Cut(i, core'[i], ticks'[i], G)
        BY <4>1, <4>3, <4>5
      <4> QED
        BY <3>1, <4>1, <4>6, AcceptRun
    <3> QED
      BY <3>2, <3>3
  <2> QED
    BY <2>5, <2>6 DEF Session
<1> QED
  BY <1>1, <1>3, SessionKept

LEMMA OwnThen ==
  ASSUME use' = use, NEW t, OwnNext(job'[t])
  PROVE  OwnCall(job[t])'
<1>1. Members' = Members /\ \A i : M(i)' = M(i)
  BY DEF Members, M
<1> DEFINE j == job'[t]
<1>2. j.whole => j.open # <<>>
  BY DEF OwnNext
<1>3. Armers(job[t])' => Ordered(job[t])' /\ ArmedTo(job[t], core, regs, seen, ticks)'
  <2> SUFFICES ASSUME Armers(j) PROVE Ordered(job[t])' /\ ArmedTo(job[t], core, regs, seen, ticks)'
    BY DEF Armers
  <2>1. Ordered(j) /\ ArmedTo(j, core', regs', seen', ticks')
    BY DEF OwnNext
  <2> QED
    BY <1>1, <2>1 DEF Ordered, ArmedTo
<1>4. Waiters(job[t])' => orderly' /\ Waited(job[t], core)'
  <2> SUFFICES ASSUME Waiters(j) PROVE orderly' /\ Waited(job[t], core)'
    BY DEF Waiters
  <2>1. orderly' /\ Waited(j, core')
    BY DEF OwnNext
  <2> QED
    BY <2>1 DEF Waited
<1>5. Tellers(job[t])' => orderly' /\ Telling(job[t], core, armed)'
  <2> SUFFICES ASSUME Tellers(j) PROVE orderly' /\ Telling(job[t], core, armed)'
    BY DEF Tellers
  <2>1. orderly' /\ Telling(j, core', armed')
    BY DEF OwnNext
  <2>2. Aligned(job[t])'
    BY <2>1 DEF Telling, Aligned
  <2>3. \A i, p : ShotsOf(core', i, p) = ShotsOf(core, i, p)'
    BY <1>1 DEF ShotsOf
  <2> QED
    BY <1>1, <2>1, <2>2, <2>3 DEF Telling
<1> QED
  BY <1>2, <1>3, <1>4, <1>5 DEF OwnCall

(* A core at rest stays as it is until a client arms it.                   *)
LEMMA IdleStays ==
  ASSUME CutsOK, Gateware, NEW i \in Members, core[i].mode = "idle"
  PROVE  core'[i] = core[i]
<1>1. DOMAIN core = Members
  BY DEF CutsOK, LinesOK, TypeOK
<1>2. \A shot : Accept(i, core[i], shot) = core[i]
  BY CoreIs, AcceptRun
<1>3. ASSUME NEW k \in Members, k # i, \E c : core' = [core EXCEPT ![k] = c] PROVE core'[i] = core[i]
  BY <1>1, <1>3
<1>4. ASSUME NEW k \in Members, Fill(k) PROVE core'[i] = core[i]
  <2>1. core[k].mode = "armed"
    BY <1>4 DEF Fill
  <2>2. PICK end : core' = [core EXCEPT ![k].full = TRUE, ![k].end = end]
    BY <1>4 DEF Fill
  <2> QED
    BY <1>1, <2>1, <2>2
<1>5. ASSUME NEW k \in Members, See(k) PROVE core'[i] = core[i]
  BY <1>5 DEF See
<1>6. ASSUME NEW k \in Members, Tick(k) PROVE core'[i] = core[i]
  <2>1. core' = [core EXCEPT ![k] = Accept(k, core[k], Head(ticks[k]))]
    BY <1>6 DEF Tick
  <2> QED
    BY <1>1, <1>2, <2>1
<1>7. ASSUME NEW k \in Members, CompleteRaw(k) PROVE core'[i] = core[i]
  <2>1. core[k].mode = "capturing" /\ \E c : core' = [core EXCEPT ![k] = c]
    BY <1>7, Zenon DEF CompleteRaw
  <2> QED
    BY <1>3, <2>1
<1>8. ASSUME NEW k \in Members, CompleteRle(k) PROVE core'[i] = core[i]
  <2>1. core[k].mode = "capturing"
    BY <1>8 DEF CompleteRle
  <2>2. PICK end : core' = [core EXCEPT ![k].mode = "idle", ![k].shot = None, ![k].window = 1,
                                        ![k].end = end, ![k].kept[1].shot = core[k].shot]
    BY <1>8 DEF CompleteRle
  <2> QED
    BY <1>1, <2>1, <2>2
<1>9. CASE Fire
  BY <1>2, <1>9 DEF Fire
<1> QED
  BY <1>4, <1>5, <1>6, <1>7, <1>8, <1>9 DEF Gateware

(* Half an arm: no core can take a fire, and none is left to arrive.       *)
LEMMA ArmedStays ==
  ASSUME CutsOK, Gateware, NEW j, j.todo[1].m \in Members, ArmedTo(j, core, regs, seen, ticks),
         regs' = regs
  PROVE  ArmedTo(j, core', regs', seen', ticks')
<1> DEFINE m == j.todo[1].m
           begun == m # 1 \/ j.todo[1].op = "arm"
<1>1. /\ DOMAIN core = Members /\ DOMAIN ticks = Members /\ DOMAIN seen = Members
      /\ Members = 1..Len(use.members) /\ Len(use.members) \in Nat
  BY MembersOK DEF CutsOK, LinesOK, TypeOK
<1>2. \A i \in Members : i >= m => core[i].mode = "idle" /\ core'[i] = core[i]
  BY <1>1, IdleStays DEF ArmedTo
<1>3. core[m].mode = "idle"
  BY <1>1, <1>2
<1>4. ASSUME begun PROVE ~Fire /\ \A i \in Members : ~Tick(i)
  <2>1. \A i \in Members : ticks[i] = <<>> /\ (M(i).crossed /\ i >= m => ~seen[i])
    BY <1>4 DEF ArmedTo
  <2>2. ~Enabled
    <3>1. M(m).crossed => ~seen[m]
      BY <1>1, <2>1
    <3> QED
      BY <1>3, <3>1 DEF Enabled, Ready
  <2> QED
    BY <2>1, <2>2 DEF Fire, Tick
<1>5. ASSUME begun, NEW i \in Members
      PROVE  ticks'[i] = <<>> /\ (M(i).crossed /\ i >= m => ~seen'[i])
  <2>1. ticks[i] = <<>> /\ (M(i).crossed /\ i >= m => ~seen[i])
    BY <1>5 DEF ArmedTo
  <2>2. ticks' = ticks
    BY <1>4, <1>5 DEF Gateware, Fill, See, CompleteRaw, CompleteRle
  <2>3. CASE \E k \in Members : See(k)
    <3>1. PICK k \in Members : See(k)
      BY <2>3
    <3>2. seen' = [seen EXCEPT ![k] = ~seen[k]] /\ seen[k] # Ready(core[k])
      BY <3>1 DEF See
    <3>3. k >= m => ~Ready(core[k])
      BY <1>2 DEF Ready
    <3>4. seen[k] \in BOOLEAN /\ seen[i] \in BOOLEAN
      BY DEF CutsOK, LinesOK, TypeOK
    <3>5. CASE i = k
      <4>1. i >= m => seen[i]
        BY <3>2, <3>3, <3>4, <3>5 DEF Ready
      <4>2. seen'[i] = ~seen[i]
        BY <1>1, <3>2, <3>5
      <4> QED
        BY <2>1, <2>2, <4>1, <4>2
    <3>6. CASE i # k
      BY <1>1, <2>1, <2>2, <3>2, <3>6
    <3> QED
      BY <3>5, <3>6
  <2>4. CASE ~\E k \in Members : See(k)
    <3>1. seen' = seen
      BY <1>4, <1>5, <2>4 DEF Gateware, Fill, CompleteRaw, CompleteRle
    <3> QED
      BY <2>1, <2>2, <3>1
  <2> QED
    BY <2>3, <2>4
<1>6. ASSUME NEW i \in Members, i < m
      PROVE  core'[i].mode = "armed" /\ core'[i].window = 0 /\ core'[i].run = j.plan[i]
  <2>1. core[i].mode = "armed" /\ core[i].window = 0 /\ core[i].run = j.plan[i]
    BY <1>6 DEF ArmedTo
  <2>2. begun
    BY <1>1, <1>6
  <2>3. CoreOK(i, core[i])
    BY CoreIs
  <2>4. ASSUME NEW k \in Members, Fill(k) PROVE core'[i].mode = "armed" /\ core'[i].window = 0 /\ core'[i].run = core[i].run
    <3>1. PICK end : core' = [core EXCEPT ![k].full = TRUE, ![k].end = end]
      BY <2>4 DEF Fill
    <3> QED
      BY <1>1, <2>1, <2>3, <3>1 DEF CoreOK
  <2>5. ASSUME NEW k \in Members, See(k) PROVE core'[i] = core[i]
    BY <2>5 DEF See
  <2>6. ASSUME NEW k \in Members, CompleteRaw(k) \/ CompleteRle(k) PROVE core'[i] = core[i]
    <3>1. CASE CompleteRaw(k)
      <4>1. core[k].mode = "capturing" /\ \E c : core' = [core EXCEPT ![k] = c]
        BY <3>1, Zenon DEF CompleteRaw
      <4> QED
        BY <1>1, <2>1, <4>1
    <3>2. CASE CompleteRle(k)
      <4>1. core[k].mode = "capturing"
        BY <3>2 DEF CompleteRle
      <4>2. PICK end : core' = [core EXCEPT ![k].mode = "idle", ![k].shot = None, ![k].window = 1,
                                            ![k].end = end, ![k].kept[1].shot = core[k].shot]
        BY <3>2 DEF CompleteRle
      <4> QED
        BY <1>1, <2>1, <4>1, <4>2
    <3> QED
      BY <2>6, <3>1, <3>2
  <2> QED
    BY <1>4, <2>1, <2>2, <2>4, <2>5, <2>6 DEF Gateware
<1> QED
  BY <1>1, <1>2, <1>5, <1>6 DEF ArmedTo

(* What a call has so far is of members of the group.                      *)
LEMMA GotOfMembers ==
  ASSUME CutsOK, NEW t \in Tasks, Busy(t),
         Aligned(job[t]) \/ (IsSequence(job[t].got) /\ Len(job[t].got) + Len(job[t].todo) = Len(use.members))
  PROVE  DOMAIN job[t].got \subseteq Members
<1> DEFINE a == Len(job[t].got)
           b == Len(job[t].todo)
           n == Len(use.members)
<1>1. IsSequence(job[t].got) /\ IsSequence(job[t].todo)
  BY HeadStep DEF CutsOK, TellOK, TasksOK, Aligned
<1>2. a \in Nat /\ b \in Nat /\ DOMAIN job[t].got = 1..a
  BY <1>1, SequenceParts
<1>3. Members = 1..n /\ n \in Nat
  BY MembersOK DEF CutsOK, LinesOK, TypeOK
<1>4. a <= n
  <2>1. CASE Aligned(job[t])
    <3>1. (b + a) - n \in 0..b
      BY <2>1 DEF Aligned
    <3> HIDE DEF a, b, n
    <3> QED
      BY <1>2, <1>3, <3>1
  <2>2. CASE a + b = n
    <3> HIDE DEF a, b, n
    <3> QED
      BY <1>2, <1>3, <2>2
  <2> QED
    BY <2>1, <2>2
<1> HIDE DEF a, n
<1> QED
  BY <1>2, <1>3, <1>4

LEMMA GatewareOwn ==
  ASSUME CutsOK, Gateware
  PROVE  OwnOK'
<1>1. use' = use /\ armed' = armed /\ job' = job /\ orderly' = orderly /\ regs' = regs
  BY Zenon DEF Gateware, Fill, See, Fire, Tick, CompleteRaw, CompleteRle
<1> SUFFICES ASSUME NEW t \in Tasks, Busy(t) PROVE OwnNext(job[t])
  <2>1. \A t \in Tasks : Busy(t)' <=> Busy(t)
    BY <1>1 DEF Busy
  <2>2. \A t \in Tasks : Busy(t) => OwnNext(job'[t])
    BY <1>1
  <2> QED
    BY <1>1, <2>1, <2>2, OwnThen DEF OwnOK
<1> DEFINE j == job[t]
<1>2. OwnCall(j)
  BY DEF CutsOK, OwnOK
<1>3. Armers(j) => Ordered(j) /\ ArmedTo(j, core', regs', seen', ticks')
  <2> SUFFICES ASSUME Armers(j) PROVE ArmedTo(j, core', regs', seen', ticks')
    BY <1>2 DEF OwnCall
  <2>1. ArmedTo(j, core, regs, seen, ticks)
    BY <1>2 DEF OwnCall
  <2>2. StepOK(j.todo[1])
    BY HeadStep DEF CutsOK, TellOK, TasksOK
  <2>3. j.todo[1].m \in Members
    BY <2>2 DEF Armers, StepOK
  <2> QED
    BY <1>1, <2>1, <2>3, ArmedStays
<1>4. Waiters(j) => orderly' /\ Waited(j, core')
  <2> SUFFICES ASSUME Waiters(j) PROVE orderly' /\ Waited(j, core')
    OBVIOUS
  <2>1. orderly /\ Waited(j, core)
    BY <1>2 DEF OwnCall
  <2>2. DOMAIN j.got \subseteq Members
    BY <2>1, GotOfMembers DEF Waited
  <2>3. \A k \in DOMAIN j.got : j.got[k].state = "idle" => core'[k].mode = "idle"
    BY <2>1, <2>2, IdleStays DEF Waited
  <2> QED
    BY <1>1, <2>1, <2>3 DEF Waited
<1>5. Tellers(j) => orderly' /\ Telling(j, core', armed')
  <2> SUFFICES ASSUME Tellers(j) PROVE orderly' /\ Telling(j, core', armed')
    OBVIOUS
  <2>1. orderly /\ Telling(j, core, armed)
    BY <1>2 DEF OwnCall
  <2>2. \A i \in Members : core'[i] = core[i]
    BY <2>1, IdleStays DEF Telling
  <2>3. DOMAIN j.got \subseteq Members
    BY <2>1, GotOfMembers DEF Telling
  <2>4. \A k \in Members : \A p : ShotsOf(core', k, p) = ShotsOf(core, k, p)
    BY <2>2 DEF ShotsOf
  <2> QED
    BY <1>1, <2>1, <2>2, <2>3, <2>4 DEF Telling
<1> QED
  BY <1>2, <1>3, <1>4, <1>5 DEF OwnNext, OwnCall

LEMMA GatewareCuts ==
  ASSUME CutsOK, Gateware
  PROVE  SessionOK' /\ OwnOK'
BY GatewareOwn, FillCuts, SeeCuts, TickCuts, CompleteRawCuts, CompleteRleCuts, FireCuts, Zenon DEF Gateware

(* The step of a call: the others are alone only if it is a poll's.        *)
Seen == /\ core' = core /\ regs' = regs /\ seen' = seen /\ ticks' = ticks /\ armed' = armed /\ orderly' = orderly
LEMMA OwnGoes ==
  ASSUME CutsOK, use' = use, NEW t \in Tasks, NEW c, NEW j, job' = [Jobs(t, c) EXCEPT ![t] = j],
         StaysCompany(t, c, j), j.todo # <<>> => OwnNext(j), Quiet(c) => Seen
  PROVE  OwnOK'
<1> SUFFICES ASSUME NEW u \in Tasks, Busy(u)' PROVE OwnNext(job'[u])
  BY OwnThen DEF OwnOK
<1>1. CASE u = t
  <2>1. job'[t] = j
    BY DEF CutsOK, TellOK, TasksOK, CallsInStep, Jobs
  <2> QED
    BY <1>1, <2>1 DEF Busy
<1>2. CASE u # t
  <2>1. /\ Busy(u) /\ job'[u].whole = job[u].whole /\ job'[u].open = job[u].open
        /\ job'[u].alone => job'[u] = job[u] /\ job[u].alone /\ Quiet(c)
    BY <1>2, OthersStay DEF CutsOK
  <2>2. OwnCall(job[u])
    BY <2>1 DEF CutsOK, OwnOK
  <2>3. CASE job'[u].alone
    BY <2>1, <2>2, <2>3 DEF OwnCall, OwnNext, Seen
  <2>4. CASE ~job'[u].alone
    BY <2>1, <2>2, <2>4 DEF OwnCall, OwnNext, Armers, Waiters, Tellers
  <2> QED
    BY <2>3, <2>4
<1> QED
  BY <1>1, <1>2

(* Whoever steps, only it can begin to arm.                                *)
LEMMA OthersArm ==
  ASSUME CutsOK, NEW t \in Tasks, NEW c, NEW j, job' = [Jobs(t, c) EXCEPT ![t] = j], StaysCompany(t, c, j),
         \A u \in Tasks \ {t} : ~ArmsNow(u),
         j.todo # <<>> => j.todo[1].op \notin {"configure", "arm"}
  PROVE  \A u \in Tasks : ~ArmsNow(u)'
<1> SUFFICES ASSUME NEW u \in Tasks, ArmsNow(u)' PROVE FALSE
  OBVIOUS
<1>1. CASE u = t
  <2>1. job'[t] = j
    BY DEF CutsOK, TellOK, TasksOK, CallsInStep, Jobs
  <2> QED
    BY <1>1, <2>1 DEF Busy, ArmsNow
<1>2. CASE u # t
  <2>1. Busy(u) /\ job'[u].todo = job[u].todo
    BY <1>2, OthersStay DEF CutsOK, ArmsNow
  <2> QED
    BY <1>2, <2>1 DEF ArmsNow
<1> QED
  BY <1>1, <1>2

(* A step that leaves the gateware alone.                                  *)
LEMMA OwnStep ==
  ASSUME CutsOK, use' = use, Seen, fires' = fires, NEW t \in Tasks, NEW c, NEW j,
         job' = [Jobs(t, c) EXCEPT ![t] = j], StaysCompany(t, c, j),
         j.todo # <<>> => OwnCall(j) /\ (orderly => j.todo[1].op \notin {"configure", "arm"})
  PROVE  SessionOK' /\ OwnOK'
<1>1. j.todo # <<>> => OwnNext(j)
  BY DEF OwnCall, OwnNext, Seen
<1>2. OwnOK'
  BY <1>1, OwnGoes
<1>3. SessionOK'
  <2> SUFFICES ASSUME orderly' PROVE /\ (\E F : Session(F, core, ticks, fires, armed)')
                                     /\ \A u \in Tasks : ~ArmsNow(u)'
    BY DEF SessionOK
  <2>1. /\ (\E F : Session(F, core, ticks, fires, armed)) /\ \A u \in Tasks : ~ArmsNow(u)
    BY DEF CutsOK, SessionOK, Seen
  <2>2. PICK F : Session(F, core, ticks, fires, armed)
    BY <2>1
  <2>3. Session(F, core, ticks, fires, armed)'
    BY <2>2, SessionNext DEF Seen
  <2>4. \A u \in Tasks : ~ArmsNow(u)'
    BY <2>1, OthersArm DEF Seen
  <2> QED
    BY <2>1, <2>3, <2>4 DEF Seen
<1> QED
  BY <1>2, <1>3

(* A call that neither arms nor waits nor tells of a capture.              *)
LEMMA PlainCall ==
  ASSUME NEW j, ~j.whole \/ (j.open # <<>> /\ j.call.op = "own"),
         j.todo[1].op \notin {"configure", "arm", "status"}
  PROVE  OwnCall(j) /\ OwnNext(j) /\ j.todo[1].op \notin {"configure", "arm"}
BY DEF OwnCall, OwnNext, Armers, Waiters, Tellers

LEMMA NotWhole ==
  ASSUME CutsOK, NEW t \in Tasks, Busy(t), job[t].open = <<>>
  PROVE  ~job[t].whole
BY DEF CutsOK, OwnOK, OwnCall

(* A call that ends leaves nothing to say.                                 *)
LEMMA EndsCuts ==
  ASSUME CutsOK, use' = use, Seen, fires' = fires, NEW t \in Tasks, NEW j, NEW end, NEW value,
         Busy(t) => j.call = job[t].call, Ends(t, j, end, value)
  PROVE  SessionOK' /\ OwnOK'
<1>1. job' = [Jobs(t, j.call) EXCEPT ![t] = Idle]
  BY DEF Ends
<1>2. Idle.todo = <<>>
  BY DEF Idle
<1>3. StaysCompany(t, j.call, Idle)
  BY <1>2 DEF StaysCompany
<1> HIDE DEF Idle
<1> QED
  BY <1>1, <1>2, <1>3, OwnStep

LEMMA FailCuts ==
  ASSUME CutsOK, NEW t \in Tasks, Fail(t)
  PROVE  SessionOK' /\ OwnOK'
<1>1. use' = use /\ Seen /\ fires' = fires /\ Ends(t, job[t], "failed", None)
  BY DEF Fail, Seen
<1> QED
  BY <1>1, EndsCuts

LEMMA AdvancedKeeps ==
  ASSUME TasksOK, NEW t \in Tasks, Busy(t)
  PROVE  /\ Advanced(t).alone = job[t].alone /\ Advanced(t).whole = job[t].whole /\ Advanced(t).fresh = job[t].fresh
         /\ Advanced(t).tries = job[t].tries
<1>1. DOMAIN job[t] = CallFields
  BY AdvancedParts
<1> QED
  BY <1>1 DEF Advanced, CallFields

(* A poll goes on, or is answered.                                         *)
LEMMA PollCuts ==
  ASSUME CutsOK, use' = use, Seen, fires' = fires, NEW t \in Tasks, NEW k, PollCall(k), Spared(k), ~k.whole,
         k.alone => Alone(t), Busy(t) => k.call = job[t].call, PollGoes(t, k)
  PROVE  SessionOK' /\ OwnOK'
<1> DEFINE a == Answered(k, fetch)
<1>1. IF a.todo = <<>> THEN Ends(t, a, "done", Polled(a.got, fetch)) ELSE Goes(t, a)
  BY DEF PollGoes
<1>2. PollCall(a) /\ a.call = k.call /\ a.alone = k.alone
  BY AnsweredParts, AnsweredAlone
<1>3. a.whole = k.whole
  <2>1. DOMAIN k = CallFields
    BY DEF PollCall
  <2>2. \E got, todo : a = [k EXCEPT !.got = got, !.todo = todo]
    BY AnsweredIs
  <2> HIDE DEF a
  <2> QED
    BY <2>1, <2>2 DEF CallFields
<1> HIDE DEF a
<1>4. CASE a.todo = <<>>
  BY <1>1, <1>2, <1>4, EndsCuts
<1>5. CASE a.todo # <<>>
  <2>1. job' = [Jobs(t, a.call) EXCEPT ![t] = a]
    BY <1>1, <1>5 DEF Goes
  <2>2. StaysCompany(t, a.call, a)
    BY <1>2 DEF StaysCompany, Alone
  <2>3. a.todo[1].op = "poll"
    <3>1. IsSequence(a.todo)
      BY <1>2 DEF PollCall
    <3>2. Len(a.todo) \in Nat /\ Len(a.todo) > 0 /\ DOMAIN a.todo = 1..Len(a.todo)
      BY <1>5, <3>1, TailParts
    <3>3. 1 \in DOMAIN a.todo
      BY <3>2
    <3> QED
      BY <1>2, <3>3 DEF PollCall
  <2>4. OwnCall(a) /\ a.todo[1].op \notin {"configure", "arm"}
    BY <1>3, <2>3, PlainCall
  <2> QED
    BY <2>1, <2>2, <2>4, OwnStep
<1> QED
  BY <1>4, <1>5

LEMMA MemberPolledCuts ==
  ASSUME CutsOK, NEW t \in Tasks, PollMember(t)
  PROVE  SessionOK' /\ OwnOK'
<1> DEFINE k == AskedMember(t)
<1>1. Busy(t) /\ Head(job[t].todo).op = "poll" /\ use' = use /\ Seen /\ fires' = fires /\ PollGoes(t, k)
  BY Zenon DEF PollMember, Now, AskedMember, Seen
<1>2. PollCall(k) /\ k.call = job[t].call /\ k.alone = job[t].alone
  BY <1>1, AskedTells DEF CutsOK
<1>3. job[t].open = <<>>
  BY <1>1, Phase DEF CutsOK, TellOK
<1>4. ~job[t].whole
  BY <1>1, <1>3, NotWhole
<1>5. DOMAIN Advanced(t) = CallFields /\ Advanced(t).during = job[t].during /\ Advanced(t).whole = job[t].whole
  BY <1>1, AdvancedParts, AdvancedKeeps DEF CutsOK, TellOK
<1>6. k.whole = job[t].whole /\ k.during = job[t].during
  BY <1>5 DEF AskedMember, CallFields
<1>7. Spared(k)
  BY <1>1, <1>2, <1>6 DEF Spared, CutsOK, TellOK, TasksOK, PollStaysOffTheLink
<1>8. k.alone => Alone(t)
  BY <1>1, <1>2 DEF CutsOK, TellOK, CompanyOK, Alone
<1> HIDE DEF k
<1> QED
  BY <1>1, <1>2, <1>4, <1>6, <1>7, <1>8, PollCuts

(* The readback of a group, as it begins.                                  *)
LEMMA ReadingParts ==
  ASSUME use \in Uses, NEW j, NEW plan, DOMAIN j = CallFields
  PROVE  LET k == Reading(j, plan)
         IN /\ k.call = j.call /\ k.alone = j.alone /\ k.whole = j.whole /\ k.fresh = j.fresh
            /\ k.open # <<>> /\ k.plan = plan /\ k.got = <<>> /\ Aligned(k) /\ k.todo # <<>> /\ k.todo[1].op = "size"
<1> DEFINE k == Reading(j, plan)
           n == Len(use.members)
           todo == All("size") \o All("heads")
<1>1. /\ k.call = j.call /\ k.alone = j.alone /\ k.todo = todo /\ k.whole = j.whole /\ k.fresh = j.fresh
      /\ k.open = GroupOpen /\ k.plan = plan /\ k.got = <<>>
  BY DEF Reading, CallFields
<1>2. n \in Nat /\ n > 0 /\ Members = 1..n
  BY MembersOK
<1>3. /\ IsSequence(All("size")) /\ Len(All("size")) = n
      /\ IsSequence(All("heads")) /\ Len(All("heads")) = n
      /\ \A l \in Members : /\ All("size")[l].op = "size"
                            /\ All("heads")[l].op = "heads" /\ All("heads")[l].m = l
  BY <1>2, AllParts
<1>4. IsSequence(<<>>) /\ Len(<<>>) = 0 /\ DOMAIN <<>> = {}
  <2>1. <<>> \in Seq({})
    OBVIOUS
  <2>2. IsSequence(<<>>)
    BY <2>1, SequenceOver, Zenon
  <2> QED
    BY <2>2
<1>5. GroupOpen # <<>>
  <2>1. DOMAIN GroupOpen = 1..n+1
    BY DEF GroupOpen
  <2>2. 1 \in DOMAIN GroupOpen
    BY <1>2, <2>1
  <2> QED
    BY <1>4, <2>2
<1> HIDE DEF k, n
<1>6. /\ DOMAIN todo = 1..n+n
      /\ \A l \in 1..n+n : todo[l] = IF l <= n THEN All("size")[l] ELSE All("heads")[l - n]
  <2>1. IsSequence(All("size")) /\ Len(All("size")) = n /\ IsSequence(All("heads")) /\ Len(All("heads")) = n
    BY <1>3
  <2> QED
    BY <2>1, TwoHalves
<1>7. Len(todo) = n + n
  <2>1. Len(todo) = Len(All("size")) + Len(All("heads"))
    BY <1>3, JoinParts
  <2> QED
    BY <1>3, <2>1, Zenon
<1> HIDE DEF todo
<1>8. ASSUME NEW l \in 1..n+n
      PROVE  IF l <= n THEN todo[l].op = "size" ELSE todo[l].op = "heads" /\ todo[l].m = l - n
  <2>1. CASE l <= n
    <3>1. l \in Members
      BY <1>2, <2>1
    <3>2. todo[l] = All("size")[l]
      BY <1>6, <2>1
    <3> QED
      BY <1>3, <2>1, <3>1, <3>2
  <2>2. CASE ~(l <= n)
    <3>1. l - n \in Members
      BY <1>2, <2>2
    <3>2. todo[l] = All("heads")[l - n]
      BY <1>6, <2>2
    <3> QED
      BY <1>3, <2>2, <3>1, <3>2
  <2> QED
    BY <2>1, <2>2
<1>9. Aligned(k)
  <2> DEFINE h == (Len(k.todo) + Len(k.got)) - Len(use.members)
  <2>1. Len(k.todo) = n + n /\ Len(k.got) = 0 /\ IsSequence(k.got) /\ DOMAIN k.todo = 1..n+n
    BY <1>1, <1>4, <1>6, <1>7, Zenon
  <2>2. h = n
    BY <1>2, <2>1 DEF n
  <2> HIDE DEF h
  <2>3. h \in 0..Len(k.todo)
    BY <1>2, <2>1, <2>2
  <2>4. ASSUME NEW l \in 1..n+n
        PROVE  /\ (k.todo[l].op = "heads" <=> l > h) /\ (l > h => k.todo[l].m = (l - h) + Len(k.got))
               /\ k.todo[l].op # "burst"
    <3>1. l <= n <=> ~(l > h)
      BY <1>2, <2>2
    <3>2. (l - h) + Len(k.got) = l - n
      BY <1>2, <2>1, <2>2
    <3>3. k.todo[l] = todo[l]
      BY <1>1
    <3>4. "size" # "heads" /\ "burst" # "heads" /\ "burst" # "size"
      OBVIOUS
    <3> QED
      BY <1>8, <3>1, <3>2, <3>3, <3>4
  <2> QED
    BY <2>1, <2>3, <2>4 DEF Aligned, h
<1>10. k.todo # <<>> /\ k.todo[1].op = "size"
  <2>1. 1 \in 1..n+n /\ 1 <= n
    BY <1>2
  <2>2. k.todo[1].op = "size" /\ 1 \in DOMAIN k.todo
    BY <1>1, <1>6, <1>8, <2>1
  <2> QED
    BY <1>4, <2>2
<1> QED
  BY <1>1, <1>5, <1>9, <1>10 DEF k

(* The order of the steps of an arm.                                       *)
LEMMA ConfigureOrder ==
  ASSUME NEW plan, NEW n \in Nat, NEW k \in 1..2*n, NEW s, s = ConfigureSteps(plan, n)
  PROVE  /\ s[k].op = "configure" => /\ s[k].params = plan[s[k].m] /\ k + 1 \in 1..2*n
                                     /\ s[k + 1].op = "arm" /\ s[k + 1].m = s[k].m
         /\ s[k].op = "arm" => IF k + 1 \in 1..2*n THEN s[k + 1].op = "configure" /\ s[k + 1].m = s[k].m + 1
                               ELSE s[k].m = n
         /\ k = 1 => s[k].op = "configure" /\ s[k].m = 1
<1>1. ASSUME NEW l \in 1..2*n
      PROVE  IF l % 2 = 0 THEN s[l].op = "arm" /\ s[l].m = l \div 2
             ELSE s[l].op = "configure" /\ s[l].m = (l + 1) \div 2 /\ s[l].params = plan[(l + 1) \div 2]
  <2>1. CASE l % 2 = 0
    <3>1. s[l] = [op |-> "arm", m |-> l \div 2]
      BY <2>1 DEF ConfigureSteps
    <3> QED
      BY <2>1, <3>1
  <2>2. CASE l % 2 # 0
    <3> DEFINE i == (l + 1) \div 2
    <3>1. s[l] = [op |-> "configure", m |-> i, params |-> plan[i]]
      BY <2>2 DEF ConfigureSteps
    <3> HIDE DEF i
    <3>2. s[l].op = "configure" /\ s[l].m = i /\ s[l].params = plan[i]
      BY <3>1
    <3> QED
      BY <2>2, <3>2 DEF i
  <2> QED
    BY <2>1, <2>2
<1>2. "arm" # "configure"
  OBVIOUS
<1>3. CASE k % 2 = 0
  <2>1. s[k].op = "arm" /\ s[k].m = k \div 2
    BY <1>1, <1>3
  <2>2. CASE k + 1 \in 1..2*n
    <3>1. (k + 1) % 2 # 0 /\ ((k + 1) + 1) \div 2 = (k \div 2) + 1
      BY <1>3
    <3>2. s[k + 1].op = "configure" /\ s[k + 1].m = ((k + 1) + 1) \div 2
      BY <1>1, <2>2, <3>1
    <3> QED
      BY <1>2, <1>3, <2>1, <2>2, <3>1, <3>2
  <2>3. CASE k + 1 \notin 1..2*n
    <3>1. k = 2 * n /\ k \div 2 = n
      BY <2>3
    <3> QED
      BY <1>2, <1>3, <2>1, <2>3, <3>1
  <2> QED
    BY <2>2, <2>3
<1>4. CASE k % 2 # 0
  <2>1. s[k].op = "configure" /\ s[k].m = (k + 1) \div 2 /\ s[k].params = plan[(k + 1) \div 2]
    BY <1>1, <1>4
  <2>2. k + 1 \in 1..2*n /\ (k + 1) % 2 = 0
    BY <1>4
  <2>3. s[k + 1].op = "arm" /\ s[k + 1].m = (k + 1) \div 2
    BY <1>1, <2>2
  <2>4. k = 1 => (k + 1) \div 2 = 1
    OBVIOUS
  <2> QED
    BY <1>2, <2>1, <2>2, <2>3, <2>4
<1> QED
  BY <1>3, <1>4

LEMMA ArmStepsOrder ==
  ASSUME use \in Uses, NEW plan, ArmSteps(plan)[1].op # "raise", NEW j, j.todo = ArmSteps(plan), j.plan = plan,
         j.got = <<>>, IsSequence(ArmSteps(plan)), ArmSteps(plan) # <<>>
  PROVE  Ordered(j) /\ j.todo[1].op = "configure" /\ j.todo[1].m = 1
<1> DEFINE n == Len(use.members)
           wrong == {i \in Members : ~Valid(plan, i)}
<1>1. n \in Nat /\ n > 0 /\ Members = 1..n
  BY MembersOK
<1>2. ArmSteps(plan) = IF wrong = {} THEN ConfigureSteps(plan, n)
                       ELSE Append(ConfigureSteps(plan, Smallest(wrong) - 1), [op |-> "raise"])
  BY DEF ArmSteps, ConfigureSteps
<1>3. ASSUME NEW k \in Nat
      PROVE  LET s == ConfigureSteps(plan, k)
             IN s \in [1..2*k -> {s[l] : l \in 1..2*k}] /\ IsSequence(s) /\ Len(s) = 2 * k /\ DOMAIN s = 1..2*k
  <2> DEFINE s == ConfigureSteps(plan, k)
             E == {s[l] : l \in 1..2*k}
  <2>1. 2 * k \in Nat
    OBVIOUS
  <2>2. s = [l \in 1..2*k |-> s[l]]
    BY DEF ConfigureSteps
  <2> HIDE DEF s
  <2>3. s \in [1..2*k -> E]
    BY <2>2
  <2> HIDE DEF E
  <2>4. IsSequence(s) /\ Len(s) = 2 * k /\ DOMAIN s = 1..2*k
    BY <2>1, <2>3, FunctionIsSequence
  <2> QED
    BY <2>3, <2>4 DEF s, E
<1>4. CASE wrong = {}
  <2> DEFINE s == ConfigureSteps(plan, n)
  <2>1. j.todo = s /\ DOMAIN s = 1..2*n
    BY <1>1, <1>2, <1>3, <1>4
  <2> HIDE DEF n
  <2>2. ASSUME NEW k \in 1..2*n
        PROVE  /\ s[k].op = "configure" => /\ s[k].params = plan[s[k].m] /\ k + 1 \in 1..2*n
                                           /\ s[k + 1].op = "arm" /\ s[k + 1].m = s[k].m
               /\ s[k].op = "arm" => IF k + 1 \in 1..2*n THEN s[k + 1].op = "configure" /\ s[k + 1].m = s[k].m + 1
                                     ELSE s[k].m = n
               /\ k = 1 => s[k].op = "configure" /\ s[k].m = 1
    BY <1>1, ConfigureOrder
  <2> HIDE DEF s
  <2>3. Ordered(j)
    BY <2>1, <2>2 DEF Ordered, n
  <2>4. 1 \in 1..2*n
    BY <1>1
  <2> QED
    BY <2>1, <2>2, <2>3, <2>4
<1>5. CASE wrong # {}
  <2> DEFINE a == Smallest(wrong) - 1
             s == ConfigureSteps(plan, a)
             r == Append(s, [op |-> "raise"])
  <2>1. a \in Nat
    <3>1. wrong \in SUBSET Nat /\ wrong \subseteq 1..n
      BY <1>1
    <3> HIDE DEF wrong
    <3>2. Smallest(wrong) \in 1..n
      BY <1>5, <3>1, SmallestIsLeast
    <3> QED
      BY <1>1, <3>2
  <2>2. j.todo = r
    BY <1>2, <1>5
  <2> HIDE DEF a
  <2>3. IsSequence(s) /\ Len(s) = 2 * a /\ DOMAIN s = 1..2*a
    BY <1>3, <2>1
  <2>4. ASSUME NEW k \in 1..2*a
        PROVE  /\ s[k].op = "configure" => /\ s[k].params = plan[s[k].m] /\ k + 1 \in 1..2*a
                                           /\ s[k + 1].op = "arm" /\ s[k + 1].m = s[k].m
               /\ s[k].op = "arm" => IF k + 1 \in 1..2*a THEN s[k + 1].op = "configure" /\ s[k + 1].m = s[k].m + 1
                                     ELSE s[k].m = a
               /\ k = 1 => s[k].op = "configure" /\ s[k].m = 1
    BY <2>1, ConfigureOrder
  <2> HIDE DEF s
  <2>5. /\ Len(r) = Len(s) + 1 /\ DOMAIN r = 1..Len(s)+1
        /\ \A k \in 1..Len(s) : r[k] = s[k]
        /\ r[Len(s) + 1] = [op |-> "raise"]
    BY <2>3, AppendParts
  <2> HIDE DEF r
  <2> DEFINE d == 2 * a
  <2>6. /\ DOMAIN r = 1..d+1 /\ \A k \in 1..d : r[k] = s[k]
        /\ r[d + 1].op = "raise"
    <3>1. Len(s) = d
      BY <2>3
    <3>2. [op |-> "raise"].op = "raise"
      OBVIOUS
    <3> HIDE DEF d
    <3> QED
      BY <2>5, <3>1, <3>2
  <2>7. d \in Nat
    BY <2>1
  <2>8. ASSUME NEW k \in 1..d
        PROVE  /\ s[k].op = "configure" => /\ s[k].params = plan[s[k].m] /\ k + 1 \in 1..d
                                           /\ s[k + 1].op = "arm" /\ s[k + 1].m = s[k].m
               /\ s[k].op = "arm" /\ k + 1 \in 1..d => s[k + 1].op = "configure" /\ s[k + 1].m = s[k].m + 1
               /\ k = 1 => s[k].op = "configure" /\ s[k].m = 1
    BY <2>4
  <2> HIDE DEF d
  <2>9. ASSUME NEW k \in 1..d+1
        PROVE  k = d + 1 \/ k \in 1..d
    BY <2>7
  <2>10. \A k \in 1..d+1 : k + 1 \in 1..d+1 <=> k \in 1..d
    BY <2>7
  <2>11. \A k \in 1..d : k + 1 \in 1..d \/ k + 1 = d + 1
    BY <2>7
  <2>12. "raise" # "configure" /\ "raise" # "arm"
    OBVIOUS
  <2>13. Ordered(j)
    <3>1. \A k \in DOMAIN r : r[k].op = "configure" => r[k].params = plan[r[k].m]
      BY <2>6, <2>8, <2>9, <2>12
    <3>2. ASSUME NEW k \in DOMAIN r, k + 1 \in DOMAIN r
          PROVE  /\ r[k].op = "configure" => r[k + 1].op = "arm" /\ r[k + 1].m = r[k].m
                 /\ r[k].op = "arm" /\ r[k + 1].op # "raise" =>
                      r[k + 1].op = "configure" /\ r[k + 1].m = r[k].m + 1
      <4>1. k \in 1..d
        BY <2>6, <2>10, <3>2
      <4>2. CASE k + 1 \in 1..d
        BY <2>6, <2>8, <4>1, <4>2
      <4>3. CASE k + 1 = d + 1
        <5>1. k + 1 \notin 1..d
          BY <2>7, <4>3
        <5> QED
          BY <2>6, <2>8, <4>1, <4>3, <5>1
      <4> QED
        BY <2>11, <4>1, <4>2, <4>3
    <3>3. \A k \in DOMAIN r : r[k].op = "arm" => k + 1 \in DOMAIN r
      BY <2>6, <2>9, <2>10, <2>12
    <3> QED
      BY <2>2, <3>1, <3>2, <3>3 DEF Ordered
  <2>14. 1 \in 1..d
    <3>1. r[1].op # "raise" /\ 1 \in 1..d+1
      BY <2>2, <2>7
    <3> QED
      BY <2>6, <2>9, <3>1
  <2> QED
    BY <2>2, <2>6, <2>8, <2>13, <2>14
<1> QED
  BY <1>4, <1>5

(* A call begins.                                                          *)
LEMMA BegunCompany ==
  ASSUME NEW t \in Tasks, ~Busy(t), NEW k, k.alone => Alone(t)
  PROVE  StaysCompany(t, k.call, k)
BY DEF StaysCompany, Alone

(* One that spoils what came before it.                                    *)
LEMMA SpoilsCuts ==
  ASSUME CutsOK, use' = use, NEW t \in Tasks, NEW k, ~Quiet(k.call), Goes(t, k), StaysCompany(t, k.call, k),
         OwnNext(k), ~orderly'
  PROVE  SessionOK' /\ OwnOK'
<1>1. job' = [Jobs(t, k.call) EXCEPT ![t] = k]
  BY DEF Goes
<1>2. SessionOK'
  BY DEF SessionOK
<1> QED
  BY <1>1, <1>2, OwnGoes

LEMMA BeginCuts ==
  ASSUME CutsOK, NEW t \in Tasks, NEW c \in use.calls[t], Begin(t, c)
  PROVE  SessionOK' /\ OwnOK'
<1> DEFINE j == [Call(c) EXCEPT !.alone = Alone(t)]
<1>1. /\ ~Busy(t) /\ use' = use /\ core' = core /\ regs' = regs /\ seen' = seen /\ ticks' = ticks /\ fires' = fires
      /\ armed' = armed
  BY Zenon DEF Begin
<1>2. BeginArm(t, c, j) \/ BeginAbort(t, c, j) \/ BeginPoll(t, c, j) \/ BeginRead(t, c, j) \/ BeginOwnRead(t, c, j)
  BY Zenon DEF Begin, Alone
<1>3. /\ DOMAIN j = CallFields /\ j.call = c /\ j.open = <<>> /\ j.got = <<>> /\ (j.alone <=> Alone(t))
      /\ j.whole = FALSE /\ (j.fresh <=> Rest)
  BY DEF Call, CallFields
<1>4. TasksOK /\ use \in Uses
  BY Typed DEF CutsOK
<1> HIDE DEF j
<1>5. CASE BeginArm(t, c, j)
  <2> DEFINE plan == ArmPlan(c)
             steps == ArmSteps(plan)
             k == [j EXCEPT !.todo = steps, !.plan = plan, !.window = ArmWindow(c), !.tries = use.tries]
  <2>1. c.op \in {"arm", "capture"}
    BY <1>5 DEF BeginArm
  <2>2. c \in Arms(use) /\ WindowOf(c) = ArmWindow(c)
    BY <2>1 DEF Arms, Calls, WindowOf, ArmWindow
  <2>3. \/ PlanRefused(ArmWindow(c), use.members, c.overrides) /\ Ends(t, j, "refused", None) /\ orderly' = orderly
        \/ /\ ~PlanRefused(ArmWindow(c), use.members, c.overrides)
           /\ \/ Ends(t, j, "raised", plan) /\ orderly' = orderly
              \/ steps[1].op # "raise" /\ Goes(t, k) /\ orderly' = FALSE
    BY <1>5, <2>2, Zenon DEF BeginArm, ArmPlan
  <2>4. CASE orderly' = orderly /\ (Ends(t, j, "refused", None) \/ Ends(t, j, "raised", plan))
    BY <1>1, <2>4, EndsCuts DEF Seen
  <2>5. CASE ~PlanRefused(ArmWindow(c), use.members, c.overrides) /\ steps[1].op # "raise" /\ Goes(t, k) /\ orderly' = FALSE
    <3>1. Planned(c)
      BY <2>2, <2>5 DEF Planned
    <3>2. IsSequence(steps) /\ steps # <<>>
      BY <1>4, <3>1, ArmStepsParts
    <3>3. /\ k.call = c /\ k.open = <<>> /\ k.alone = j.alone /\ k.whole = FALSE /\ k.fresh = j.fresh
          /\ k.todo = steps /\ k.plan = plan /\ k.got = <<>>
      BY <1>3 DEF CallFields
    <3> HIDE DEF k
    <3>4. Ordered(k) /\ k.todo[1].op = "configure" /\ k.todo[1].m = 1
      BY <1>4, <2>5, <3>2, <3>3, ArmStepsOrder
    <3>5. ASSUME k.fresh PROVE ArmedTo(k, core', regs', seen', ticks')
      <4>1. \A i \in Members : core[i].mode = "idle" /\ ~(i < 1)
        BY <1>3, <1>4, <3>3, <3>5, MembersOK DEF Rest
      <4> QED
        BY <1>1, <3>4, <4>1 DEF ArmedTo
    <3>6. OwnNext(k)
      BY <3>3, <3>4, <3>5 DEF OwnNext, Armers, Waiters, Tellers
    <3>7. ~Quiet(k.call)
      BY <2>1, <3>3 DEF Quiet
    <3>8. StaysCompany(t, k.call, k)
      BY <1>1, <1>3, <3>3, BegunCompany
    <3> QED
      BY <1>1, <2>5, <3>6, <3>7, <3>8, SpoilsCuts
  <2> QED
    BY <2>3, <2>4, <2>5
<1>6. CASE BeginAbort(t, c, j)
  <2> DEFINE k == [j EXCEPT !.todo = All("abort")]
  <2>1. c.op = "abort" /\ Goes(t, k) /\ orderly' = FALSE
    BY <1>6, Zenon DEF BeginAbort
  <2>2. k.call = c /\ k.alone = j.alone /\ k.whole = FALSE /\ k.todo = All("abort")
    BY <1>3 DEF CallFields
  <2>3. ~Quiet(c)
    BY <2>1 DEF Quiet
  <2> HIDE DEF k
  <2>4. k.todo[1].op = "abort"
    <3>1. 1 \in 1..Len(use.members)
      BY <1>4, MembersOK
    <3> QED
      BY <1>4, <2>2, <3>1, AllParts
  <2>5. OwnNext(k)
    BY <2>2, <2>4, PlainCall
  <2>6. StaysCompany(t, k.call, k)
    BY <1>1, <1>3, <2>2, BegunCompany
  <2> QED
    BY <1>1, <2>1, <2>2, <2>3, <2>5, <2>6, SpoilsCuts
<1>7. CASE BeginPoll(t, c, j)
  <2> DEFINE k == [j EXCEPT !.todo = All("poll"), !.during = fetch[0].depth > 0]
  <2>1. PollGoes(t, k) /\ orderly' = orderly
    BY <1>7, Zenon DEF BeginPoll
  <2>2. /\ DOMAIN k = CallFields /\ k.todo = All("poll") /\ k.call = c /\ k.open = <<>> /\ k.alone = j.alone
        /\ k.whole = FALSE /\ k.during = (fetch[0].depth > 0)
    BY <1>3 DEF CallFields
  <2> HIDE DEF k
  <2>3. PollCall(k)
    BY <1>4, <2>2, AllParts DEF PollCall
  <2>4. Spared(k)
    BY <1>4, <2>2, GroupHasAll DEF Spared
  <2> QED
    BY <1>1, <1>3, <2>1, <2>2, <2>3, <2>4, PollCuts DEF Seen
<1>8. CASE BeginRead(t, c, j)
  <2> DEFINE i == [j EXCEPT !.whole = Whole /\ Reused(c)]
             k == Reading(i, ReadPlan(c))
  <2>1. c.op = "read" /\ orderly' = orderly
    BY <1>8, Zenon DEF BeginRead
  <2>2. Ends(t, j, "refused", None) \/ (ReadPlan(c) # None /\ Goes(t, k))
    BY <1>8, Zenon DEF BeginRead
  <2>3. CASE Ends(t, j, "refused", None)
    BY <1>1, <2>1, <2>3, EndsCuts DEF Seen
  <2>4. CASE ReadPlan(c) # None /\ Goes(t, k)
    <3>1. DOMAIN i = CallFields /\ i.call = c /\ i.alone = j.alone /\ (i.whole <=> Whole /\ Reused(c))
      BY <1>3 DEF CallFields
    <3> HIDE DEF i
    <3>2. /\ k.call = c /\ k.alone = j.alone /\ (k.whole <=> Whole /\ Reused(c)) /\ k.open # <<>>
          /\ k.plan = ReadPlan(c) /\ k.got = <<>> /\ Aligned(k) /\ k.todo[1].op = "size"
      BY <1>4, <3>1, ReadingParts
    <3>3. job' = [Jobs(t, k.call) EXCEPT ![t] = k]
      BY <2>4 DEF Goes
    <3> HIDE DEF k
    <3>4. ASSUME k.whole PROVE orderly /\ Telling(k, core, armed)
      <4>1. orderly /\ Reused(c) /\ \A m \in Members : core[m].mode = "idle"
        BY <3>2, <3>4 DEF Whole
      <4>2. armed # None
        BY <2>4, <4>1 DEF ReadPlan
      <4>3. k.plan = armed.plan
        BY <3>2, <4>1, <4>2 DEF ReadPlan
      <4>4. DOMAIN k.got = {}
        BY <3>2
      <4> QED
        BY <3>2, <4>1, <4>3, <4>4 DEF Telling
    <3>5. OwnCall(k)
      BY <3>2, <3>4 DEF OwnCall, Armers, Waiters, Tellers
    <3>6. StaysCompany(t, k.call, k)
      BY <1>1, <1>3, <3>2, BegunCompany
    <3> QED
      BY <1>1, <2>1, <3>2, <3>3, <3>5, <3>6, OwnStep DEF Seen
  <2> QED
    BY <2>2, <2>3, <2>4
<1>9. CASE BeginOwnRead(t, c, j)
  <2> DEFINE todo == <<[op |-> "heads", m |-> c.m]>>
             k == [j EXCEPT !.open = <<c.m>>, !.todo = todo, !.plan = [i \in Members |-> c.params]]
  <2>1. Goes(t, k) /\ orderly' = orderly
    BY <1>9, Zenon DEF BeginOwnRead
  <2>2. k.call = c /\ k.alone = j.alone /\ k.todo = todo /\ k.whole = FALSE
    BY <1>3 DEF CallFields
  <2>3. todo[1].op = "heads"
    OBVIOUS
  <2> HIDE DEF k, todo
  <2>4. OwnCall(k) /\ k.todo[1].op \notin {"configure", "arm"}
    BY <2>2, <2>3, PlainCall
  <2>5. job' = [Jobs(t, k.call) EXCEPT ![t] = k]
    BY <2>1 DEF Goes
  <2>6. StaysCompany(t, k.call, k)
    BY <1>1, <1>3, <2>2, BegunCompany
  <2> QED
    BY <1>1, <2>1, <2>4, <2>5, <2>6, OwnStep DEF Seen
<1> QED
  BY <1>2, <1>5, <1>6, <1>7, <1>8, <1>9

LEMMA SpoilsEnds ==
  ASSUME CutsOK, use' = use, NEW t \in Tasks, NEW j, NEW end, NEW value, ~Quiet(j.call), Ends(t, j, end, value),
         Busy(t) => j.call = job[t].call, ~orderly'
  PROVE  SessionOK' /\ OwnOK'
<1>1. job' = [Jobs(t, j.call) EXCEPT ![t] = Idle]
  BY DEF Ends
<1>2. Idle.todo = <<>>
  BY DEF Idle
<1>3. StaysCompany(t, j.call, Idle)
  BY <1>2 DEF StaysCompany
<1>4. SessionOK'
  BY DEF SessionOK
<1> HIDE DEF Idle
<1> QED
  BY <1>1, <1>2, <1>3, <1>4, OwnGoes

(* An arm, one step on.                                                    *)
LEMMA OrderedTail ==
  ASSUME NEW j, IsSequence(j.todo), Ordered(j), NEW k, k.todo = Tail(j.todo), k.todo # <<>>, k.plan = j.plan,
         k.got = j.got
  PROVE  /\ Ordered(k)
         /\ j.todo[1].op = "configure" => /\ k.todo[1].op = "arm" /\ k.todo[1].m = j.todo[1].m
                                          /\ j.todo[1].params = j.plan[j.todo[1].m]
         /\ j.todo[1].op = "arm" /\ k.todo[1].op # "raise" =>
              k.todo[1].op = "configure" /\ k.todo[1].m = j.todo[1].m + 1
<1> DEFINE n == Len(j.todo)
<1>1. j.todo # <<>>
  BY DEF Ordered
<1>2. /\ IsSequence(k.todo) /\ DOMAIN k.todo = 1..n-1 /\ DOMAIN j.todo = 1..n /\ n \in Nat /\ n > 0
      /\ \A l \in 1..n-1 : k.todo[l] = j.todo[l + 1]
  BY <1>1, TailParts
<1>3. Len(k.todo) > 0 /\ Len(k.todo) \in Nat /\ DOMAIN k.todo = 1..Len(k.todo)
  BY <1>2, TailParts
<1> HIDE DEF n
<1>4. 1 \in 1..n-1 /\ 1 \in 1..n /\ 1 + 1 \in 1..n
  BY <1>2, <1>3
<1>5. ASSUME NEW l \in 1..n-1
      PROVE  l + 1 \in DOMAIN j.todo /\ k.todo[l] = j.todo[l + 1] /\ (l + 1 \in DOMAIN k.todo <=> (l + 1) + 1 \in DOMAIN j.todo)
             /\ (l + 1 \in DOMAIN k.todo => k.todo[l + 1] = j.todo[(l + 1) + 1])
  BY <1>2
<1>6. /\ \A l \in DOMAIN j.todo : j.todo[l].op = "configure" => j.todo[l].params = j.plan[j.todo[l].m]
      /\ \A l \in DOMAIN j.todo : l + 1 \in DOMAIN j.todo =>
           /\ j.todo[l].op = "configure" => j.todo[l + 1].op = "arm" /\ j.todo[l + 1].m = j.todo[l].m
           /\ j.todo[l].op = "arm" /\ j.todo[l + 1].op # "raise" =>
                j.todo[l + 1].op = "configure" /\ j.todo[l + 1].m = j.todo[l].m + 1
      /\ \A l \in DOMAIN j.todo : j.todo[l].op = "arm" /\ l + 1 \notin DOMAIN j.todo =>
           j.todo[l].m = Len(use.members)
      /\ j.got = <<>>
  BY DEF Ordered
<1>7. Ordered(k)
  <2>1. ASSUME NEW l \in DOMAIN k.todo
        PROVE  /\ k.todo[l].op = "configure" => k.todo[l].params = k.plan[k.todo[l].m]
               /\ l + 1 \in DOMAIN k.todo =>
                    /\ k.todo[l].op = "configure" => k.todo[l + 1].op = "arm" /\ k.todo[l + 1].m = k.todo[l].m
                    /\ k.todo[l].op = "arm" /\ k.todo[l + 1].op # "raise" =>
                         k.todo[l + 1].op = "configure" /\ k.todo[l + 1].m = k.todo[l].m + 1
               /\ k.todo[l].op = "arm" /\ l + 1 \notin DOMAIN k.todo => k.todo[l].m = Len(use.members)
    <3> DEFINE u == l + 1
    <3>1. /\ u \in DOMAIN j.todo /\ k.todo[l] = j.todo[u] /\ (u \in DOMAIN k.todo <=> u + 1 \in DOMAIN j.todo)
          /\ u \in DOMAIN k.todo => k.todo[u] = j.todo[u + 1]
      BY <1>2, <1>5
    <3> HIDE DEF u
    <3>2. /\ j.todo[u].op = "configure" => j.todo[u].params = j.plan[j.todo[u].m]
          /\ u + 1 \in DOMAIN j.todo =>
               /\ j.todo[u].op = "configure" => j.todo[u + 1].op = "arm" /\ j.todo[u + 1].m = j.todo[u].m
               /\ j.todo[u].op = "arm" /\ j.todo[u + 1].op # "raise" =>
                    j.todo[u + 1].op = "configure" /\ j.todo[u + 1].m = j.todo[u].m + 1
          /\ j.todo[u].op = "arm" /\ u + 1 \notin DOMAIN j.todo => j.todo[u].m = Len(use.members)
      BY <1>6, <3>1
    <3>3. /\ k.todo[l].op = "configure" => k.todo[l].params = k.plan[k.todo[l].m]
          /\ u \in DOMAIN k.todo =>
               /\ k.todo[l].op = "configure" => k.todo[u].op = "arm" /\ k.todo[u].m = k.todo[l].m
               /\ k.todo[l].op = "arm" /\ k.todo[u].op # "raise" =>
                    k.todo[u].op = "configure" /\ k.todo[u].m = k.todo[l].m + 1
          /\ k.todo[l].op = "arm" /\ u \notin DOMAIN k.todo => k.todo[l].m = Len(use.members)
      BY <3>1, <3>2
    <3> QED
      BY <3>3 DEF u
  <2> QED
    BY <1>6, <2>1 DEF Ordered
<1>8. k.todo[1] = j.todo[1 + 1] /\ 1 \in DOMAIN j.todo /\ 1 + 1 \in DOMAIN j.todo
  BY <1>2, <1>4
<1> QED
  BY <1>6, <1>7, <1>8

LEMMA ConfigureCuts ==
  ASSUME CutsOK, NEW t \in Tasks, Configure(t)
  PROVE  SessionOK' /\ OwnOK'
<1> DEFINE j == Advanced(t)
           s == Head(job[t].todo)
<1>1. /\ Settled /\ Busy(t) /\ s.op = "configure" /\ Goes(t, j) /\ use' = use /\ orderly' = orderly
      /\ core' = core /\ seen' = seen /\ ticks' = ticks /\ regs' = [regs EXCEPT ![s.m] = s.params]
  BY Zenon DEF Configure, Now
<1>2. TasksOK /\ use \in Uses /\ TypeOK
  BY Typed DEF CutsOK, TasksOK
<1>3. /\ IsSequence(job[t].todo) /\ s = job[t].todo[1] /\ job[t].todo # <<>> /\ StepOK(s) /\ Arming(job[t])
  BY <1>1, <1>2, HeadStep, Phase DEF TasksOK
<1>4. /\ j.todo = Tail(job[t].todo) /\ j.call = job[t].call /\ j.open = job[t].open /\ j.plan = job[t].plan
      /\ j.got = job[t].got /\ j.alone = job[t].alone /\ j.whole = job[t].whole /\ j.fresh = job[t].fresh
  BY <1>1, <1>2, AdvancedParts, AdvancedKeeps
<1>5. ~job[t].whole /\ ~Quiet(j.call) /\ StaysCompany(t, j.call, j)
  BY <1>1, <1>3, <1>4, NotWhole, NotQuiet, CompanyOf DEF CutsOK, Arming
<1>6. ~orderly
  BY <1>1, <1>3 DEF CutsOK, SessionOK, ArmsNow
<1>7. j.todo # <<>>
  <2>1. job[t].todo[Len(job[t].todo)].op # "configure" /\ Len(job[t].todo) \in Nat /\ Len(job[t].todo) > 0
    BY <1>3, TailParts DEF Arming
  <2>2. Len(job[t].todo) # 1
    BY <1>1, <1>3, <2>1
  <2>3. Len(Tail(job[t].todo)) = Len(job[t].todo) - 1
    BY <1>3, TailParts
  <2>4. Len(Tail(job[t].todo)) # 0
    BY <2>1, <2>2, <2>3
  <2>5. Len(<<>>) = 0
    OBVIOUS
  <2> QED
    BY <1>4, <2>4, <2>5
<1> HIDE DEF j, s
<1>8. ASSUME Armers(j) PROVE Ordered(j) /\ ArmedTo(j, core', regs', seen', ticks')
  <2>1. Ordered(job[t]) /\ ArmedTo(job[t], core, regs, seen, ticks)
    BY <1>1, <1>3, <1>4, <1>8 DEF CutsOK, OwnOK, OwnCall, Armers
  <2>2. Ordered(j) /\ j.todo[1].op = "arm" /\ j.todo[1].m = s.m /\ s.params = j.plan[s.m]
    <3>1. /\ Ordered(j)
          /\ job[t].todo[1].op = "configure" => /\ j.todo[1].op = "arm" /\ j.todo[1].m = job[t].todo[1].m
                                                /\ job[t].todo[1].params = job[t].plan[job[t].todo[1].m]
      BY <1>3, <1>4, <1>7, <2>1, OrderedTail
    <3> QED
      BY <1>1, <1>3, <1>4, <3>1
  <2>3. s.m \in Members
    BY <1>1, <1>3 DEF StepOK
  <2>4. regs'[s.m] = j.plan[s.m]
    BY <1>1, <1>2, <2>2, <2>3 DEF TypeOK
  <2>5. \A i \in Members : ticks[i] = <<>> /\ (M(i).crossed /\ i >= s.m => ~seen[i])
    <3> SUFFICES ASSUME NEW i \in Members PROVE ticks[i] = <<>> /\ (M(i).crossed /\ i >= s.m => ~seen[i])
      OBVIOUS
    <3>1. ticks[i] = <<>> /\ (M(i).crossed => seen[i] = Ready(core[i])) /\ seen[i] \in BOOLEAN
      BY <1>1, <1>2 DEF Settled, TypeOK
    <3>2. i >= s.m => core[i].mode = "idle"
      <4>1. i \in Int /\ s.m \in Int
        BY <1>2, <2>3, MembersOK
      <4> QED
        BY <1>3, <2>1, <4>1 DEF ArmedTo
    <3>3. i >= s.m => ~Ready(core[i])
      BY <3>2 DEF Ready
    <3> QED
      BY <3>1, <3>3
  <2>6. ArmedTo(j, core', regs', seen', ticks')
    BY <1>1, <1>3, <1>4, <2>1, <2>2, <2>4, <2>5 DEF ArmedTo
  <2> QED
    BY <2>2, <2>6
<1>9. OwnNext(j)
  <2>1. ~Waiters(j)
    <3>1. 1 \in DOMAIN j.todo /\ \A l \in DOMAIN j.todo : l + 1 \in DOMAIN job[t].todo /\ j.todo[l] = job[t].todo[l + 1]
      <4>1. Len(j.todo) > 0 /\ DOMAIN j.todo = 1..Len(j.todo) /\ Len(j.todo) \in Nat
        BY <1>3, <1>4, <1>7, TailParts
      <4>2. /\ DOMAIN j.todo = 1..Len(job[t].todo)-1 /\ DOMAIN job[t].todo = 1..Len(job[t].todo)
            /\ Len(job[t].todo) \in Nat
            /\ \A l \in 1..Len(job[t].todo)-1 : j.todo[l] = job[t].todo[l + 1]
        BY <1>3, <1>4, TailParts
      <4> QED
        BY <4>1, <4>2
    <3> QED
      BY <1>3, <3>1 DEF Arming, Only, Waiters
  <2> QED
    BY <1>4, <1>5, <1>8, <2>1 DEF OwnNext, Tellers
<1> QED
  BY <1>1, <1>5, <1>6, <1>9, SpoilsCuts

(* A member at rest, armed.                                                *)
LEMMA ArmRun ==
  ASSUME NEW i, NEW c, CoreOK(i, c), c.mode = "idle"
  PROVE  Arm(i, c).mode = "armed" /\ Arm(i, c).window = 0 /\ Arm(i, c).run = regs[i]
<1>1. Arm(i, c) = [c EXCEPT !.mode = "armed", !.full = FALSE, !.run = regs[i], !.window = 0, !.shot = None,
                 !.triggered = FALSE, !.end = IF M(i).rle THEN 1 ELSE @,
                 !.kept = IF M(i).rle THEN [@ EXCEPT ![1].shot = None] ELSE Opened(@, 0, regs[i].count)]
  BY DEF Arm
<1> QED
  BY <1>1 DEF CoreOK

(* The last member armed: a capture begins, none of its fires taken yet.   *)
LEMMA ArmedAll ==
  ASSUME CutsOK, NEW j, ArmedTo(j, core, regs, seen, ticks), j.todo[1].op = "arm",
         j.todo[1].m = Len(use.members), core' = [core EXCEPT ![j.todo[1].m] = Arm(j.todo[1].m, core[j.todo[1].m])],
         ticks' = ticks, armed'.plan = j.plan
  PROVE  Session(<<>>, core', ticks', fires', armed')
<1> DEFINE m == j.todo[1].m
<1>1. m \in Members /\ Members = 1..m /\ m \in Nat /\ DOMAIN core = Members
  <2>1. use \in Uses /\ DOMAIN core = Members
    BY DEF CutsOK, LinesOK, TypeOK
  <2>2. Members = 1..m /\ m \in Nat /\ m > 0
    BY <2>1, MembersOK
  <2> HIDE DEF m
  <2>3. m \in Members
    BY <2>2
  <2> QED
    BY <2>1, <2>2, <2>3
<1>2. /\ \A i \in Members : IF i < m THEN core[i].mode = "armed" /\ core[i].window = 0 /\ core[i].run = j.plan[i]
                            ELSE core[i].mode = "idle"
      /\ regs[m] = j.plan[m] /\ \A i \in Members : ticks[i] = <<>>
  BY DEF ArmedTo
<1>3. CoreOK(m, core[m]) /\ core[m].mode = "idle"
  BY <1>1, <1>2, CoreIs
<1>4. ASSUME NEW i \in Members PROVE core'[i].mode = "armed" /\ core'[i].window = 0 /\ core'[i].run = j.plan[i]
  <2>1. CASE i = m
    BY <1>1, <1>2, <1>3, <2>1, ArmRun
  <2>2. CASE i # m
    <3>1. i < m
      BY <1>1, <2>2
    <3> QED
      BY <1>1, <1>2, <2>2, <3>1
  <2> QED
    BY <2>1, <2>2
<1>5. Len(<<>>) = 0 /\ DOMAIN <<>> = {} /\ <<>> \in Seq(Nat)
  OBVIOUS
<1>6. Fires(<<>>, fires')
  BY <1>5 DEF Fires
<1>7. ASSUME NEW i \in Members PROVE Cut(i, core'[i], ticks'[i], <<>>)
  <2>1. Armed(core'[i], ticks'[i], <<>>)
    BY <1>2, <1>4, <1>5 DEF Armed
  <2>2. 1..core'[i].window = {}
    BY <1>4
  <2> QED
    BY <2>1, <2>2 DEF Cut
<1> QED
  BY <1>4, <1>6, <1>7 DEF Session

(* Nobody arms beside a call that is alone.                                *)
LEMMA AloneArms ==
  ASSUME CutsOK, NEW t \in Tasks, Busy(t), job[t].alone
  PROVE  \A u \in Tasks \ {t} : ~ArmsNow(u)
<1> SUFFICES ASSUME NEW u \in Tasks \ {t}, ArmsNow(u) PROVE FALSE
  OBVIOUS
<1>1. Quiet(job[u].call) /\ Busy(u)
  BY DEF CutsOK, TellOK, CompanyOK, ArmsNow
<1>2. Only(job[u], {"poll"})
  BY <1>1 DEF CutsOK, TellOK, PollsOK, Polling
<1>3. 1 \in DOMAIN job[u].todo
  BY <1>1, HeadStep DEF CutsOK, TellOK, TasksOK
<1> QED
  BY <1>2, <1>3 DEF Only, ArmsNow

LEMMA ArmCuts ==
  ASSUME CutsOK, NEW t \in Tasks, ArmMember(t)
  PROVE  SessionOK' /\ OwnOK'
<1> DEFINE j == Advanced(t)
           s == Head(job[t].todo)
           k == [j EXCEPT !.todo = All("status")]
<1>1. /\ Busy(t) /\ s.op = "arm" /\ use' = use /\ seen' = seen /\ ticks' = ticks /\ regs' = regs
      /\ core' = [core EXCEPT ![s.m] = Arm(s.m, core[s.m])]
  BY DEF ArmMember, Now
<1>2. IF j.todo = <<>>
      THEN /\ armed' = Remember(j) /\ orderly' = (j.alone /\ j.fresh)
           /\ IF j.call.op = "capture" THEN Goes(t, k) ELSE Ends(t, j, "done", j.plan)
      ELSE /\ orderly' = orderly
           /\ IF Head(j.todo).op = "raise" THEN Ends(t, j, "raised", j.plan) ELSE Goes(t, j)
  BY Zenon DEF ArmMember
<1>3. TasksOK /\ use \in Uses /\ TypeOK
  BY Typed DEF CutsOK, TasksOK
<1>4. /\ IsSequence(job[t].todo) /\ s = job[t].todo[1] /\ job[t].todo # <<>> /\ StepOK(s) /\ Arming(job[t])
  BY <1>1, <1>3, HeadStep, Phase DEF TasksOK
<1>5. /\ j.todo = Tail(job[t].todo) /\ j.call = job[t].call /\ j.open = job[t].open /\ j.plan = job[t].plan
      /\ j.got = job[t].got /\ j.alone = job[t].alone /\ j.whole = job[t].whole /\ j.fresh = job[t].fresh
      /\ DOMAIN j = CallFields
  BY <1>1, <1>3, AdvancedParts, AdvancedKeeps
<1>6. ~job[t].whole /\ ~Quiet(j.call) /\ StaysCompany(t, j.call, j)
  BY <1>1, <1>4, <1>5, NotWhole, NotQuiet, CompanyOf DEF CutsOK, Arming
<1>7. ~orderly
  BY <1>1, <1>4 DEF CutsOK, SessionOK, ArmsNow
<1>8. s.m \in Members /\ DOMAIN core = Members
  BY <1>1, <1>3, <1>4 DEF StepOK, TypeOK
<1> HIDE DEF j, s
<1>9. /\ k.call = j.call /\ k.alone = j.alone /\ k.whole = j.whole /\ k.fresh = j.fresh /\ k.got = j.got
      /\ k.todo = All("status")
  BY <1>5 DEF CallFields
<1>10. ASSUME j.alone, j.fresh
       PROVE  Ordered(job[t]) /\ ArmedTo(job[t], core, regs, seen, ticks)
  BY <1>1, <1>4, <1>5, <1>10 DEF CutsOK, OwnOK, OwnCall, Armers
<1>11. CASE j.todo # <<>> /\ Head(j.todo).op = "raise"
  <2>1. Ends(t, j, "raised", j.plan) /\ ~orderly'
    BY <1>2, <1>7, <1>11
  <2> QED
    BY <1>1, <1>5, <1>6, <2>1, SpoilsEnds
<1>12. CASE j.todo # <<>> /\ Head(j.todo).op # "raise"
  <2>1. Goes(t, j) /\ ~orderly'
    BY <1>2, <1>7, <1>12
  <2>2. Head(j.todo) = j.todo[1] /\ 1 \in DOMAIN j.todo /\ 1 + 1 \in DOMAIN job[t].todo /\ j.todo[1] = job[t].todo[1 + 1]
    <3>1. /\ DOMAIN j.todo = 1..Len(job[t].todo)-1 /\ DOMAIN job[t].todo = 1..Len(job[t].todo)
          /\ Len(job[t].todo) \in Nat /\ IsSequence(j.todo)
          /\ \A l \in 1..Len(job[t].todo)-1 : j.todo[l] = job[t].todo[l + 1]
      BY <1>4, <1>5, TailParts
    <3>2. Head(j.todo) = j.todo[1] /\ Len(j.todo) > 0 /\ DOMAIN j.todo = 1..Len(j.todo) /\ Len(j.todo) \in Nat
      BY <1>12, <3>1, TailParts
    <3> QED
      BY <3>1, <3>2
  <2>3. ~Waiters(j)
    BY <1>4, <2>2 DEF Arming, Only, Waiters
  <2>4. ASSUME Armers(j) PROVE Ordered(j) /\ ArmedTo(j, core', regs', seen', ticks')
    <3>1. j.alone /\ j.fresh
      BY <2>4 DEF Armers
    <3>2. Ordered(job[t]) /\ ArmedTo(job[t], core, regs, seen, ticks)
      BY <1>10, <3>1
    <3>3. /\ Ordered(j)
          /\ job[t].todo[1].op = "arm" /\ j.todo[1].op # "raise" =>
               j.todo[1].op = "configure" /\ j.todo[1].m = job[t].todo[1].m + 1
      BY <1>4, <1>5, <1>12, <3>2, OrderedTail
    <3>4. Ordered(j) /\ j.todo[1].op = "configure" /\ j.todo[1].m = s.m + 1
      BY <1>1, <1>4, <1>12, <2>2, <3>3
    <3>5. /\ \A i \in Members : IF i < s.m THEN core[i].mode = "armed" /\ core[i].window = 0 /\ core[i].run = j.plan[i]
                                ELSE core[i].mode = "idle"
          /\ regs[s.m] = j.plan[s.m]
          /\ \A i \in Members : ticks[i] = <<>> /\ (M(i).crossed /\ i >= s.m => ~seen[i])
      BY <1>1, <1>4, <1>5, <3>2 DEF ArmedTo
    <3>6. Members = 1..Len(use.members) /\ Len(use.members) \in Nat
      BY <1>3, MembersOK
    <3>7. CoreOK(s.m, core[s.m]) /\ core[s.m].mode = "idle"
      BY <1>8, <3>5, <3>6, CoreIs
    <3>8. core'[s.m].mode = "armed" /\ core'[s.m].window = 0 /\ core'[s.m].run = j.plan[s.m]
      BY <1>1, <1>8, <3>5, <3>7, ArmRun
    <3>9. \A i \in Members \ {s.m} : core'[i] = core[i]
      BY <1>1, <1>8
    <3>10. \A i \in Members : /\ i < s.m + 1 => i < s.m \/ i = s.m
                              /\ ~(i < s.m + 1) => ~(i < s.m) /\ i # s.m
                              /\ i >= s.m + 1 => i >= s.m
      BY <1>8, <3>6
    <3>11. \A i \in Members : IF i < s.m + 1 THEN core'[i].mode = "armed" /\ core'[i].window = 0 /\ core'[i].run = j.plan[i]
                              ELSE core'[i].mode = "idle"
      BY <3>5, <3>8, <3>9, <3>10
    <3>12. \A i \in Members : ticks'[i] = <<>> /\ (M(i).crossed /\ i >= s.m + 1 => ~seen'[i])
      BY <1>1, <3>5, <3>10
    <3>13. ArmedTo(j, core', regs', seen', ticks')
      BY <3>4, <3>11, <3>12 DEF ArmedTo
    <3> QED
      BY <3>4, <3>13
  <2>5. OwnNext(j)
    BY <1>5, <1>6, <2>3, <2>4 DEF OwnNext, Tellers
  <2> QED
    BY <1>1, <1>6, <2>1, <2>5, SpoilsCuts
<1>13. CASE j.todo = <<>>
  <2>1. /\ armed' = Remember(j) /\ orderly' = (j.alone /\ j.fresh)
        /\ (j.call.op = "capture" /\ Goes(t, k)) \/ Ends(t, j, "done", j.plan)
    BY <1>2, <1>13
  <2>2. s.m \in Nat /\ 1 \in DOMAIN job[t].todo /\ 1 + 1 \notin DOMAIN job[t].todo
    <3>1. /\ Len(j.todo) = Len(job[t].todo) - 1 /\ DOMAIN job[t].todo = 1..Len(job[t].todo)
          /\ Len(job[t].todo) \in Nat /\ Len(job[t].todo) > 0
      BY <1>4, <1>5, TailParts, Zenon
    <3>2. Len(j.todo) = 0
      BY <1>13
    <3> QED
      BY <1>3, <1>8, <3>1, <3>2, MembersOK
  <2>3. ASSUME j.alone, j.fresh
        PROVE  /\ Session(<<>>, core', ticks', fires', armed') /\ job[t].got = <<>>
               /\ \A u \in Tasks \ {t} : ~ArmsNow(u)
    <3>1. Ordered(job[t]) /\ ArmedTo(job[t], core, regs, seen, ticks)
      BY <1>10, <2>3
    <3>2. job[t].todo[1].m = Len(use.members) /\ job[t].got = <<>>
      BY <1>1, <1>4, <2>2, <3>1 DEF Ordered
    <3>3. armed'.plan = job[t].plan
      BY <1>5, <2>1 DEF Remember
    <3>4. Session(<<>>, core', ticks', fires', armed')
      BY <1>1, <1>4, <3>1, <3>2, <3>3, ArmedAll
    <3>5. \A u \in Tasks \ {t} : ~ArmsNow(u)
      BY <1>1, <1>5, <2>3, AloneArms
    <3> QED
      BY <3>2, <3>4, <3>5
  <2> DEFINE l == IF j.call.op = "capture" /\ Goes(t, k) THEN k ELSE Idle
  <2>4. /\ job' = [Jobs(t, j.call) EXCEPT ![t] = l]
        /\ l.todo # <<>> => l = k
    BY <1>9, <2>1 DEF Goes, Ends, Idle
  <2>5. /\ IsSequence(All("status")) /\ Len(All("status")) = Len(use.members)
        /\ DOMAIN All("status") = 1..Len(use.members) /\ 1 \in DOMAIN All("status")
        /\ \A i \in DOMAIN All("status") : All("status")[i].op = "status" /\ All("status")[i].m = i
    <3>1. 1 \in 1..Len(use.members)
      BY <1>3, MembersOK
    <3> QED
      BY <1>3, <3>1, AllParts
  <2> HIDE DEF k, l
  <2>6. StaysCompany(t, j.call, l)
    <3>1. ASSUME l.todo # <<>>, l.alone PROVE \A u \in Tasks \ {t} : Busy(u) => Quiet(job[u].call)
      <4>1. job[t].alone
        BY <1>5, <1>9, <2>4, <3>1
      <4> QED
        BY <1>1, <4>1 DEF CutsOK, TellOK, CompanyOK
    <3>2. l.todo # <<>> => l.call = j.call
      BY <1>9, <2>4
    <3> QED
      BY <1>5, <3>1, <3>2 DEF StaysCompany
  <2>7. k.todo[1].op = "status"
    BY <1>9, <2>5
  <2>8. OwnNext(k)
    <3>1. ASSUME Waiters(k) PROVE orderly' /\ Waited(k, core')
      <4>1. j.alone /\ j.fresh /\ k.got = <<>>
        BY <1>5, <1>9, <2>3, <3>1 DEF Waiters
      <4>2. Len(<<>>) = 0 /\ DOMAIN <<>> = {} /\ <<>> \in Seq({})
        OBVIOUS
      <4>3. IsSequence(<<>>)
        BY <4>2, SequenceOver, Zenon
      <4>4. Len(k.got) = 0 /\ DOMAIN k.got = {} /\ IsSequence(k.got) /\ k.todo = All("status")
        BY <1>9, <4>1, <4>2, <4>3, Zenon
      <4>5. Len(use.members) \in Nat
        BY <1>3, MembersOK
      <4>6. \A i \in DOMAIN k.todo : k.todo[i].m = 0 + i
        BY <2>5, <4>4, <4>5
      <4>7. Len(k.got) + Len(k.todo) = Len(use.members)
        BY <2>5, <4>4, <4>5
      <4>8. Waited(k, core')
        BY <4>4, <4>6, <4>7 DEF Waited
      <4> QED
        BY <2>1, <4>1, <4>8
    <3> QED
      BY <1>5, <1>6, <1>9, <2>7, <3>1 DEF OwnNext, Armers, Tellers
  <2>9. OwnOK'
    BY <1>1, <1>6, <2>4, <2>6, <2>8, OwnGoes
  <2>10. SessionOK'
    <3> SUFFICES ASSUME orderly' PROVE (\E F : Session(F, core, ticks, fires, armed)') /\ \A u \in Tasks : ~ArmsNow(u)'
      BY DEF SessionOK
    <3>1. /\ Session(<<>>, core', ticks', fires', armed') /\ \A u \in Tasks \ {t} : ~ArmsNow(u)
      BY <2>1, <2>3
    <3>2. Session(<<>>, core, ticks, fires, armed)'
      BY <1>1, <3>1, SessionNext
    <3>3. \A u \in Tasks : ~ArmsNow(u)'
      BY <2>4, <2>6, <2>7, <3>1, OthersArm
    <3> QED
      BY <3>2, <3>3
  <2> QED
    BY <2>9, <2>10
<1> QED
  BY <1>11, <1>12, <1>13

(* A capture that waits looks at the next member.                          *)
LEMMA StatusCuts ==
  ASSUME CutsOK, NEW t \in Tasks, ReadStatus(t)
  PROVE  SessionOK' /\ OwnOK'
<1> DEFINE m == Head(job[t].todo).m
           c == core[m]
           e == [state |-> c.mode, triggered |-> c.triggered]
           j == [Advanced(t) EXCEPT !.got = Append(Advanced(t).got, e)]
           states == {j.got[l].state : l \in DOMAIN j.got}
           whole == \A l \in DOMAIN j.got : j.got[l].triggered
           k == [j EXCEPT !.whole = whole]
           again == [j EXCEPT !.got = <<>>, !.tries = j.tries - 1,
                              !.todo = IF j.tries > 1 THEN All("status") ELSE All("abort")]
           n == Len(use.members)
           d == Len(job[t].todo)
<1>1. Busy(t) /\ Head(job[t].todo).op = "status" /\ use' = use /\ Seen /\ fires' = fires
  BY Zenon DEF ReadStatus, Now, Seen
<1>2. \/ j.todo # <<>> /\ Goes(t, j)
      \/ j.todo = <<>> /\ Compose(states) = "idle" /\ Goes(t, Reading(k, armed.plan))
      \/ j.todo = <<>> /\ Goes(t, again)
  BY Zenon DEF ReadStatus
<1>3. TasksOK /\ use \in Uses /\ TypeOK
  BY Typed DEF CutsOK, TasksOK
<1>4. /\ DOMAIN job[t] = CallFields /\ DOMAIN Advanced(t) = CallFields
      /\ Advanced(t).call = job[t].call /\ Advanced(t).open = job[t].open /\ Advanced(t).got = job[t].got
      /\ Advanced(t).todo = Tail(job[t].todo) /\ Advanced(t).alone = job[t].alone
      /\ Advanced(t).whole = job[t].whole /\ Advanced(t).fresh = job[t].fresh
  BY <1>1, <1>3, AdvancedParts, AdvancedKeeps
<1>5. /\ IsSequence(Tail(job[t].todo)) /\ Len(Tail(job[t].todo)) = d - 1
      /\ DOMAIN Tail(job[t].todo) = 1..d-1 /\ DOMAIN job[t].todo = 1..d
      /\ d \in Nat /\ d > 0 /\ Head(job[t].todo) = job[t].todo[1]
      /\ \A l \in 1..d-1 : Tail(job[t].todo)[l] = job[t].todo[l + 1]
  BY <1>1, <1>3, AdvancedParts
<1>6. /\ job[t].open = <<>> /\ Only(job[t], {"status"}) /\ job[t].call.op = "capture" /\ ~Quiet(job[t].call)
      /\ ~job[t].whole
  BY <1>1, <1>3, Phase, NotQuiet, NotWhole DEF CutsOK
<1>7. n \in Nat /\ n > 0 /\ Members = 1..n
  BY <1>3, MembersOK
<1>8. m \in Members /\ CoreOK(m, c) /\ c.mode \in {"idle", "armed", "capturing"}
  <2>1. m \in Members
    BY <1>1, <1>3, HeadStep DEF TasksOK, StepOK
  <2>2. CoreOK(m, c)
    BY <2>1, CoreIs
  <2> QED
    BY <2>1, <2>2 DEF CoreOK
<1>9. e.state = c.mode
  OBVIOUS
<1> HIDE DEF e
<1>10. /\ DOMAIN j = CallFields /\ j.call = job[t].call /\ j.open = <<>> /\ j.got = Append(job[t].got, e)
       /\ j.todo = Tail(job[t].todo) /\ j.alone = job[t].alone /\ j.whole = job[t].whole /\ j.fresh = job[t].fresh
  BY <1>4, <1>6 DEF CallFields
<1> HIDE DEF j, whole
<1>11. /\ DOMAIN k = CallFields /\ k.call = j.call /\ k.alone = j.alone /\ k.fresh = j.fresh
       /\ again.call = j.call /\ again.alone = j.alone /\ again.open = j.open /\ again.whole = j.whole
       /\ again.fresh = j.fresh /\ again.got = <<>>
       /\ again.todo = All("status") \/ again.todo = All("abort")
  BY <1>10 DEF CallFields
<1> HIDE DEF k, again, states
<1>12. ASSUME j.alone, j.fresh
       PROVE  /\ orderly /\ IsSequence(j.got) /\ Len(j.got) + Len(j.todo) = n
              /\ DOMAIN j.got = 1..Len(j.got) /\ Len(j.got) \in Nat /\ j.got # <<>>
              /\ \A l \in DOMAIN j.todo : j.todo[l].m = Len(j.got) + l
              /\ \A l \in DOMAIN j.got : j.got[l].state \in DOMAIN Rank /\ (j.got[l].state = "idle" => core[l].mode = "idle")
  <2>1. Waiters(job[t])
    BY <1>1, <1>5, <1>10, <1>12 DEF Waiters
  <2>2. orderly /\ Waited(job[t], core)
    BY <1>1, <2>1 DEF CutsOK, OwnOK, OwnCall
  <2> DEFINE a == Len(job[t].got)
  <2>3. /\ IsSequence(job[t].got) /\ a + d = n
        /\ \A l \in 1..d : job[t].todo[l].m = a + l
        /\ \A l \in DOMAIN job[t].got : /\ job[t].got[l].state \in DOMAIN Rank
                                        /\ job[t].got[l].state = "idle" => core[l].mode = "idle"
    BY <1>5, <2>2 DEF Waited
  <2>4. /\ IsSequence(j.got) /\ Len(j.got) = a + 1 /\ DOMAIN j.got = 1..a+1 /\ j.got # <<>> /\ a \in Nat
        /\ \A l \in 1..a : j.got[l] = job[t].got[l]
        /\ j.got[a + 1] = e
    BY <1>10, <2>3, AppendParts
  <2>5. DOMAIN job[t].got = 1..a
    BY <2>3, SequenceParts
  <2> HIDE DEF a, n, d
  <2>6. m = a + 1
    BY <1>5, <2>3
  <2>7. Len(j.got) + Len(j.todo) = n
    <3>1. Len(j.todo) = d - 1
      BY <1>5, <1>10
    <3> QED
      BY <1>5, <2>3, <2>4, <3>1
  <2>8. \A l \in 1..d-1 : j.todo[l].m = (a + 1) + l
    <3> SUFFICES ASSUME NEW l \in 1..d-1 PROVE j.todo[l].m = (a + 1) + l
      OBVIOUS
    <3>1. l + 1 \in 1..d /\ a + (l + 1) = (a + 1) + l
      BY <1>5, <2>4
    <3>2. j.todo[l] = job[t].todo[l + 1]
      BY <1>5, <1>10
    <3> QED
      BY <2>3, <3>1, <3>2
  <2>9. ASSUME NEW l \in 1..a+1
        PROVE  j.got[l].state \in DOMAIN Rank /\ (j.got[l].state = "idle" => core[l].mode = "idle")
    <3>1. CASE l \in 1..a
      BY <2>3, <2>4, <2>5, <3>1
    <3>2. CASE l = a + 1
      <4>1. j.got[l].state = c.mode /\ c = core[l]
        BY <1>9, <2>4, <2>6, <3>2
      <4>2. DOMAIN Rank = {"idle", "armed", "capturing", "reading"}
        BY DEF Rank
      <4> QED
        BY <1>8, <4>1, <4>2
    <3>3. l \in 1..a \/ l = a + 1
      BY <2>4
    <3> QED
      BY <3>1, <3>2, <3>3
  <2>10. DOMAIN j.got = 1..Len(j.got) /\ Len(j.got) \in Nat
    BY <2>4
  <2>11. \A l \in DOMAIN j.todo : j.todo[l].m = Len(j.got) + l
    BY <1>5, <1>10, <2>4, <2>8
  <2>12. \A l \in DOMAIN j.got : j.got[l].state \in DOMAIN Rank /\ (j.got[l].state = "idle" => core[l].mode = "idle")
    BY <2>4, <2>9
  <2> QED
    BY <2>2, <2>4, <2>7, <2>10, <2>11, <2>12
<1>13. CASE j.todo # <<>> /\ Goes(t, j)
  <2>1. job' = [Jobs(t, j.call) EXCEPT ![t] = j] /\ StaysCompany(t, j.call, j)
    BY <1>1, <1>10, <1>13, CompanyOf DEF Goes, CutsOK
  <2>2. j.todo[1].op = "status"
    <3>1. Len(j.todo) > 0 /\ Len(j.todo) \in Nat
      BY <1>5, <1>10, <1>13, SequenceParts
    <3>2. 1 \in 1..d-1 /\ 1 + 1 \in 1..d
      BY <1>5, <1>10, <3>1
    <3> QED
      BY <1>5, <1>6, <1>10, <3>2 DEF Only
  <2>3. OwnCall(j)
    BY <1>6, <1>10, <1>12, <2>2 DEF OwnCall, Armers, Waiters, Tellers, Waited
  <2> QED
    BY <1>1, <2>1, <2>2, <2>3, OwnStep
<1>14. CASE j.todo = <<>> /\ Compose(states) = "idle" /\ Goes(t, Reading(k, armed.plan))
  <2> DEFINE r == Reading(k, armed.plan)
  <2>1. /\ r.call = k.call /\ r.alone = k.alone /\ r.whole = k.whole /\ r.fresh = k.fresh
        /\ r.open # <<>> /\ r.plan = armed.plan /\ r.got = <<>> /\ Aligned(r) /\ r.todo[1].op = "size"
    BY <1>3, <1>11, ReadingParts
  <2>2. Goes(t, r)
    BY <1>14
  <2> HIDE DEF r
  <2>3. job' = [Jobs(t, r.call) EXCEPT ![t] = r] /\ StaysCompany(t, r.call, r)
    BY <1>1, <1>10, <1>11, <2>1, <2>2, CompanyOf DEF Goes, CutsOK
  <2>4. ASSUME j.alone, j.fresh PROVE orderly /\ Telling(r, core, armed)
    <3>1. /\ orderly /\ Len(j.got) + Len(j.todo) = n
          /\ DOMAIN j.got = 1..Len(j.got) /\ Len(j.got) \in Nat /\ j.got # <<>>
          /\ \A l \in DOMAIN j.got : j.got[l].state \in DOMAIN Rank /\ (j.got[l].state = "idle" => core[l].mode = "idle")
      BY <1>12, <2>4
    <3>2. DOMAIN j.got = Members
      <4>1. Len(j.todo) = 0
        BY <1>14
      <4> QED
        BY <1>7, <3>1, <4>1
    <3>3. states # {} /\ states \subseteq DOMAIN Rank
      <4>1. 1 \in DOMAIN j.got
        BY <1>7, <3>2
      <4>2. j.got[1].state \in states
        BY <4>1 DEF states
      <4> HIDE DEF n
      <4>3. states \subseteq DOMAIN Rank
        BY <3>1 DEF states
      <4> QED
        BY <4>2, <4>3
    <3>4. \A s \in states : s = "idle"
      BY <1>14, <3>3, ComposedIdle
    <3>5. \A i \in Members : core[i].mode = "idle"
      BY <3>1, <3>2, <3>4 DEF states
    <3>6. DOMAIN r.got = {}
      BY <2>1
    <3> QED
      BY <2>1, <3>1, <3>5, <3>6 DEF Telling
  <2>5. OwnCall(r)
    BY <1>6, <1>10, <1>11, <2>1, <2>4 DEF OwnCall, Armers, Waiters, Tellers
  <2> QED
    BY <1>1, <2>1, <2>3, <2>5, OwnStep
<1>15. CASE j.todo = <<>> /\ Goes(t, again)
  <2>1. job' = [Jobs(t, again.call) EXCEPT ![t] = again] /\ StaysCompany(t, again.call, again)
    BY <1>1, <1>10, <1>11, <1>15, CompanyOf DEF Goes, CutsOK
  <2>2. /\ again.todo[1].op \in {"status", "abort"} /\ Len(again.todo) = n
        /\ \A l \in DOMAIN again.todo : again.todo[l].m = l /\ l \in Nat
    <3>1. 1 \in 1..n
      BY <1>7
    <3>2. \A op : /\ Len(All(op)) = n /\ DOMAIN All(op) = 1..n
                  /\ \A l \in 1..n : All(op)[l].op = op /\ All(op)[l].m = l
      BY <1>3, AllParts
    <3>3. \A l \in 1..n : l \in Nat
      BY <1>7
    <3> HIDE DEF n
    <3> QED
      BY <1>11, <3>1, <3>2, <3>3
  <2>3. ASSUME again.alone, again.fresh PROVE orderly /\ Waited(again, core)
    <3>1. orderly
      BY <1>11, <1>12, <2>3
    <3>2. <<>> \in Seq({}) /\ Len(<<>>) = 0 /\ DOMAIN <<>> = {}
      OBVIOUS
    <3>3. IsSequence(<<>>)
      BY <3>2, SequenceOver, Zenon
    <3>4. Len(again.got) = 0 /\ DOMAIN again.got = {} /\ IsSequence(again.got)
      BY <1>11, <3>2, <3>3, Zenon
    <3>5. Len(again.got) + Len(again.todo) = Len(use.members)
      BY <1>7, <2>2, <3>4
    <3>6. \A l \in DOMAIN again.todo : again.todo[l].m = Len(again.got) + l
      BY <2>2, <3>4
    <3> QED
      BY <3>1, <3>4, <3>5, <3>6 DEF Waited
  <2>4. OwnCall(again)
    BY <1>6, <1>10, <1>11, <2>2, <2>3 DEF OwnCall, Armers, Waiters, Tellers
  <2> QED
    BY <1>1, <2>1, <2>2, <2>4, OwnStep
<1> QED
  BY <1>2, <1>13, <1>14, <1>15

(* An abort, one member on.                                                *)
LEMMA AbortCuts ==
  ASSUME CutsOK, NEW t \in Tasks, AbortMember(t)
  PROVE  SessionOK' /\ OwnOK'
<1> DEFINE j == Advanced(t)
<1>1. Busy(t) /\ Head(job[t].todo).op = "abort" /\ use' = use /\ ~orderly'
  BY Zenon DEF AbortMember, Now
<1>2. \/ j.todo # <<>> /\ Goes(t, j)
      \/ Goes(t, Reading(j, armed.plan))
      \/ Ends(t, j, "done", None)
  BY Zenon DEF AbortMember
<1>3. TasksOK /\ use \in Uses
  BY Typed DEF CutsOK
<1>4. /\ DOMAIN j = CallFields /\ j.call = job[t].call /\ j.open = job[t].open
      /\ j.todo = Tail(job[t].todo) /\ j.alone = job[t].alone /\ j.whole = job[t].whole
  BY <1>1, <1>3, AdvancedParts, AdvancedKeeps
<1>5. job[t].open = <<>> /\ Only(job[t], {"abort"}) /\ ~Quiet(job[t].call) /\ ~job[t].whole
  BY <1>1, <1>3, Phase, NotQuiet, NotWhole DEF CutsOK
<1>6. j.todo # <<>> => j.todo[1].op = "abort"
  <2> SUFFICES ASSUME j.todo # <<>> PROVE j.todo[1].op = "abort"
    OBVIOUS
  <2>1. /\ IsSequence(Tail(job[t].todo)) /\ DOMAIN Tail(job[t].todo) = 1..Len(job[t].todo)-1
        /\ DOMAIN job[t].todo = 1..Len(job[t].todo) /\ Len(job[t].todo) \in Nat
        /\ \A l \in 1..Len(job[t].todo)-1 : Tail(job[t].todo)[l] = job[t].todo[l + 1]
    BY <1>1, <1>3, AdvancedParts
  <2>2. Len(j.todo) > 0 /\ Len(j.todo) \in Nat /\ DOMAIN j.todo = 1..Len(j.todo)
    BY <1>4, <2>1, SequenceParts
  <2>3. 1 \in DOMAIN j.todo
    BY <2>2
  <2>4. 1 + 1 \in DOMAIN job[t].todo /\ j.todo[1] = job[t].todo[1 + 1]
    BY <1>4, <2>1, <2>3
  <2> QED
    BY <1>5, <2>4 DEF Only
<1> HIDE DEF j
<1>7. CASE j.todo # <<>> /\ Goes(t, j)
  <2>1. StaysCompany(t, j.call, j)
    BY <1>1, <1>4, CompanyOf DEF CutsOK
  <2>2. OwnNext(j)
    BY <1>4, <1>5, <1>6, <1>7, PlainCall
  <2> QED
    BY <1>1, <1>4, <1>5, <1>7, <2>1, <2>2, SpoilsCuts
<1>8. CASE Goes(t, Reading(j, armed.plan))
  <2> DEFINE r == Reading(j, armed.plan)
  <2>1. r.call = j.call /\ r.alone = j.alone /\ r.whole = j.whole /\ r.todo[1].op = "size"
    BY <1>3, <1>4, ReadingParts
  <2>2. Goes(t, r)
    BY <1>8
  <2> HIDE DEF r
  <2>3. StaysCompany(t, r.call, r)
    BY <1>1, <1>4, <2>1, CompanyOf DEF CutsOK
  <2>4. OwnNext(r)
    BY <1>4, <1>5, <2>1, PlainCall
  <2> QED
    BY <1>1, <1>4, <1>5, <2>1, <2>2, <2>3, <2>4, SpoilsCuts
<1>9. CASE Ends(t, j, "done", None)
  BY <1>1, <1>4, <1>5, <1>9, SpoilsEnds
<1> QED
  BY <1>2, <1>7, <1>8, <1>9

(* A readback, one step on.                                                *)
LEMMA AlignedTail ==
  ASSUME use \in Uses, NEW j, IsSequence(j.todo), j.todo # <<>>, Aligned(j), j.todo[1].op # "heads",
         NEW k, k.todo = Tail(j.todo), IsSequence(k.got), Len(k.got) = Len(j.got)
  PROVE  Aligned(k)
<1> DEFINE a == Len(j.got)
           b == Len(j.todo)
           n == Len(use.members)
           h == (b + a) - n
           g == (Len(k.todo) + Len(k.got)) - n
<1>1. n \in Nat
  BY MembersOK
<1>2. /\ IsSequence(k.todo) /\ Len(k.todo) = b - 1 /\ DOMAIN k.todo = 1..b-1 /\ DOMAIN j.todo = 1..b
      /\ b \in Nat /\ b > 0 /\ \A l \in 1..b-1 : k.todo[l] = j.todo[l + 1]
  BY TailParts
<1>3. IsSequence(j.got) /\ h \in 0..b
  BY DEF Aligned
<1>4. a \in Nat
  BY <1>3, SequenceParts
<1>5. \A l \in 1..b : /\ (j.todo[l].op = "heads" <=> l > h) /\ (j.todo[l].op = "burst" => j.todo[l].m = a)
                      /\ (l > h => j.todo[l].m = (l - h) + a)
  <2>1. \A l \in DOMAIN j.todo : /\ j.todo[l].op = "heads" <=> l > h
                                 /\ j.todo[l].op = "burst" => j.todo[l].m = Len(j.got)
    BY DEF Aligned
  <2>2. \A l \in DOMAIN j.todo : l > h => j.todo[l].m = (l - h) + Len(j.got)
    BY DEF Aligned
  <2> HIDE DEF h, b
  <2> QED
    BY <1>2, <2>1, <2>2
<1>6. Len(k.todo) = b - 1 /\ Len(k.got) = a
  BY <1>2
<1>7. g = h - 1
  <2> HIDE DEF a, b, n
  <2> QED
    BY <1>1, <1>2, <1>4, <1>6
<1> HIDE DEF a, b, n, h, g
<1>8. h \in Nat /\ h > 0
  <2>1. 1 \in 1..b
    BY <1>2
  <2>2. ~(1 > h)
    BY <1>5, <2>1
  <2> QED
    BY <1>2, <1>3, <2>2
<1>9. g \in 0..Len(k.todo)
  BY <1>2, <1>3, <1>7, <1>8
<1>10. ASSUME NEW l \in 1..b-1
       PROVE  /\ (k.todo[l].op = "heads" <=> l > g) /\ (k.todo[l].op = "burst" => k.todo[l].m = a)
              /\ (l > g => k.todo[l].m = (l - g) + a)
  <2> DEFINE u == l + 1
  <2>1. /\ u \in 1..b /\ k.todo[l] = j.todo[u] /\ (u > h <=> l > g)
        /\ (u - h) + a = (l - g) + a
    BY <1>2, <1>4, <1>7, <1>8
  <2> HIDE DEF u
  <2> QED
    BY <1>5, <2>1
<1> QED
  BY <1>2, <1>6, <1>9, <1>10 DEF Aligned, g, n

LEMMA AlignedHeads ==
  ASSUME use \in Uses, NEW j, IsSequence(j.todo), j.todo # <<>>, Aligned(j), j.todo[1].op = "heads",
         NEW c \in Nat, NEW k, IsSequence(k.got), Len(k.got) = Len(j.got) + 1,
         Len(k.todo) = c + (Len(j.todo) - 1), DOMAIN k.todo = 1..c+(Len(j.todo)-1),
         \A l \in 1..c : k.todo[l].op = "burst" /\ k.todo[l].m = j.todo[1].m,
         \A l \in 1..c+(Len(j.todo)-1) : ~(l <= c) => k.todo[l] = j.todo[(l - c) + 1]
  PROVE  Aligned(k) /\ j.todo[1].m = Len(j.got) + 1
<1> DEFINE a == Len(j.got)
           b == Len(j.todo)
           n == Len(use.members)
           h == (b + a) - n
           g == (Len(k.todo) + Len(k.got)) - n
<1>1. n \in Nat
  BY MembersOK
<1>2. DOMAIN j.todo = 1..b /\ b \in Nat /\ b > 0
  BY SequenceParts
<1>3. IsSequence(j.got) /\ h \in 0..b
  BY DEF Aligned
<1>4. a \in Nat
  BY <1>3, SequenceParts
<1>5. \A l \in 1..b : (j.todo[l].op = "heads" <=> l > h) /\ (l > h => j.todo[l].m = (l - h) + a)
  <2>1. \A l \in DOMAIN j.todo : /\ j.todo[l].op = "heads" <=> l > h
                                 /\ j.todo[l].op = "burst" => j.todo[l].m = Len(j.got)
    BY DEF Aligned
  <2>2. \A l \in DOMAIN j.todo : l > h => j.todo[l].m = (l - h) + Len(j.got)
    BY DEF Aligned
  <2> HIDE DEF h, b
  <2> QED
    BY <1>2, <2>1, <2>2
<1>6. Len(k.todo) = c + (b - 1) /\ Len(k.got) = a + 1
  OBVIOUS
<1>7. /\ DOMAIN k.todo = 1..c+(b-1)
      /\ \A l \in 1..c+(b-1) : ~(l <= c) => k.todo[l] = j.todo[(l - c) + 1]
  OBVIOUS
<1> HIDE DEF b
<1>8. h = 0
  <2>1. 1 \in 1..b
    BY <1>2
  <2> HIDE DEF h
  <2>2. 1 > h
    BY <1>5, <2>1
  <2> QED
    BY <1>2, <1>3, <2>2
<1>9. b + a = n
  <2> HIDE DEF a, n
  <2> QED
    BY <1>1, <1>2, <1>4, <1>8
<1>10. g = c
  <2>1. g = ((c + (b - 1)) + (a + 1)) - n
    BY <1>6
  <2> HIDE DEF a, n, g
  <2> QED
    BY <1>1, <1>2, <1>4, <1>9, <2>1
<1> HIDE DEF a, n, h, g
<1>11. j.todo[1].m = a + 1
  <2>1. 1 \in 1..b /\ 1 > h /\ (1 - h) + a = a + 1
    BY <1>2, <1>4, <1>8
  <2> QED
    BY <1>5, <2>1
<1>12. g \in 0..Len(k.todo)
  BY <1>2, <1>6, <1>10
<1>13. ASSUME NEW l \in 1..c+(b-1)
       PROVE  /\ (k.todo[l].op = "heads" <=> l > g) /\ (k.todo[l].op = "burst" => k.todo[l].m = a + 1)
              /\ (l > g => k.todo[l].m = (l - g) + (a + 1))
  <2>1. CASE l <= c
    <3>1. l \in 1..c /\ ~(l > g)
      BY <1>2, <1>10, <2>1
    <3>2. k.todo[l].op = "burst" /\ k.todo[l].m = a + 1
      BY <1>11, <3>1
    <3> QED
      BY <3>1, <3>2
  <2>2. CASE ~(l <= c)
    <3> DEFINE u == (l - c) + 1
    <3>1. u \in 1..b /\ k.todo[l] = j.todo[u] /\ u > h /\ l > g /\ (u - h) + a = (l - g) + (a + 1)
      BY <1>2, <1>4, <1>7, <1>8, <1>10, <2>2
    <3> HIDE DEF u
    <3>2. j.todo[u].op = "heads" /\ j.todo[u].m = (u - h) + a
      BY <1>5, <3>1
    <3> QED
      BY <3>1, <3>2
  <2> QED
    BY <2>1, <2>2
<1> QED
  BY <1>6, <1>7, <1>11, <1>12, <1>13 DEF Aligned, g, n, a

LEMMA SizeCuts ==
  ASSUME CutsOK, NEW t \in Tasks, ReadSize(t)
  PROVE  SessionOK' /\ OwnOK'
<1> DEFINE words == Advanced(t).words + PlannedWords(M(Head(job[t].todo).m), Regions(Head(job[t].todo).m, job[t].plan[Head(job[t].todo).m]))
           j == [Advanced(t) EXCEPT !.words = words]
           i == Inside(j)
<1>1. /\ Busy(t) /\ Head(job[t].todo).op = "size" /\ use' = use /\ Seen /\ fires' = fires /\ Goes(t, i)
  BY Zenon DEF ReadSize, Now, Seen
<1>2. TasksOK /\ use \in Uses
  BY Typed DEF CutsOK
<1>3. /\ DOMAIN Advanced(t) = CallFields /\ Advanced(t).todo = Tail(job[t].todo)
      /\ Advanced(t).call = job[t].call /\ Advanced(t).open = job[t].open /\ Advanced(t).got = job[t].got
      /\ Advanced(t).plan = job[t].plan /\ Advanced(t).alone = job[t].alone
      /\ Advanced(t).whole = job[t].whole /\ Advanced(t).fresh = job[t].fresh
  BY <1>1, <1>2, AdvancedParts, AdvancedKeeps
<1>4. /\ IsSequence(job[t].todo) /\ job[t].todo # <<>> /\ job[t].todo[1].op = "size" /\ Sizing(job[t])
  BY <1>1, <1>2, HeadStep, Phase DEF TasksOK
<1> HIDE DEF words
<1>5. /\ DOMAIN j = CallFields /\ j.todo = Tail(job[t].todo)
      /\ j.call = job[t].call /\ j.open = job[t].open /\ j.got = job[t].got
      /\ j.plan = job[t].plan /\ j.alone = job[t].alone /\ j.whole = job[t].whole /\ j.fresh = job[t].fresh
  BY <1>3 DEF CallFields
<1> HIDE DEF j
<1>6. /\ i.todo = j.todo /\ i.call = j.call /\ i.got = j.got
      /\ i.plan = j.plan /\ i.alone = j.alone /\ i.whole = j.whole /\ i.fresh = j.fresh
      /\ i.open = j.open \/ \E m : i.open = Append(j.open, m)
  BY <1>5 DEF Inside, CallFields
<1> HIDE DEF i
<1>7. i.open # <<>>
  <2>1. IsSequence(GroupOpen) /\ GroupOpen # <<>>
    <3>1. IsSequence(GroupOpen) /\ Len(GroupOpen) > 0
      BY <1>2, GroupOpenParts
    <3> QED
      BY <3>1
  <2>2. j.open = GroupOpen
    BY <1>4, <1>5 DEF Sizing
  <2>3. \A m : Append(GroupOpen, m) # <<>>
    BY <2>1, AppendParts
  <2> QED
    BY <1>6, <2>1, <2>2, <2>3
<1>8. i.todo # <<>> => i.todo[1].op \in {"size", "heads"}
  <2> SUFFICES ASSUME i.todo # <<>> PROVE i.todo[1].op \in {"size", "heads"}
    OBVIOUS
  <2>1. /\ IsSequence(Tail(job[t].todo)) /\ DOMAIN Tail(job[t].todo) = 1..Len(job[t].todo)-1
        /\ DOMAIN job[t].todo = 1..Len(job[t].todo) /\ Len(job[t].todo) \in Nat
        /\ \A l \in 1..Len(job[t].todo)-1 : Tail(job[t].todo)[l] = job[t].todo[l + 1]
    BY <1>1, <1>2, AdvancedParts
  <2>2. Len(i.todo) > 0 /\ Len(i.todo) \in Nat /\ DOMAIN i.todo = 1..Len(i.todo)
    BY <1>5, <1>6, <2>1, SequenceParts
  <2>3. 1 \in DOMAIN i.todo
    BY <2>2
  <2>4. 1 + 1 \in DOMAIN job[t].todo /\ i.todo[1] = job[t].todo[1 + 1]
    BY <1>5, <1>6, <2>1, <2>3
  <2> QED
    BY <1>4, <2>4 DEF Sizing, Only
<1>9. ASSUME Tellers(i) PROVE orderly /\ Telling(i, core, armed)
  <2>1. orderly /\ Telling(job[t], core, armed)
    BY <1>1, <1>5, <1>6, <1>9 DEF CutsOK, OwnOK, OwnCall, Tellers
  <2>2. Aligned(job[t]) /\ IsSequence(job[t].got)
    BY <2>1 DEF Telling, Aligned
  <2>3. "size" # "heads"
    OBVIOUS
  <2>4. Aligned(i)
    BY <1>2, <1>4, <1>5, <1>6, <2>2, <2>3, AlignedTail
  <2> QED
    BY <1>5, <1>6, <2>1, <2>4 DEF Telling
<1>10. i.todo # <<>> => OwnCall(i) /\ i.todo[1].op \notin {"configure", "arm"}
  BY <1>7, <1>8, <1>9 DEF OwnCall, Armers, Waiters
<1>11. job' = [Jobs(t, i.call) EXCEPT ![t] = i] /\ StaysCompany(t, i.call, i)
  BY <1>1, <1>5, <1>6, CompanyOf DEF Goes, CutsOK
<1> QED
  BY <1>1, <1>10, <1>11, OwnStep

(* The windows of a member, read again where nothing was written since.    *)
LEMMA ShotsAgain ==
  ASSUME NEW i, NEW p, NEW read, read = ShotsOf(core, i, p)
  PROVE  [w \in DOMAIN read |-> IF Shots(i, p)[w] = read[w] THEN Shots(i, p)[w] ELSE None] = read
<1>1. Shots(i, p) = read
  BY DEF Shots, ShotsOf
<1>2. [w \in DOMAIN read |-> read[w]] = read
  <2>1. CASE M(i).rle
    <3>1. read = <<core[i].kept[1].shot>>
      BY <2>1 DEF ShotsOf
    <3> QED
      BY <3>1
  <2>2. CASE ~M(i).rle
    <3> DEFINE At(w) == LET k == core[i].kept[w]
                        IN IF Slot(k.head, p.count) = k.base /\ p.count = k.count THEN k.shot ELSE None
    <3>1. read = [w \in 1..p.windows |-> At(w)]
      BY <2>2 DEF ShotsOf
    <3> HIDE DEF At
    <3> QED
      BY <3>1
  <2> QED
    BY <2>1, <2>2
<1> QED
  BY <1>1, <1>2

ReadAgain(j, m) ==
  [w \in DOMAIN j.got[Len(j.got)].shots |->
     IF Shots(m, j.plan[m])[w] = j.got[Len(j.got)].shots[w] THEN Shots(m, j.plan[m])[w] ELSE None]
LEMMA GotAgain ==
  ASSUME NEW j, Telling(j, core, armed), j.got # <<>>, NEW m, m = Len(j.got), NEW k, k.plan = j.plan, k.todo = j.todo,
         k.got = [j.got EXCEPT ![Len(j.got)].shots = ReadAgain(j, m)]
  PROVE  /\ Telling(k, core, armed) /\ Len(k.got) = Len(j.got)
         /\ \A l \in DOMAIN k.got : k.got[l].shots = ShotsOf(core, l, j.plan[l])
<1> DEFINE a == Len(j.got)
<1>1. /\ IsSequence(j.got) /\ \A l \in DOMAIN j.got : /\ "shots" \in DOMAIN j.got[l]
                                                      /\ j.got[l].shots = ShotsOf(core, l, j.plan[l])
  BY Zenon DEF Telling, Aligned
<1>2. a \in Nat /\ DOMAIN j.got = 1..a /\ a > 0
  BY <1>1, SequenceParts
<1> DEFINE read == j.got[a].shots
<1>3. a \in DOMAIN j.got /\ read = ShotsOf(core, m, j.plan[m])
  BY <1>1, <1>2
<1>4. [w \in DOMAIN read |-> IF Shots(m, j.plan[m])[w] = read[w] THEN Shots(m, j.plan[m])[w] ELSE None] = read
  <2> HIDE DEF read
  <2> QED
    BY <1>3, ShotsAgain
<1>5. k.got = [j.got EXCEPT ![a].shots = read]
  <2>1. k.got = [j.got EXCEPT ![a].shots =
                   [w \in DOMAIN read |-> IF Shots(m, j.plan[m])[w] = read[w] THEN Shots(m, j.plan[m])[w] ELSE None]]
    BY DEF ReadAgain
  <2> HIDE DEF read, a
  <2> QED
    BY <1>4, <2>1
<1> HIDE DEF a
<1>6. DOMAIN k.got = 1..a /\ \A l \in 1..a : "shots" \in DOMAIN k.got[l] /\ k.got[l].shots = j.got[l].shots
  <2>1. DOMAIN k.got = 1..a /\ \A l \in 1..a : l # a => k.got[l] = j.got[l]
    BY <1>2, <1>5
  <2>2. k.got[a] = [j.got[a] EXCEPT !.shots = read]
    BY <1>3, <1>5
  <2>3. "shots" \in DOMAIN j.got[a]
    BY <1>1, <1>3
  <2>4. DOMAIN k.got[a] = DOMAIN j.got[a] /\ k.got[a].shots = read
    <3> DEFINE e == j.got[a]
    <3>1. k.got[a] = [e EXCEPT !.shots = read] /\ "shots" \in DOMAIN e
      BY <2>2, <2>3
    <3> HIDE DEF e, read
    <3>2. DOMAIN k.got[a] = DOMAIN e /\ k.got[a].shots = read
      BY <3>1
    <3> QED
      BY <3>2 DEF e
  <2> QED
    BY <1>1, <1>2, <2>1, <2>3, <2>4
<1>7. IsSequence(k.got) /\ Len(k.got) = a
  <2> DEFINE E == {k.got[l] : l \in 1..a}
  <2>1. k.got \in [1..a -> E]
    BY <1>2, <1>5
  <2> HIDE DEF E
  <2> QED
    BY <1>2, <2>1, FunctionIsSequence
<1>8. \A l \in DOMAIN k.got : "shots" \in DOMAIN k.got[l] /\ k.got[l].shots = ShotsOf(core, l, j.plan[l])
  BY <1>1, <1>2, <1>6
<1>9. Aligned(k)
  <2>1. Aligned(j) /\ Len(k.got) = Len(j.got)
    BY <1>7 DEF Telling, a
  <2> QED
    BY <1>7, <2>1 DEF Aligned
<1> QED
  BY <1>7, <1>8, <1>9 DEF Telling, a

(* The windows of an orderly capture whose cores all rest: a raw slot that *)
(* was written at its base is found there again.                           *)
LEMMA SlotFound ==
  ASSUME NEW w \in Nat, NEW count \in Nat \ {0}, NEW rest \in 0..count-1
  PROVE  Slot(w * count + rest, count) = w * count
<1> DEFINE head == w * count + rest
           q == head \div count
<1>1. w * count \in Nat /\ w * count = count * w
  BY SMTT(30)
<1>2. q \in Int /\ count * q <= head /\ head < (count * q) + count
  <2>1. head \in Int
    BY <1>1
  <2> HIDE DEF head
  <2> QED
    BY <2>1, Division
<1>3. head = count * w + rest
  BY <1>1
<1> HIDE DEF q, head
<1>4. q = w
  <2>1. CASE q < w
    <3>1. w - q \in Nat /\ (w - q) - 1 \in Nat
      BY <1>2, <2>1
    <3> DEFINE d == (w - q) - 1
    <3>2. w = (q + d) + 1 /\ d \in Nat
      BY <1>2, <3>1
    <3> HIDE DEF d
    <3>3. count * w = ((count * q) + (count * d)) + count /\ count * d \in Nat /\ count * q \in Int
      BY <1>2, <3>2, SMTT(30)
    <3> QED
      BY <1>2, <1>3, <3>3
  <2>2. CASE w < q
    <3> DEFINE d == (q - w) - 1
    <3>1. q = (w + d) + 1 /\ d \in Nat
      BY <1>2, <2>2
    <3> HIDE DEF d
    <3>2. count * q = ((count * w) + (count * d)) + count /\ count * d \in Nat /\ count * w \in Int
      BY <1>2, <3>1, SMTT(30)
    <3> QED
      BY <1>2, <1>3, <3>2
  <2> QED
    BY <1>2, <2>1, <2>2
<1>5. Slot(head, count) = q * count
  BY DEF Slot, q
<1> QED
  BY <1>4, <1>5 DEF head

LEMMA SameShots ==
  ASSUME CutsOK, NEW F, Session(F, core, ticks, fires, armed), NEW i \in Members, core[i].mode = "idle"
  PROVE  ShotsOf(core, i, armed.plan[i]) = F /\ Len(F) \in Nat \ {0}
<1>1. /\ CoreOK(i, core[i]) /\ MemberOK(M(i)) /\ M(i).rle \in BOOLEAN
  BY CoreIs
<1>2. core[i].run = armed.plan[i] /\ Cut(i, core[i], ticks[i], F) /\ Fires(F, fires)
  BY DEF Session
<1>3. /\ core[i].window = Len(F) /\ Planning(i, core[i]) = Len(F)
      /\ \A w \in 1..core[i].window : Holds(i, core[i], w, F[w], F[w])
  BY <1>2 DEF Cut, Armed, Coming, Capturing, Rested
<1>4. F \in Seq(Nat) /\ \A w \in DOMAIN F : F[w] \in 1..fires
  BY <1>2 DEF Fires
<1>5. CASE M(i).rle
  <2>1. Len(F) = 1
    BY <1>3, <1>5 DEF Planning
  <2>2. core[i].kept[1].shot = F[1]
    BY <1>3, <1>5, <2>1 DEF Holds
  <2>3. F = <<F[1]>>
    BY <1>4, <2>1
  <2> QED
    BY <1>5, <2>1, <2>2, <2>3 DEF ShotsOf
<1>6. CASE ~M(i).rle
  <2> DEFINE p == armed.plan[i]
             At(w) == LET k == core[i].kept[w]
                      IN IF Slot(k.head, p.count) = k.base /\ p.count = k.count THEN k.shot ELSE None
  <2>1. /\ p = core[i].run /\ p.windows = Len(F) /\ p.count \in Nat \ {0} /\ Len(F) \in Nat \ {0}
    BY <1>1, <1>2, <1>3, <1>6 DEF Planning, CoreOK, RunOK
  <2>2. ShotsOf(core, i, p) = [w \in 1..p.windows |-> At(w)]
    BY <1>6 DEF ShotsOf
  <2>3. ASSUME NEW w \in 1..Len(F) PROVE At(w) = F[w]
    <3> DEFINE base == (w - 1) * p.count
               rest == F[w] % p.count
               k == core[i].kept[w]
    <3>1. k = [base |-> base, count |-> p.count, head |-> base + rest, shot |-> F[w]]
      BY <1>3, <1>6, <2>1 DEF Holds
    <3>2. rest \in 0..p.count-1
      <4>1. F[w] \in Nat
        BY <1>4
      <4> HIDE DEF p
      <4> QED
        BY <2>1, <4>1
    <3>3. w - 1 \in Nat
      BY <2>1
    <3>4. Slot(base + rest, p.count) = base
      <4> HIDE DEF rest, p
      <4> QED
        BY <2>1, <3>2, <3>3, SlotFound
    <3>5. k.base = base /\ k.count = p.count /\ k.head = base + rest /\ k.shot = F[w]
      <4> HIDE DEF base, rest, k, p
      <4> QED
        BY <3>1
    <3> HIDE DEF base, rest, p
    <3> QED
      BY <3>4, <3>5
  <2>4. F = [w \in 1..Len(F) |-> F[w]]
    BY <1>4
  <2> HIDE DEF At, p
  <2>5. [w \in 1..p.windows |-> At(w)] = [w \in 1..Len(F) |-> F[w]]
    BY <2>1, <2>3
  <2> QED
    BY <2>1, <2>2, <2>4, <2>5 DEF p
<1> QED
  BY <1>1, <1>5, <1>6

(* A call that goes on shows nothing, and one that does not end, or is not *)
(* whole, promises nothing.                                                *)
LEMMA GoesShows ==
  ASSUME outcome' = None
  PROVE  CaptureIsOwn'
BY DEF CaptureIsOwn, ReadDone, Ended

LEMMA EndsShows ==
  ASSUME NEW t, NEW j, NEW end, NEW value, Ends(t, j, end, value),
         end # "done" \/ ~j.whole \/ j.call.op \notin {"read", "capture"}
  PROVE  CaptureIsOwn'
<1>1. outcome' = Ending(j, end, value)
  BY DEF Ends
<1>2. outcome'.end = end /\ outcome'.whole = j.whole /\ outcome'.call = j.call
  BY <1>1 DEF Ending
<1> QED
  BY <1>2 DEF CaptureIsOwn, ReadDone, Ended

(* The last member is read: the members show the fires of the capture.     *)
LEMMA ShownOnce ==
  ASSUME CutsOK, use' = use, orderly, NEW j, Telling(j, core, armed), j.todo = <<>>,
         outcome'.value.members = j.got,
         \A k \in DOMAIN j.got : j.got[k].shots = ShotsOf(core, k, j.plan[k])
  PROVE  CaptureIsOwn'
<1>1. PICK F : Session(F, core, ticks, fires, armed)
  BY DEF CutsOK, SessionOK
<1>2. use \in Uses
  BY Typed DEF CutsOK, TellOK
<1>3. Members = 1..Len(use.members) /\ Len(use.members) \in Nat /\ Len(use.members) > 0 /\ Members' = Members
  BY <1>2, MembersOK DEF Members
<1>4. Aligned(j) /\ j.plan = armed.plan /\ \A i \in Members : core[i].mode = "idle"
  BY DEF Telling
<1>5. DOMAIN j.got = Members
  <2>1. (Len(j.todo) + Len(j.got)) - Len(use.members) \in 0..Len(j.todo) /\ IsSequence(j.got)
    BY <1>4 DEF Aligned
  <2>2. Len(j.todo) = 0
    OBVIOUS
  <2>3. Len(j.got) \in Nat /\ DOMAIN j.got = 1..Len(j.got)
    BY <2>1, SequenceParts
  <2>4. (0 + Len(j.got)) - Len(use.members) \in 0..0
    BY <2>1, <2>2
  <2>5. Len(j.got) = Len(use.members)
    BY <1>3, <2>3, <2>4
  <2> QED
    BY <1>3, <2>3, <2>5
<1>6. \A k \in Members : outcome'.value.members[k].shots = F
  <2> SUFFICES ASSUME NEW k \in Members PROVE outcome'.value.members[k].shots = F
    OBVIOUS
  <2>1. ShotsOf(core, k, armed.plan[k]) = F
    BY <1>1, <1>4, SameShots
  <2> QED
    BY <1>4, <1>5, <2>1
<1> DEFINE all == {outcome.value.members[k].shots : k \in Members}
<1>7. all' = {F}
  BY <1>3, <1>6
<1>8. Cardinality({F}) = 1
  BY FS_Singleton
<1>9. F \in Seq(Nat) /\ \A w \in DOMAIN F : w > 1 => F[w - 1] < F[w]
  BY <1>1 DEF Session, Fires
<1>10. \A w \in DOMAIN F : F[w] # None
  BY <1>9, GroupAssumption
<1> HIDE DEF all
<1>11. Cardinality(all') = 1
  BY <1>7, <1>8
<1>12. \A shots \in all' : \A w \in DOMAIN shots : shots[w] # None /\ (w > 1 => shots[w - 1] < shots[w])
  BY <1>7, <1>9, <1>10
<1> QED
  BY <1>11, <1>12 DEF CaptureIsOwn, all

(* The readback of a member is over.                                       *)
LEMMA DoneCuts ==
  ASSUME CutsOK, use' = use, Seen, fires' = fires, NEW t \in Tasks, Busy(t), NEW j, NEW m, NEW fs,
         DOMAIN j = CallFields, j.call = job[t].call, j.alone = job[t].alone, MemberDone(t, j, m, fs),
         j.todo # <<>> => j.todo[1].op = "heads" /\ IsSequence(j.todo) /\ IsSequence(Front(j.open)),
         Tellers(j) => orderly /\ Telling(j, core, armed) /\ j.got # <<>> /\ m = Len(j.got)
  PROVE  SessionOK' /\ OwnOK' /\ CaptureIsOwn'
<1> DEFINE k == [j EXCEPT !.open = Front(j.open), !.got[Len(j.got)].shots = ReadAgain(j, m)]
           i == Inside(k)
<1>1. \/ j.todo # <<>> /\ Goes(t, i)
      \/ j.todo = <<>> /\ \E value : Ends(t, k, "done", value) /\ value.members = k.got
  <2>1. CASE j.todo # <<>>
    BY <2>1, Zenon DEF MemberDone, ReadAgain
  <2>2. CASE j.todo = <<>>
    <3> DEFINE value == [members |-> k.got, planned |-> fs[0].total,
                         counted |-> \A x \in Members : ~Overrun(x),
                         moved |-> FoldLeft(+, 0, [x \in Members |-> fs[x].done])]
    <3>1. Ends(t, k, "done", value)
      BY <2>2, Zenon DEF MemberDone, ReadAgain
    <3>2. value.members = k.got
      <4> HIDE DEF k
      <4> QED
        OBVIOUS
    <3> HIDE DEF value, k
    <3> QED
      BY <2>2, <3>1, <3>2
  <2> QED
    BY <2>1, <2>2
<1>2. /\ DOMAIN k = CallFields /\ k.todo = j.todo /\ k.call = j.call /\ k.alone = j.alone /\ k.whole = j.whole
      /\ k.fresh = j.fresh /\ k.plan = j.plan /\ k.open = Front(j.open)
      /\ k.got = [j.got EXCEPT ![Len(j.got)].shots = ReadAgain(j, m)]
  BY DEF CallFields
<1>3. Tellers(k) => Tellers(j)
  BY <1>2 DEF Tellers
<1>4. Tellers(k) => orderly /\ Telling(k, core, armed)
  <2> SUFFICES ASSUME Tellers(k) PROVE orderly /\ Telling(k, core, armed)
    OBVIOUS
  <2>1. orderly /\ Telling(j, core, armed) /\ j.got # <<>> /\ m = Len(j.got)
    BY <1>3
  <2>2. k.plan = j.plan /\ k.todo = j.todo
    BY <1>2
  <2>3. k.got = [j.got EXCEPT ![Len(j.got)].shots = ReadAgain(j, m)]
    BY <1>2
  <2> HIDE DEF k
  <2>4. Telling(k, core, armed)
    BY <2>1, <2>2, <2>3, GotAgain
  <2> QED
    BY <2>1, <2>4
<1> HIDE DEF k
<1>5. CASE j.todo # <<>> /\ Goes(t, i)
  <2>1. k.todo[1].op = "heads" /\ Head(k.todo) = k.todo[1]
    BY <1>2, <1>5, TailParts
  <2>2. i = [k EXCEPT !.open = Append(k.open, Head(k.todo).m)]
    BY <2>1 DEF Inside
  <2>3. Append(k.open, Head(k.todo).m) # <<>>
    BY <1>2, <1>5, AppendParts
  <2>4. /\ i.todo = k.todo /\ i.call = k.call /\ i.alone = k.alone /\ i.whole = k.whole
        /\ i.fresh = k.fresh /\ i.plan = k.plan /\ i.open # <<>> /\ i.got = k.got
    BY <1>2, <2>2, <2>3 DEF CallFields
  <2> HIDE DEF i
  <2>5. Tellers(i) => orderly /\ Telling(i, core, armed)
    <3> SUFFICES ASSUME Tellers(i) PROVE orderly /\ Telling(i, core, armed)
      OBVIOUS
    <3>1. orderly /\ Telling(k, core, armed)
      BY <1>4, <2>4 DEF Tellers
    <3>2. Aligned(i)
      <4>1. Aligned(k)
        BY <3>1 DEF Telling
      <4> QED
        BY <2>4, <4>1, Zenon DEF Aligned
    <3> QED
      BY <2>4, <3>1, <3>2 DEF Telling
  <2>6. OwnCall(i) /\ i.todo[1].op \notin {"configure", "arm"}
    BY <2>1, <2>4, <2>5 DEF OwnCall, Armers, Waiters
  <2>7. job' = [Jobs(t, i.call) EXCEPT ![t] = i] /\ StaysCompany(t, i.call, i)
    BY <1>2, <1>5, <2>4, CompanyOf DEF Goes, CutsOK
  <2>8. CaptureIsOwn'
    BY <1>5, GoesShows DEF Goes
  <2> QED
    BY <2>6, <2>7, <2>8, OwnStep
<1>6. CASE j.todo = <<>> /\ \E value : Ends(t, k, "done", value) /\ value.members = k.got
  <2>1. PICK value : Ends(t, k, "done", value) /\ value.members = k.got
    BY <1>6
  <2>2. SessionOK' /\ OwnOK'
    BY <1>2, <2>1, EndsCuts
  <2>3. outcome' = Ending(k, "done", value)
    BY <2>1 DEF Ends
  <2>4. /\ outcome'.value.members = k.got /\ outcome'.call = k.call /\ outcome'.alone = k.alone
        /\ outcome'.whole = k.whole /\ outcome'.fresh = k.fresh
    BY <2>1, <2>3 DEF Ending
  <2>5. CASE Tellers(k)
    <3>1. orderly /\ Telling(k, core, armed) /\ k.todo = <<>>
      BY <1>2, <1>4, <1>6, <2>5
    <3>2. \A l \in DOMAIN k.got : k.got[l].shots = ShotsOf(core, l, k.plan[l])
      BY <3>1, Zenon DEF Telling
    <3> QED
      BY <2>2, <2>4, <3>1, <3>2, ShownOnce
  <2>6. CASE ~Tellers(k)
    <3>1. CaptureIsOwn'
      BY <2>4, <2>6 DEF CaptureIsOwn, ReadDone, Ended, Tellers
    <3> QED
      BY <2>2, <3>1
  <2> QED
    BY <2>5, <2>6
<1> QED
  BY <1>1, <1>5, <1>6

LEMMA PhaseOpen ==
  ASSUME use \in Uses, NEW j, NEW m \in Members, Transferring(j, m) \/ ReadingOwn(j, m)
  PROVE  /\ j.open # <<>> /\ IsSequence(Front(j.open)) /\ Only(j, {"heads", "burst"})
         /\ \A k \in DOMAIN j.todo : j.todo[k].op = "burst" => j.todo[k].m = m
<1>1. IsSequence(GroupOpen) /\ Append(GroupOpen, m) # <<>> /\ <<m>> # <<>>
  <2>1. IsSequence(GroupOpen)
    BY GroupOpenParts
  <2> QED
    BY <2>1, AppendParts
<1>2. <<>> \in Seq({})
  OBVIOUS
<1>3. IsSequence(<<>>)
  BY <1>2, SequenceOver, Zenon
<1>4. Front(Append(GroupOpen, m)) = GroupOpen /\ Front(<<m>>) = <<>>
  BY FrontParts
<1>5. j.open = Append(GroupOpen, m) \/ j.open = <<m>>
  BY DEF Transferring, ReadingOwn
<1>6. Only(j, {"heads", "burst"}) /\ \A k \in DOMAIN j.todo : j.todo[k].op = "burst" => j.todo[k].m = m
  BY DEF Transferring, ReadingOwn, Only
<1> QED
  BY <1>1, <1>3, <1>4, <1>5, <1>6

(* What a call that tells has read so far.                                 *)
LEMMA ToldSoFar ==
  ASSUME CutsOK, NEW t \in Tasks, Busy(t), Tellers(job[t])
  PROVE  /\ orderly /\ Telling(job[t], core, armed) /\ Aligned(job[t]) /\ IsSequence(job[t].got)
         /\ \A l \in DOMAIN job[t].got : /\ "shots" \in DOMAIN job[t].got[l]
                                         /\ job[t].got[l].shots = ShotsOf(core, l, job[t].plan[l])
<1>1. orderly /\ Telling(job[t], core, armed)
  BY DEF CutsOK, OwnOK, OwnCall
<1> QED
  BY <1>1, Zenon DEF Telling, Aligned

LEMMA BurstCuts ==
  ASSUME CutsOK, NEW t \in Tasks, ReadBurst(t)
  PROVE  SessionOK' /\ OwnOK' /\ CaptureIsOwn'
<1> DEFINE s == Head(job[t].todo)
           j == Advanced(t)
           moved == [fetch EXCEPT ![s.m].done = fetch[s.m].done + s.words]
<1>1. /\ Busy(t) /\ s.op = "burst" /\ use' = use /\ Seen /\ fires' = fires
      /\ \/ (j.todo = <<>> \/ Head(j.todo).op # "burst") /\ MemberDone(t, j, s.m, moved)
         \/ j.todo # <<>> /\ Head(j.todo).op = "burst" /\ Goes(t, j)
  BY DEF ReadBurst, Now, Seen
<1>2. TasksOK /\ use \in Uses
  BY Typed DEF CutsOK
<1>3. /\ DOMAIN j = CallFields /\ j.todo = Tail(job[t].todo)
      /\ j.call = job[t].call /\ j.open = job[t].open /\ j.got = job[t].got
      /\ j.plan = job[t].plan /\ j.alone = job[t].alone /\ j.whole = job[t].whole /\ j.fresh = job[t].fresh
  BY <1>1, <1>2, AdvancedParts, AdvancedKeeps
<1>4. /\ IsSequence(job[t].todo) /\ job[t].todo # <<>> /\ s = job[t].todo[1] /\ 1 \in DOMAIN job[t].todo
      /\ IsSequence(j.todo)
      /\ \A l \in DOMAIN j.todo : l + 1 \in DOMAIN job[t].todo /\ j.todo[l] = job[t].todo[l + 1]
  <2>1. IsSequence(job[t].todo) /\ job[t].todo # <<>>
    BY <1>1, <1>2, HeadStep DEF TasksOK
  <2>2. /\ IsSequence(Tail(job[t].todo)) /\ DOMAIN Tail(job[t].todo) = 1..Len(job[t].todo)-1
        /\ DOMAIN job[t].todo = 1..Len(job[t].todo) /\ Len(job[t].todo) \in Nat /\ Len(job[t].todo) > 0
        /\ Head(job[t].todo) = job[t].todo[1]
        /\ \A l \in 1..Len(job[t].todo)-1 : Tail(job[t].todo)[l] = job[t].todo[l + 1]
    BY <1>1, <1>2, AdvancedParts
  <2> HIDE DEF j
  <2> QED
    BY <1>3, <2>1, <2>2
<1>5. PICK m \in Members : Transferring(job[t], m) \/ ReadingOwn(job[t], m)
  BY <1>1, <1>2, Phase
<1>6. /\ job[t].open # <<>> /\ IsSequence(Front(job[t].open)) /\ Only(job[t], {"heads", "burst"})
  BY <1>2, <1>5, PhaseOpen
<1> HIDE DEF j, s, moved
<1>7. j.todo # <<>> => /\ Head(j.todo) = j.todo[1] /\ j.todo[1].op \in {"heads", "burst"}
  <2> SUFFICES ASSUME j.todo # <<>> PROVE Head(j.todo) = j.todo[1] /\ j.todo[1].op \in {"heads", "burst"}
    OBVIOUS
  <2>1. Head(j.todo) = j.todo[1] /\ Len(j.todo) \in Nat /\ Len(j.todo) > 0 /\ DOMAIN j.todo = 1..Len(j.todo)
    BY <1>4, TailParts
  <2>2. 1 \in DOMAIN j.todo
    BY <2>1
  <2>3. 1 + 1 \in DOMAIN job[t].todo /\ j.todo[1] = job[t].todo[1 + 1]
    BY <1>4, <2>2
  <2> QED
    BY <1>6, <2>1, <2>3 DEF Only
<1>8. ASSUME Tellers(j)
      PROVE  orderly /\ Telling(j, core, armed) /\ j.got # <<>> /\ s.m = Len(j.got)
  <2>1. Tellers(job[t])
    BY <1>3, <1>8 DEF Tellers
  <2>2. /\ orderly /\ Telling(job[t], core, armed) /\ Aligned(job[t]) /\ IsSequence(job[t].got)
    BY <1>1, <2>1, ToldSoFar
  <2>3. s.m = Len(j.got)
    <3>1. \A l \in DOMAIN job[t].todo : job[t].todo[l].op = "burst" => job[t].todo[l].m = Len(job[t].got)
      BY <2>2, Zenon DEF Aligned
    <3> QED
      BY <1>1, <1>3, <1>4, <3>1
  <2>4. j.got # <<>>
    <3>1. s.m \in Members
      BY <1>1, <1>2, HeadStep DEF TasksOK, StepOK, s
    <3>2. s.m > 0
      BY <1>2, <3>1, MembersOK
    <3> QED
      BY <2>3, <3>2
  <2>5. Aligned(j)
    <3>1. job[t].todo[1].op # "heads"
      BY <1>1, <1>4
    <3> QED
      BY <1>2, <1>3, <1>4, <2>2, <3>1, AlignedTail
  <2> QED
    BY <1>3, <2>2, <2>3, <2>4, <2>5 DEF Telling
<1>9. CASE (j.todo = <<>> \/ Head(j.todo).op # "burst") /\ MemberDone(t, j, s.m, moved)
  <2>1. j.todo # <<>> => j.todo[1].op = "heads" /\ IsSequence(j.todo) /\ IsSequence(Front(j.open))
    BY <1>3, <1>4, <1>6, <1>7, <1>9
  <2>2. Tellers(j) => orderly /\ Telling(j, core, armed) /\ j.got # <<>> /\ s.m = Len(j.got)
    BY <1>8
  <2> QED
    BY <1>1, <1>3, <1>9, <2>1, <2>2, DoneCuts
<1>10. CASE j.todo # <<>> /\ Head(j.todo).op = "burst" /\ Goes(t, j)
  <2>1. OwnCall(j) /\ j.todo[1].op \notin {"configure", "arm"}
    BY <1>3, <1>6, <1>7, <1>8, <1>10 DEF OwnCall, Armers, Waiters
  <2>2. job' = [Jobs(t, j.call) EXCEPT ![t] = j] /\ StaysCompany(t, j.call, j)
    BY <1>1, <1>3, <1>10, CompanyOf DEF Goes, CutsOK
  <2>3. CaptureIsOwn'
    BY <1>10, GoesShows DEF Goes
  <2> QED
    BY <1>1, <2>1, <2>2, <2>3, OwnStep
<1> QED
  BY <1>1, <1>9, <1>10

LEMMA HeadsCuts ==
  ASSUME CutsOK, NEW t \in Tasks, ReadHeads(t)
  PROVE  SessionOK' /\ OwnOK' /\ CaptureIsOwn'
<1> DEFINE n == Len(job[t].todo)
<1>0. PICK m \in Members, words \in Nat, b \in Nat : \E j : HeadsRead(t, m, words, b, j)
  BY HeadsStep DEF CutsOK, TellOK
<1>1. PICK j : HeadsRead(t, m, words, b, j)
  BY <1>0
<1> DEFINE expected == Expected(fetch, m, words)
<1>2. /\ Busy(t) /\ Head(job[t].todo).op = "heads" /\ Head(job[t].todo) = job[t].todo[1] /\ job[t].todo[1].m = m
      /\ n \in Nat /\ n > 0 /\ DOMAIN job[t].todo = 1..n
      /\ Transferring(job[t], m) \/ ReadingOwn(job[t], m)
  BY <1>1 DEF HeadsRead
<1>3. use' = use /\ Seen /\ fires' = fires
  BY <1>1 DEF HeadsRead, Seen
<1>4. /\ DOMAIN j = CallFields /\ j.call = job[t].call /\ j.open = job[t].open /\ j.alone = job[t].alone
      /\ j.plan = job[t].plan /\ j.whole = job[t].whole /\ j.fresh = job[t].fresh
      /\ IsSequence(j.todo) /\ Len(j.todo) = b + (n - 1) /\ DOMAIN j.todo = 1..b+(n-1)
      /\ \A k \in 1..b : k \in 1..b+(n-1) /\ j.todo[k].op = "burst" /\ j.todo[k].m = m
      /\ \A k \in 1..b+(n-1) : ~(k <= b) => k - b \in 1..n-1 /\ j.todo[k] = job[t].todo[(k - b) + 1]
  BY <1>1 DEF HeadsRead
<1>5. PICK trace : j.got = Append(job[t].got, [m |-> m, shots |-> Shots(m, job[t].plan[m]), trace |-> trace])
  BY <1>1 DEF HeadsRead
<1>6. \/ b = 0 /\ MemberDone(t, j, m, expected)
      \/ b # 0 /\ Goes(t, j)
  BY <1>1 DEF HeadsRead
<1>7. TasksOK /\ use \in Uses
  BY Typed DEF CutsOK
<1>8. IsSequence(job[t].todo) /\ job[t].todo # <<>>
  BY <1>2, <1>7, HeadStep DEF TasksOK
<1>9. /\ job[t].open # <<>> /\ IsSequence(Front(job[t].open)) /\ Only(job[t], {"heads", "burst"})
      /\ \A k \in DOMAIN job[t].todo : job[t].todo[k].op = "burst" => job[t].todo[k].m = m
  BY <1>2, <1>7, PhaseOpen
<1> HIDE DEF expected
<1>10. ASSUME Tellers(j)
       PROVE  orderly /\ Telling(j, core, armed) /\ j.got # <<>> /\ m = Len(j.got)
  <2> DEFINE e == [m |-> m, shots |-> Shots(m, job[t].plan[m]), trace |-> trace]
             a == Len(job[t].got)
  <2>1. Tellers(job[t])
    BY <1>4, <1>10 DEF Tellers
  <2>2. /\ orderly /\ Telling(job[t], core, armed) /\ Aligned(job[t]) /\ IsSequence(job[t].got)
        /\ \A l \in DOMAIN job[t].got : /\ "shots" \in DOMAIN job[t].got[l]
                                        /\ job[t].got[l].shots = ShotsOf(core, l, job[t].plan[l])
    BY <1>2, <2>1, ToldSoFar
  <2>3. "shots" \in DOMAIN e /\ e.shots = Shots(m, j.plan[m])
    BY <1>4
  <2>4. e.shots = ShotsOf(core, m, j.plan[m])
    <3> HIDE DEF e
    <3> QED
      BY <2>3 DEF Shots, ShotsOf
  <2>5. j.got = Append(job[t].got, e)
    BY <1>5
  <2> HIDE DEF e
  <2>6. /\ IsSequence(j.got) /\ Len(j.got) = a + 1 /\ DOMAIN j.got = 1..a+1 /\ j.got # <<>> /\ a \in Nat
        /\ \A l \in 1..a : j.got[l] = job[t].got[l]
        /\ j.got[a + 1] = e
    BY <2>2, <2>5, AppendParts
  <2>7. Aligned(j) /\ job[t].todo[1].m = a + 1
    <3>1. /\ job[t].todo[1].op = "heads" /\ IsSequence(j.got) /\ Len(j.got) = Len(job[t].got) + 1
      BY <1>2, <2>6
    <3>2. /\ Len(j.todo) = b + (Len(job[t].todo) - 1) /\ DOMAIN j.todo = 1..b+(Len(job[t].todo)-1)
          /\ \A l \in 1..b+(Len(job[t].todo)-1) : ~(l <= b) => j.todo[l] = job[t].todo[(l - b) + 1]
      BY <1>4
    <3>3. \A l \in 1..b : j.todo[l].op = "burst" /\ j.todo[l].m = job[t].todo[1].m
      BY <1>2, <1>4
    <3> HIDE DEF n
    <3>4. Aligned(j) /\ job[t].todo[1].m = Len(job[t].got) + 1
      BY <1>7, <1>8, <2>2, <3>1, <3>2, <3>3, AlignedHeads
    <3> QED
      BY <3>4
  <2>8. DOMAIN job[t].got = 1..a
    BY <2>2, SequenceParts
  <2> HIDE DEF a
  <2>9. m = a + 1
    BY <1>2, <2>7
  <2>10. \A l \in DOMAIN j.got : "shots" \in DOMAIN j.got[l] /\ j.got[l].shots = ShotsOf(core, l, j.plan[l])
    <3> SUFFICES ASSUME NEW l \in 1..a+1
                 PROVE  "shots" \in DOMAIN j.got[l] /\ j.got[l].shots = ShotsOf(core, l, j.plan[l])
      BY <2>6
    <3>1. CASE l \in 1..a
      BY <1>4, <2>2, <2>6, <2>8, <3>1
    <3>2. CASE l = a + 1
      BY <2>3, <2>4, <2>6, <2>9, <3>2
    <3>3. l \in 1..a \/ l = a + 1
      BY <2>6
    <3> QED
      BY <3>1, <3>2, <3>3
  <2>11. (\A i \in Members : core[i].mode = "idle") /\ j.plan = armed.plan
    BY <1>4, <2>2 DEF Telling
  <2>12. Telling(j, core, armed)
    BY <2>7, <2>10, <2>11 DEF Telling
  <2> QED
    BY <2>2, <2>6, <2>9, <2>12
<1>11. CASE b = 0 /\ MemberDone(t, j, m, expected)
  <2>1. ASSUME j.todo # <<>> PROVE j.todo[1].op = "heads"
    <3>1. Len(j.todo) > 0
      BY <1>4, <2>1, SequenceParts
    <3>2. 1 \in 1..b+(n-1) /\ ~(1 <= b) /\ (1 - b) + 1 = 1 + 1 /\ 1 + 1 \in 1..n
      BY <1>2, <1>4, <1>11, <3>1
    <3>3. j.todo[1] = job[t].todo[1 + 1] /\ 1 + 1 \in DOMAIN job[t].todo
      BY <1>2, <1>4, <3>2
    <3>4. job[t].todo[1 + 1].op # "burst"
      <4>1. CASE Transferring(job[t], m)
        <5>1. First(job[t], "burst") /\ 1 \in 1..1+1
          BY <4>1 DEF Transferring
        <5>2. job[t].todo[1].op # "burst"
          BY <1>2
        <5> QED
          BY <3>3, <5>1, <5>2 DEF First
      <4>2. CASE ReadingOwn(job[t], m)
        <5>1. 1 \in DOMAIN job[t].todo /\ job[t].todo[1].op # "burst"
          BY <1>2
        <5>2. Len(job[t].todo) = 1
          BY <4>2, <5>1 DEF ReadingOwn, Only
        <5> QED
          BY <1>2, <3>2, <5>2
      <4> QED
        BY <1>2, <4>1, <4>2
    <3> QED
      BY <1>9, <3>3, <3>4 DEF Only
  <2>2. j.todo # <<>> => j.todo[1].op = "heads" /\ IsSequence(j.todo) /\ IsSequence(Front(j.open))
    BY <1>4, <1>9, <2>1
  <2> QED
    BY <1>2, <1>3, <1>4, <1>10, <1>11, <2>2, DoneCuts
<1>12. CASE b # 0 /\ Goes(t, j)
  <2>1. 1 \in 1..b
    BY <1>12
  <2>2. j.todo[1].op = "burst"
    BY <1>4, <2>1
  <2>3. OwnCall(j) /\ j.todo[1].op \notin {"configure", "arm"}
    BY <1>4, <1>9, <1>10, <2>2 DEF OwnCall, Armers, Waiters
  <2>4. job' = [Jobs(t, j.call) EXCEPT ![t] = j] /\ StaysCompany(t, j.call, j)
    BY <1>2, <1>4, <1>12, CompanyOf DEF Goes, CutsOK
  <2>5. CaptureIsOwn'
    BY <1>12, GoesShows DEF Goes
  <2> QED
    BY <1>3, <2>3, <2>4, <2>5, OwnStep
<1> QED
  BY <1>6, <1>11, <1>12

(* What a read shows is kept by every step.                                *)
LEMMA CutsKept ==
  ASSUME CutsOK, TasksOK', LinesInStep', [Next]_vars
  PROVE  CutsOK'
<1>1. TellOK' /\ LinesOK'
  <2>1. TellOK'
    BY TellKept DEF CutsOK
  <2>2. use' = use
    <3>1. Next => use' = use
      BY TasksKept DEF CutsOK, TellOK
    <3>2. UNCHANGED vars => use' = use
      BY DEF vars
    <3> QED
      BY <3>1, <3>2
  <2>3. use' \in LinesHold
    BY <2>2 DEF CutsOK, LinesOK
  <2> QED
    BY <2>1, <2>3 DEF TellOK, TasksOK, LinesOK
<1>2. CASE Next
  <2>1. CASE Gateware
    BY <1>1, <2>1, GatewareCuts DEF CutsOK
  <2>2. ASSUME NEW t \in Tasks, Client(t) PROVE SessionOK' /\ OwnOK'
    <3>1. ASSUME NEW c \in use.calls[t], Begin(t, c) PROVE SessionOK' /\ OwnOK'
      BY <3>1, BeginCuts
    <3> QED
      BY <2>2, <3>1, ConfigureCuts, ArmCuts, StatusCuts, AbortCuts, MemberPolledCuts, SizeCuts, HeadsCuts,
         BurstCuts, FailCuts, Zenon DEF Client
  <2> QED
    BY <1>1, <1>2, <2>1, <2>2 DEF Next, CutsOK
<1>3. CASE UNCHANGED vars
  <2>1. /\ use' = use /\ core' = core /\ regs' = regs /\ seen' = seen /\ ticks' = ticks /\ fires' = fires
        /\ armed' = armed /\ job' = job /\ orderly' = orderly
    BY <1>3 DEF vars
  <2>2. SessionOK'
    BY <2>1, SessionKept
  <2>3. OwnOK'
    <3> SUFFICES ASSUME NEW u \in Tasks, Busy(u)' PROVE OwnNext(job'[u])
      BY <2>1, OwnThen DEF OwnOK
    <3>1. OwnCall(job[u])
      BY <2>1 DEF CutsOK, OwnOK, Busy
    <3> QED
      BY <2>1, <3>1 DEF OwnCall, OwnNext
  <2> QED
    BY <1>1, <2>2, <2>3 DEF CutsOK
<1> QED
  BY <1>2, <1>3

LEMMA CutsStart ==
  ASSUME Init, TellOK, LinesOK
  PROVE  CutsOK
<1>1. ~orderly /\ \A t \in Tasks : ~Busy(t)
  BY DEF Init, Busy, Idle
<1> QED
  BY <1>1 DEF CutsOK, SessionOK, OwnOK

(* The other steps of a call: what they end was not a read that is whole.  *)
LEMMA PollShows ==
  ASSUME NEW t, NEW k, DOMAIN k = CallFields, ~k.whole, PollGoes(t, k)
  PROVE  CaptureIsOwn'
<1> DEFINE a == Answered(k, fetch)
<1>1. Ends(t, a, "done", Polled(a.got, fetch)) \/ outcome' = None
  BY DEF PollGoes, Goes
<1>2. a.whole = k.whole
  <2>1. \E got, todo : a = [k EXCEPT !.got = got, !.todo = todo]
    BY Zenon DEF Answered
  <2> HIDE DEF a
  <2> QED
    BY <2>1 DEF CallFields
<1> HIDE DEF a
<1> QED
  BY <1>1, <1>2, GoesShows, EndsShows

LEMMA BeginShows ==
  ASSUME NEW t \in Tasks, NEW c \in use.calls[t], Begin(t, c)
  PROVE  CaptureIsOwn'
<1> DEFINE j == [Call(c) EXCEPT !.alone = Alone(t)]
<1>1. BeginArm(t, c, j) \/ BeginAbort(t, c, j) \/ BeginPoll(t, c, j) \/ BeginRead(t, c, j) \/ BeginOwnRead(t, c, j)
  BY Zenon DEF Begin, Alone
<1>2. DOMAIN j = CallFields /\ j.whole = FALSE
  BY DEF Call, CallFields
<1> HIDE DEF j
<1>3. CASE BeginPoll(t, c, j)
  <2> DEFINE k == [j EXCEPT !.todo = All("poll"), !.during = fetch[0].depth > 0]
  <2>1. PollGoes(t, k)
    BY <1>3, Zenon DEF BeginPoll
  <2>2. DOMAIN k = CallFields /\ ~k.whole
    BY <1>2 DEF CallFields
  <2> HIDE DEF k
  <2> QED
    BY <2>1, <2>2, PollShows
<1>4. CASE BeginArm(t, c, j) \/ BeginAbort(t, c, j) \/ BeginRead(t, c, j) \/ BeginOwnRead(t, c, j)
  <2>1. outcome' = None \/ \E end, value : end # "done" /\ Ends(t, j, end, value)
    <3>1. BeginArm(t, c, j) =>
            outcome' = None \/ \E value : Ends(t, j, "refused", value) \/ Ends(t, j, "raised", value)
      BY Zenon DEF BeginArm, Goes
    <3>2. BeginRead(t, c, j) => outcome' = None \/ \E value : Ends(t, j, "refused", value)
      BY Zenon DEF BeginRead, Goes
    <3>3. BeginAbort(t, c, j) \/ BeginOwnRead(t, c, j) => outcome' = None
      BY Zenon DEF BeginAbort, BeginOwnRead, Goes
    <3>4. "refused" # "done" /\ "raised" # "done"
      OBVIOUS
    <3> QED
      BY <1>4, <3>1, <3>2, <3>3, <3>4, Zenon
  <2> QED
    BY <2>1, GoesShows, EndsShows
<1> QED
  BY <1>1, <1>3, <1>4

LEMMA MemberPolledShows ==
  ASSUME CutsOK, NEW t \in Tasks, PollMember(t)
  PROVE  CaptureIsOwn'
<1> DEFINE k == AskedMember(t)
<1>1. Busy(t) /\ Head(job[t].todo).op = "poll" /\ PollGoes(t, k)
  BY Zenon DEF PollMember, Now, AskedMember
<1>2. job[t].open = <<>> /\ TasksOK
  BY <1>1, Phase DEF CutsOK, TellOK
<1>3. DOMAIN Advanced(t) = CallFields /\ Advanced(t).whole = job[t].whole /\ ~job[t].whole
  BY <1>1, <1>2, AdvancedParts, AdvancedKeeps, NotWhole
<1>4. DOMAIN k = CallFields /\ ~k.whole
  BY <1>3 DEF AskedMember, CallFields
<1> HIDE DEF k
<1> QED
  BY <1>1, <1>4, PollShows

LEMMA ArmShows ==
  ASSUME CutsOK, NEW t \in Tasks, ArmMember(t) \/ AbortMember(t)
  PROVE  CaptureIsOwn'
<1> DEFINE j == Advanced(t)
<1>1. /\ Busy(t) /\ Head(job[t].todo).op \in {"arm", "abort"}
      /\ outcome' = None \/ \E end, value : Ends(t, j, end, value)
  <2>1. CASE ArmMember(t)
    <3>1. Busy(t) /\ Head(job[t].todo).op = "arm"
      BY <2>1 DEF ArmMember, Now
    <3>2. outcome' = None \/ \E end, value : Ends(t, j, end, value)
      BY <2>1, Zenon DEF ArmMember, Goes
    <3> QED
      BY <3>1, <3>2
  <2>2. CASE AbortMember(t)
    <3>1. Busy(t) /\ Head(job[t].todo).op = "abort"
      BY <2>2 DEF AbortMember, Now
    <3>2. outcome' = None \/ \E end, value : Ends(t, j, end, value)
      BY <2>2, Zenon DEF AbortMember, Goes
    <3> QED
      BY <3>1, <3>2
  <2> QED
    BY <2>1, <2>2
<1>2. job[t].open = <<>> /\ TasksOK
  BY <1>1, Phase DEF CutsOK, TellOK, Arming
<1>3. ~j.whole
  BY <1>1, <1>2, AdvancedKeeps, NotWhole
<1> HIDE DEF j
<1> QED
  BY <1>1, <1>3, GoesShows, EndsShows

LEMMA OwnShown ==
  ASSUME CutsOK, CaptureIsOwn, [Next]_vars
  PROVE  CaptureIsOwn'
<1>1. CASE Next
  <2>1. CASE Gateware
    BY <2>1, GoesShows DEF Gateware
  <2>2. ASSUME NEW t \in Tasks, Client(t) PROVE CaptureIsOwn'
    <3>1. ASSUME NEW c \in use.calls[t], Begin(t, c) PROVE CaptureIsOwn'
      BY <3>1, BeginShows
    <3>2. ASSUME Configure(t) \/ ReadStatus(t) \/ ReadSize(t) PROVE CaptureIsOwn'
      <4>1. outcome' = None
        BY <3>2, Zenon DEF Configure, ReadStatus, ReadSize, Goes
      <4> QED
        BY <4>1, GoesShows
    <3>3. ASSUME Fail(t) PROVE CaptureIsOwn'
      <4>1. Ends(t, job[t], "failed", None)
        BY <3>3 DEF Fail
      <4> QED
        BY <4>1, EndsShows
    <3> QED
      BY <2>2, <3>1, <3>2, <3>3, ArmShows, MemberPolledShows, HeadsCuts, BurstCuts, Zenon DEF Client
  <2> QED
    BY <1>1, <2>1, <2>2 DEF Next
<1>2. CASE UNCHANGED vars
  <2>1. use' = use /\ outcome' = outcome
    BY <1>2 DEF vars
  <2> QED
    BY <2>1 DEF CaptureIsOwn, ReadDone, Ended, Members
<1> QED
  BY <1>1, <1>2
-----------------------------------------------------------------------------
(* The fires of a session are what any one member says they are.           *)
LEMMA FiresAre ==
  ASSUME CutsOK, NEW F, Session(F, core, ticks, fires, armed), NEW i \in Members
  PROVE  FiresOf(i) = F
<1> DEFINE c == core[i]
           n == Len(F)
           shots == [w \in 1..c.window |-> c.kept[w].shot]
<1>1. /\ F \in Seq(Nat) /\ Cut(i, c, ticks[i], F) /\ c.window \in Nat
  BY CoreIs DEF Session, Fires, CoreOK
<1>2. n \in Nat /\ F \in [1..n -> Nat]
  BY <1>1
<1>3. ASSUME NEW w \in 1..c.window PROVE c.kept[w].shot = F[w]
  <2> DEFINE base == (w - 1) * c.run.count
             head == base + (F[w] % c.run.count)
             count == c.run.count
             kept == c.kept[w]
  <2>1. IF M(i).rle THEN kept.shot = F[w] ELSE kept = [base |-> base, count |-> count, head |-> head, shot |-> F[w]]
    BY <1>1 DEF Cut, Holds
  <2> HIDE DEF base, head, count, kept
  <2>2. kept.shot = F[w]
    BY <2>1
  <2> QED
    BY <2>2 DEF kept
<1>4. shots = [w \in 1..c.window |-> F[w]]
  BY <1>3
<1>5. FiresOf(i) = shots \o (IF c.mode = "capturing" THEN <<c.shot>> ELSE ticks[i])
  BY DEF FiresOf
<1>6. \/ c.mode # "capturing" /\ c.window = n /\ ticks[i] = <<>>
      \/ c.mode # "capturing" /\ c.window = 0 /\ ticks[i] = F
      \/ c.mode = "capturing" /\ c.window + 1 = n /\ c.shot = F[n]
  BY <1>1 DEF Cut, Armed, Coming, Capturing, Rested
<1> HIDE DEF n, c, shots
<1>7. CASE c.mode # "capturing" /\ c.window = n /\ ticks[i] = <<>>
  <2>1. shots = F
    BY <1>2, <1>4, <1>7
  <2> QED
    BY <1>1, <1>5, <1>7, <2>1
<1>8. CASE c.mode # "capturing" /\ c.window = 0 /\ ticks[i] = F
  <2>1. shots = <<>>
    BY <1>4, <1>8
  <2> QED
    BY <1>1, <1>5, <1>8, <2>1
<1>9. CASE c.mode = "capturing" /\ c.window + 1 = n /\ c.shot = F[n]
  <2>1. shots = [w \in 1..n-1 |-> F[w]] /\ FiresOf(i) = shots \o <<F[n]>> /\ n > 0
    BY <1>1, <1>2, <1>4, <1>5, <1>9
  <2>2. shots \in [1..n-1 -> Nat] /\ n - 1 \in Nat /\ F[n] \in Nat /\ <<F[n]>> \in [1..1 -> Nat] /\ 1 \in Nat
    BY <1>2, <2>1
  <2> DEFINE last == <<F[n]>>
  <2>3. IsSequence(shots) /\ Len(shots) = n - 1 /\ IsSequence(last) /\ Len(last) = 1 /\ last[1] = F[n]
    BY <2>2, FunctionIsSequence
  <2> DEFINE all == shots \o last
  <2> HIDE DEF last
  <2>4. /\ IsSequence(all) /\ DOMAIN all = 1..Len(shots)+Len(last)
        /\ \A w \in 1..Len(shots)+Len(last) : all[w] = IF w <= Len(shots) THEN shots[w] ELSE last[w - Len(shots)]
    BY <2>3, JoinParts
  <2> HIDE DEF all
  <2>5. all = [w \in 1..n |-> all[w]] /\ \A w \in 1..n : all[w] = F[w]
    <3>1. 1..Len(shots)+Len(last) = 1..n
      BY <1>2, <2>3
    <3>2. all = [w \in 1..n |-> all[w]]
      <4>1. all \in Seq({all[w] : w \in DOMAIN all})
        BY <2>4 DEF IsSequence
      <4>2. all \in [1..Len(all) -> {all[w] : w \in DOMAIN all}]
        BY <4>1, LenProperties
      <4>3. all = [w \in DOMAIN all |-> all[w]]
        BY <4>2
      <4> QED
        BY <2>4, <3>1, <4>3
    <3>3. ASSUME NEW w \in 1..n PROVE all[w] = F[w]
      <4>1. w <= n - 1 => w \in 1..n-1
        BY <1>2
      <4>2. ~(w <= n - 1) => w = n /\ w - (n - 1) = 1
        BY <1>2
      <4> QED
        BY <2>1, <2>3, <2>4, <3>1, <4>1, <4>2
    <3> QED
      BY <3>2, <3>3
  <2> QED
    BY <1>2, <2>1, <2>5 DEF all, last
<1> QED
  BY <1>6, <1>7, <1>8, <1>9

OwnInv == AccountsOK /\ TellOK /\ (use \in LinesHold => CutsOK /\ CaptureIsOwn)

LEMMA OwnStarts == Init => OwnInv
<1> SUFFICES ASSUME Init PROVE OwnInv
  OBVIOUS
<1>1. AccountsOK
  BY InitHolds
<1>2. TellOK /\ (use \in LinesHold => LinesOK)
  BY <1>1, TellStarts DEF AccountsOK, TasksOK, LinesOK
<1>3. CaptureIsOwn
  BY DEF Init, CaptureIsOwn, ReadDone, Ended
<1> QED
  BY <1>1, <1>2, <1>3, CutsStart DEF OwnInv

LEMMA OwnKept ==
  ASSUME OwnInv, [Next]_vars
  PROVE  OwnInv' /\ use' = use
<1>1. AccountsOK' /\ use' = use
  BY StepHolds DEF OwnInv
<1>2. TasksOK' /\ (use \in LinesHold => LinesInStep')
  BY <1>1 DEF AccountsOK, TasksOK
<1>3. TellOK'
  BY <1>2, TellKept DEF OwnInv
<1>4. use \in LinesHold => CutsOK' /\ CaptureIsOwn'
  BY <1>2, CutsKept, OwnShown DEF OwnInv
<1> QED
  BY <1>1, <1>3, <1>4 DEF OwnInv

(* Whatever clients call of a group, at the same time, whatever fails and  *)
(* whenever its trigger fires: a member counts as fetching exactly while   *)
(* some call reads it, polls of a group being read stay off the link, and  *)
(* the calls are in step with their counters -- la/driver.py's             *)
(* FetchProgress and its finally clauses.  What a poll that is alone has   *)
(* found idle still is, and a readback that is alone has moved no word of  *)
(* a member it has not come to.  Over trigger lines that hold, these are   *)
(* in step with the cores, and every member has the same fires of an       *)
(* orderly capture.                                                        *)
THEOREM ReadsAreAccountedHolds == Spec => []ReadsAreAccounted
<1>1. OwnInv => ReadsAreAccounted
  <2> SUFFICES ASSUME OwnInv PROVE ReadsAreAccounted
    OBVIOUS
  <2>1. CompanyOK /\ PollsOK /\ ReadersOK /\ use \in Uses
    BY Typed DEF OwnInv, TellOK
  <2>2. ASSUME CutsOK, orderly
        PROVE  Session(FiresOf(1), core, ticks, fires, armed) /\ \A t \in Tasks : ~ArmsNow(t)
    <3>1. 1 \in Members
      BY <2>1, MembersOK
    <3>2. (\E F : Session(F, core, ticks, fires, armed)) /\ \A t \in Tasks : ~ArmsNow(t)
      BY <2>2 DEF CutsOK, SessionOK
    <3> QED
      BY <2>2, <3>1, <3>2, FiresAre
  <2>3. ReadsAreInStep
    BY <2>1, <2>2 DEF ReadsAreInStep, OwnInv, CutsOK
  <2> QED
    BY <2>3 DEF ReadsAreAccounted, OwnInv
<1> QED
  BY <1>1, OwnStarts, OwnKept, PTL DEF Spec

(* Whatever order the members of a group are armed in, whatever fires and  *)
(* whenever, and whatever polls come in between: a capture nobody else was *)
(* at shows, of every member, complete windows of the same fires of the    *)
(* trigger, in order -- la/driver.py's capture and read, over groups whose *)
(* trigger lines hold.                                                     *)
THEOREM CaptureIsOwnHolds == Spec /\ use \in LinesHold => []CaptureIsOwn
<1>1. OwnInv /\ use \in LinesHold => CaptureIsOwn
  BY DEF OwnInv
<1>2. (OwnInv /\ use \in LinesHold) /\ [Next]_vars => (OwnInv /\ use \in LinesHold)'
  BY OwnKept
<1> QED
  BY <1>1, <1>2, OwnStarts, PTL DEF Spec
=============================================================================
