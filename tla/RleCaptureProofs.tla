-------------------------- MODULE RleCaptureProofs --------------------------
(***************************************************************************)
(* Theorems about RleCapture.                                              *)
(***************************************************************************)
EXTENDS RleCapture, SequenceTheorems, FiniteSetTheorems, TLAPS

-----------------------------------------------------------------------------
(* Induction over the naturals, by counting.  Were m the number of an      *)
(* instance that fails, the failing ones up to m would map one to one to   *)
(* those below m, their predecessors.                                      *)
LEMMA Induction ==
  ASSUME NEW S, 0 \in S, \A n \in Nat : n \in S => n + 1 \in S
  PROVE  Nat \subseteq S
<1> SUFFICES ASSUME NEW m \in Nat, m \notin S PROVE FALSE
  OBVIOUS
<1> DEFINE T == {k \in 0..m : k \notin S}
           U == T \ {m}
           pred == [k \in T |-> k - 1]
<1>1. IsFiniteSet(T)
  BY FS_Interval, FS_Subset, T \subseteq 0..m, 0 \in Int, m \in Int
<1>2. IsFiniteSet(U) /\ Cardinality(U) < Cardinality(T)
  <2>1. m \in T
    OBVIOUS
  <2>2. Cardinality(T) \in Nat
    BY <1>1, FS_CardinalityType
  <2>3. IsFiniteSet(U) /\ Cardinality(U) = Cardinality(T) - 1
    BY <1>1, <2>1, FS_RemoveElement
  <2> QED
    BY <2>2, <2>3
<1>3. pred \in [T -> U]
  <2> SUFFICES ASSUME NEW k \in T PROVE k - 1 \in U
    OBVIOUS
  <2>1. k # 0 /\ k - 1 \in Nat /\ (k - 1) + 1 = k
    OBVIOUS
  <2>2. k - 1 \notin S
    BY <2>1
  <2> QED
    BY <2>1, <2>2
<1>4. \E x, y \in T : x # y /\ pred[x] = pred[y]
  <2> HIDE DEF T, U, pred
  <2> QED
    BY <1>1, <1>2, <1>3, FS_PigeonHole
<1> QED
  BY <1>4

(* Induction over sequences, by appending.                                 *)
LEMMA SequenceInduction ==
  ASSUME NEW E, NEW G, <<>> \in G,
         \A s \in Seq(E) : \A e \in E : s \in G => Append(s, e) \in G
  PROVE  Seq(E) \subseteq G
<1> DEFINE S == {n \in Nat : \A s \in Seq(E) : Len(s) = n => s \in G}
<1>1. 0 \in S
  <2> SUFFICES ASSUME NEW s \in Seq(E), Len(s) = 0 PROVE s \in G
    OBVIOUS
  <2> QED
    BY EmptySeq
<1>2. ASSUME NEW n \in Nat, n \in S PROVE n + 1 \in S
  <2> SUFFICES ASSUME NEW s \in Seq(E), Len(s) = n + 1 PROVE s \in G
    OBVIOUS
  <2> DEFINE f == SubSeq(s, 1, n)
  <2>1. f \in Seq(E) /\ Len(f) = n /\ s[n + 1] \in E
    OBVIOUS
  <2>2. s = Append(f, s[n + 1])
    OBVIOUS
  <2>3. f \in G
    BY <1>2, <2>1
  <2> HIDE DEF f
  <2> QED
    BY <2>1, <2>2, <2>3
<1>3. Nat \subseteq S
  <2> HIDE DEF S
  <2> QED
    BY <1>1, <1>2, Induction
<1> QED
  BY <1>3
-----------------------------------------------------------------------------
(* The decoder, line by line.                                              *)

(* What it has decoded after each line.                                    *)
Decoding(out, s) ==
  out = [n \in 0..Len(s) |-> IF n = 0 THEN <<>> ELSE DecodeLine(out[n - 1], s[n])]

LEMMA DecodingExists ==
  ASSUME NEW s, Len(s) \in Nat
  PROVE  \E out : Decoding(out, s)
<1> DEFINE P(m, out) == out = [n \in 0..m |-> IF n = 0 THEN <<>> ELSE DecodeLine(out[n - 1], s[n])]
           S == {m \in Nat : \E out : P(m, out)}
<1>1. 0 \in S
  <2> DEFINE out == [n \in 0..0 |-> <<>>]
  <2>1. P(0, out)
    OBVIOUS
  <2> QED
    BY <2>1
<1>2. ASSUME NEW m \in Nat, m \in S PROVE m + 1 \in S
  <2>1. PICK out : P(m, out)
    BY <1>2
  <2> DEFINE more == [n \in 0..m + 1 |-> IF n = m + 1 THEN DecodeLine(out[m], s[m + 1]) ELSE out[n]]
  <2>2. P(m + 1, more)
    <3> SUFFICES ASSUME NEW n \in 0..m + 1
                 PROVE  more[n] = IF n = 0 THEN <<>> ELSE DecodeLine(more[n - 1], s[n])
      OBVIOUS
    <3>1. CASE n = m + 1
      BY <3>1
    <3>2. CASE n \in 0..m
      <4>1. out[n] = IF n = 0 THEN <<>> ELSE DecodeLine(out[n - 1], s[n])
        BY <2>1, <3>2
      <4>2. more[n] = out[n] /\ (n # 0 => more[n - 1] = out[n - 1])
        BY <3>2
      <4> QED
        BY <4>1, <4>2
    <3> QED
      BY <3>1, <3>2
  <2>3. m + 1 \in Nat
    OBVIOUS
  <2> HIDE DEF P, more
  <2> QED
    BY <2>2, <2>3
<1>3. Nat \subseteq S
  <2> HIDE DEF S
  <2> QED
    BY <1>1, <1>2, Induction
<1>4. PICK out : P(Len(s), out)
  BY <1>3
<1> QED
  BY <1>4 DEF Decoding

LEMMA DecodeIsDecoding ==
  ASSUME NEW s, Len(s) \in Nat
  PROVE  \E out : Decoding(out, s) /\ Decode(s) = out[Len(s)]
<1> DEFINE f == CHOOSE out : out = [n \in 0..Len(s) |-> IF n = 0 THEN <<>> ELSE DecodeLine(out[n - 1], s[n])]
<1>1. Decoding(f, s)
  BY DecodingExists DEF Decoding
<1>2. Decode(s) = f[Len(s)]
  BY DEF Decode
<1> QED
  BY <1>1, <1>2

LEMMA DecodeEmpty == Decode(<<>>) = <<>>
<1>1. Len(<<>>) = 0
  OBVIOUS
<1>2. PICK out : Decoding(out, <<>>) /\ Decode(<<>>) = out[0]
  BY <1>1, DecodeIsDecoding
<1> QED
  BY <1>1, <1>2 DEF Decoding

(* A line more.                                                            *)
LEMMA DecodeAppend ==
  ASSUME NEW E, NEW s \in Seq(E), NEW l
  PROVE  Decode(Append(s, l)) = DecodeLine(Decode(s), l)
<1> DEFINE t == Append(s, l)
<1>1. Len(s) \in Nat /\ Len(t) = Len(s) + 1 /\ t[Len(s) + 1] = l
  OBVIOUS
<1>2. \A n \in 1..Len(s) : t[n] = s[n]
  OBVIOUS
<1> HIDE DEF t
<1>3. PICK a : Decoding(a, s) /\ Decode(s) = a[Len(s)]
  BY <1>1, DecodeIsDecoding
<1>4. PICK b : Decoding(b, t) /\ Decode(t) = b[Len(t)]
  BY <1>1, DecodeIsDecoding
<1> DEFINE S == {n \in Nat : n <= Len(s) => a[n] = b[n]}
<1>5. a[0] = <<>> /\ b[0] = <<>>
  BY <1>1, <1>3, <1>4 DEF Decoding
<1>6. ASSUME NEW n \in Nat, n \in S PROVE n + 1 \in S
  <2> SUFFICES ASSUME n + 1 <= Len(s) PROVE a[n + 1] = b[n + 1]
    OBVIOUS
  <2>1. a[n] = b[n] /\ t[n + 1] = s[n + 1]
    BY <1>1, <1>2, <1>6
  <2>2. a[n + 1] = DecodeLine(a[n], s[n + 1])
    BY <1>1, <1>3 DEF Decoding
  <2>3. b[n + 1] = DecodeLine(b[n], t[n + 1])
    BY <1>1, <1>4 DEF Decoding
  <2> QED
    BY <2>1, <2>2, <2>3
<1>7. Nat \subseteq S
  <2>1. 0 \in S
    BY <1>5
  <2> HIDE DEF S
  <2> QED
    BY <1>6, <2>1, Induction
<1>8. a[Len(s)] = b[Len(s)]
  BY <1>1, <1>7
<1>9. b[Len(s) + 1] = DecodeLine(b[Len(s)], t[Len(s) + 1])
  BY <1>1, <1>4 DEF Decoding
<1> QED
  BY <1>1, <1>3, <1>4, <1>8, <1>9 DEF t
-----------------------------------------------------------------------------
(* What lines decode to.                                                   *)

LEMMA EncodedMeans ==
  ASSUME NEW l \in Encoded
  PROVE  \/ /\ ~l.repeat /\ l.value \in Values /\ l = Sample(l.value)
         \/ /\ l.repeat /\ l.count \in 1..CountMax /\ l = Repeat(l.count)
BY DEF Encoded, Sample, Repeat

LEMMA SampleMeans ==
  ASSUME NEW v
  PROVE  ~Sample(v).repeat /\ Sample(v).value = v /\ (v \in Values => Sample(v) \in Encoded)
BY DEF Encoded, Sample

LEMMA RepeatMeans ==
  ASSUME NEW n
  PROVE  Repeat(n).repeat /\ Repeat(n).count = n /\ (n \in 1..CountMax => Repeat(n) \in Encoded)
BY DEF Encoded, Repeat

(* t ends in s.                                                            *)
EndsIn(t, s) ==
  /\ Len(s) <= Len(t)
  /\ \A i \in 1..Len(s) : s[i] = t[Len(t) - Len(s) + i]

LEMMA SuffixMeans ==
  ASSUME NEW E, NEW s \in Seq(E), NEW t \in Seq(E)
  PROVE  IsSuffix(s, t) <=> EndsIn(t, s)
<1> DEFINE r == Reverse(s)
           u == Reverse(t)
<1>1. /\ r \in Seq(E) /\ Len(r) = Len(s)
      /\ \A i \in 1..Len(s) : r[i] = s[Len(s) - i + 1]
  BY DEF Reverse
<1>2. /\ u \in Seq(E) /\ Len(u) = Len(t)
      /\ \A i \in 1..Len(t) : u[i] = t[Len(t) - i + 1]
  BY DEF Reverse
<1>3. IsSuffix(s, t) <=> Len(s) <= Len(t) /\ SubSeq(r, 1, Len(s)) = SubSeq(u, 1, Len(s))
  BY <1>1, <1>2 DEF IsSuffix, IsPrefix
<1> HIDE DEF r, u
<1>4. ASSUME Len(s) <= Len(t)
      PROVE  SubSeq(r, 1, Len(s)) = SubSeq(u, 1, Len(s)) <=> \A i \in 1..Len(s) : r[i] = u[i]
  <2>1. /\ SubSeq(r, 1, Len(s)) = [i \in 1..Len(s) |-> r[i]]
        /\ SubSeq(u, 1, Len(s)) = [i \in 1..Len(s) |-> u[i]]
    BY <1>1, <1>2, <1>4
  <2> QED
    BY <2>1
<1>5. ASSUME Len(s) <= Len(t), NEW i \in 1..Len(s)
      PROVE  /\ Len(s) - i + 1 \in 1..Len(s)
             /\ r[Len(s) - i + 1] = s[i] /\ u[Len(s) - i + 1] = t[Len(t) - Len(s) + i]
             /\ r[i] = s[Len(s) - i + 1]
             /\ u[i] = t[Len(t) - Len(s) + (Len(s) - i + 1)]
  <2>1. Len(s) \in Nat /\ Len(t) \in Nat
    OBVIOUS
  <2> DEFINE j == Len(s) - i + 1
  <2>2. j \in 1..Len(s) /\ j \in 1..Len(t) /\ i \in 1..Len(t)
    BY <1>5, <2>1
  <2>3. r[j] = s[Len(s) - j + 1] /\ u[j] = t[Len(t) - j + 1]
    BY <1>1, <1>2, <2>2
  <2>4. Len(s) - j + 1 = i /\ Len(t) - j + 1 = Len(t) - Len(s) + i
    BY <2>1
  <2>5. r[i] = s[Len(s) - i + 1] /\ u[i] = t[Len(t) - i + 1]
    BY <1>1, <1>2, <2>2
  <2>6. Len(t) - i + 1 = Len(t) - Len(s) + (Len(s) - i + 1)
    BY <2>1
  <2> QED
    BY <2>2, <2>3, <2>4, <2>5, <2>6
<1>6. ASSUME Len(s) <= Len(t)
      PROVE  (\A i \in 1..Len(s) : r[i] = u[i])
             <=> (\A i \in 1..Len(s) : s[i] = t[Len(t) - Len(s) + i])
  BY <1>5, <1>6
<1> QED
  BY <1>3, <1>4, <1>6 DEF EndsIn

(* A line: a sample, an orphan, a count.                                   *)
LEMMA LineSample ==
  ASSUME NEW out \in Seq(Values), NEW l \in Encoded, ~l.repeat
  PROVE  /\ DecodeLine(out, l) = Append(out, l.value) /\ l.value \in Values
         /\ DecodeLine(out, l) \in Seq(Values)
BY EncodedMeans DEF DecodeLine

LEMMA LineOrphan ==
  ASSUME NEW l \in Encoded, l.repeat
  PROVE  DecodeLine(<<>>, l) = <<>>
BY EncodedMeans DEF DecodeLine

LEMMA LineRepeat ==
  ASSUME NEW out \in Seq(Values), NEW l \in Encoded, l.repeat, out # <<>>
  PROVE  /\ DecodeLine(out, l) \in Seq(Values)
         /\ Len(out) \in Nat /\ Len(out) >= 1 /\ l.count \in Nat /\ 1 <= l.count /\ l.count <= CountMax
         /\ Len(DecodeLine(out, l)) = Len(out) + l.count
         /\ \A i \in 1..Len(out) : DecodeLine(out, l)[i] = out[i]
         /\ \A i \in Len(out) + 1..Len(out) + l.count : DecodeLine(out, l)[i] = out[Len(out)]
<1> DEFINE more == [i \in 1..l.count |-> Last(out)]
<1>1. l.count \in Nat /\ 1 <= l.count /\ l.count <= CountMax
  BY EncodedMeans, CountMaxAssumption
<1>2. Last(out) = out[Len(out)] /\ out[Len(out)] \in Values /\ Len(out) \in Nat /\ Len(out) >= 1
  BY DEF Last
<1>3. more \in Seq(Values) /\ Len(more) = l.count
  BY <1>1, <1>2
<1>4. DecodeLine(out, l) = out \o more
  BY DEF DecodeLine
<1>5. \A i \in 1..l.count : more[i] = out[Len(out)]
  BY <1>2
<1> HIDE DEF more
<1>6. /\ DecodeLine(out, l) \in Seq(Values)
      /\ Len(DecodeLine(out, l)) = Len(out) + l.count
      /\ \A i \in 1..Len(out) : DecodeLine(out, l)[i] = out[i]
  BY <1>1, <1>3, <1>4
<1>7. ASSUME NEW i \in Len(out) + 1..Len(out) + l.count
      PROVE  DecodeLine(out, l)[i] = out[Len(out)]
  <2>1. i - Len(out) \in 1..l.count /\ i \in Nat
    BY <1>1, <1>2
  <2>2. (out \o more)[i] = more[i - Len(out)]
    BY <1>1, <1>2, <1>3, <2>1
  <2> QED
    BY <1>4, <1>5, <2>1, <2>2
<1> QED
  BY <1>1, <1>2, <1>6, <1>7

LEMMA LineType ==
  ASSUME NEW out \in Seq(Values), NEW l \in Encoded
  PROVE  /\ DecodeLine(out, l) \in Seq(Values)
         /\ l.repeat \in BOOLEAN
         /\ ~l.repeat \/ (l.repeat /\ out = <<>>) \/ (l.repeat /\ out # <<>>)
         /\ out # <<>> \/ ~l.repeat => DecodeLine(out, l) # <<>>
<1>0. l.repeat \in BOOLEAN
  <2>1. \A x : Sample(x).repeat = FALSE /\ Repeat(x).repeat = TRUE
    BY DEF Sample, Repeat
  <2> QED
    BY <2>1, Zenon DEF Encoded
<1>1. CASE ~l.repeat
  <2>1. DecodeLine(out, l) = Append(out, l.value) /\ l.value \in Values
    BY <1>1, LineSample
  <2> QED
    BY <1>0, <1>1, <2>1
<1>2. CASE l.repeat /\ out = <<>>
  BY <1>0, <1>2, LineOrphan
<1>3. CASE l.repeat /\ out # <<>>
  <2>1. /\ DecodeLine(out, l) \in Seq(Values) /\ Len(out) \in Nat /\ l.count \in Nat
        /\ Len(out) >= 1 /\ Len(DecodeLine(out, l)) = Len(out) + l.count
    BY <1>3, LineRepeat
  <2>2. Len(DecodeLine(out, l)) > 0
    BY <2>1
  <2>3. DecodeLine(out, l) # <<>>
    BY <2>1, <2>2
  <2> QED
    BY <1>0, <1>3, <2>1, <2>3
<1> QED
  BY <1>0, <1>1, <1>2, <1>3

LEMMA DecodeType ==
  ASSUME NEW s \in Seq(Encoded)
  PROVE  Decode(s) \in Seq(Values)
<1> DEFINE G == {r \in Seq(Encoded) : Decode(r) \in Seq(Values)}
<1>1. <<>> \in G
  <2>1. <<>> \in Seq(Encoded) /\ <<>> \in Seq(Values)
    OBVIOUS
  <2> QED
    BY <2>1, DecodeEmpty
<1>2. ASSUME NEW r \in Seq(Encoded), NEW l \in Encoded, r \in G
      PROVE  Append(r, l) \in G
  BY <1>2, DecodeAppend, LineType
<1>3. Seq(Encoded) \subseteq G
  <2> HIDE DEF G
  <2> QED
    BY <1>1, <1>2, SequenceInduction
<1> QED
  BY <1>3

(* A sample line is never lost.                                            *)
LEMMA DecodeSome ==
  ASSUME NEW s \in Seq(Encoded), NEW k \in 1..Len(s), ~s[k].repeat
  PROVE  Decode(s) # <<>>
<1> DEFINE Has(r) == \E i \in 1..Len(r) : ~r[i].repeat
           G == {r \in Seq(Encoded) : Has(r) => Decode(r) # <<>>}
<1>1. <<>> \in G
  <2>1. <<>> \in Seq(Encoded) /\ 1..Len(<<>>) = {}
    OBVIOUS
  <2>2. ~Has(<<>>)
    BY <2>1
  <2> HIDE DEF Has
  <2> QED
    BY <2>1, <2>2
<1>2. ASSUME NEW r \in Seq(Encoded), NEW l \in Encoded, r \in G
      PROVE  Append(r, l) \in G
  <2>1. Decode(r) \in Seq(Values) /\ Decode(Append(r, l)) = DecodeLine(Decode(r), l)
    BY DecodeType, DecodeAppend
  <2>2. Has(Append(r, l)) => Has(r) \/ ~l.repeat
    OBVIOUS
  <2>3. Decode(r) # <<>> \/ ~l.repeat => DecodeLine(Decode(r), l) # <<>>
    BY <2>1, LineType
  <2>4. Append(r, l) \in Seq(Encoded)
    OBVIOUS
  <2> HIDE DEF Has
  <2> QED
    BY <1>2, <2>1, <2>2, <2>3, <2>4
<1>3. Seq(Encoded) \subseteq G
  <2> HIDE DEF G
  <2> QED
    BY <1>1, <1>2, SequenceInduction
<1>4. Has(s)
  OBVIOUS
<1> QED
  BY <1>3, <1>4

(* As many samples as the lines can ever hold.                             *)
LEMMA DecodeLength ==
  ASSUME NEW s \in Seq(Encoded), s # <<>>
  PROVE  Len(Decode(s)) <= 1 + CountMax * (Len(s) - 1)
<1> DEFINE G == {r \in Seq(Encoded) : /\ r # <<>> => Len(Decode(r)) <= 1 + CountMax * (Len(r) - 1)
                                      /\ r = <<>> => Decode(r) = <<>>}
<1>1. <<>> \in G
  BY DecodeEmpty
<1>2. ASSUME NEW r \in Seq(Encoded), NEW l \in Encoded, r \in G
      PROVE  Append(r, l) \in G
  <2> DEFINE out == Decode(r)
             new == DecodeLine(out, l)
  <2>1. out \in Seq(Values) /\ new \in Seq(Values) /\ Decode(Append(r, l)) = new
    BY DecodeType, DecodeAppend, LineType
  <2>2. Append(r, l) \in Seq(Encoded) /\ Len(Append(r, l)) = Len(r) + 1 /\ Append(r, l) # <<>>
    OBVIOUS
  <2>3. CountMax \in Nat /\ CountMax >= 1
    BY CountMaxAssumption
  <2>4. \/ Len(new) <= Len(out) + CountMax /\ out # <<>>
        \/ Len(new) <= 1 /\ out = <<>>
    <3>1. CASE ~l.repeat
      <4>1. new = Append(out, l.value) /\ l.value \in Values
        BY <2>1, <3>1, LineSample
      <4> HIDE DEF new, out
      <4> QED
        BY <2>1, <2>3, <4>1
    <3>2. CASE l.repeat /\ out = <<>>
      BY <2>1, <3>2, LineOrphan
    <3>3. CASE l.repeat /\ out # <<>>
      <4>1. Len(new) = Len(out) + l.count /\ l.count \in Nat /\ l.count <= CountMax
        BY <2>1, <3>3, LineRepeat
      <4> HIDE DEF new, out
      <4> QED
        BY <2>1, <2>3, <3>3, <4>1
    <3> QED
      BY <2>1, <3>1, <3>2, <3>3, LineType
  <2>5. CASE out = <<>>
    <3>1. CountMax * (Len(r) + 1 - 1) >= 0
      <4>1. Len(r) \in Nat /\ Len(r) + 1 - 1 = Len(r)
        OBVIOUS
      <4>2. \A a, b \in Nat : a * b >= 0
        OBVIOUS
      <4> QED
        BY <2>3, <4>1, <4>2
    <3>2. CountMax * (Len(r) + 1 - 1) \in Int
      BY <2>3
    <3>3. Len(new) <= 1
      BY <2>4, <2>5
    <3> HIDE DEF new, out
    <3> QED
      BY <2>1, <2>2, <3>1, <3>2, <3>3
  <2>6. CASE out # <<>>
    <3>1. r # <<>> /\ Len(out) <= 1 + CountMax * (Len(r) - 1)
      BY <1>2, <2>6
    <3>2. \A c, n \in Int : c * (n + 1 - 1) = c * (n - 1) + c
      OBVIOUS
    <3>3. CountMax * (Len(r) + 1 - 1) = CountMax * (Len(r) - 1) + CountMax
      BY <2>3, <3>2
    <3>4. CountMax * (Len(r) - 1) \in Int
      BY <2>3
    <3> HIDE DEF new, out
    <3> QED
      BY <2>1, <2>2, <2>3, <2>4, <2>6, <3>1, <3>3, <3>4
  <2> QED
    BY <2>5, <2>6
<1>3. Seq(Encoded) \subseteq G
  <2> HIDE DEF G
  <2> QED
    BY <1>1, <1>2, SequenceInduction
<1> QED
  BY <1>3

(* A line decoded keeps the end of what was decoded before it.             *)
LEMMA LineEnds ==
  ASSUME NEW a \in Seq(Values), NEW b \in Seq(Values), EndsIn(a, b), NEW l \in Encoded
  PROVE  EndsIn(DecodeLine(a, l), DecodeLine(b, l))
<1> DEFINE c == DecodeLine(a, l)
           d == DecodeLine(b, l)
<1>0. /\ Len(a) \in Nat /\ Len(b) \in Nat /\ Len(b) <= Len(a)
      /\ \A i \in 1..Len(b) : b[i] = a[Len(a) - Len(b) + i]
  BY DEF EndsIn
<1>1. CASE ~l.repeat
  <2>1. c = Append(a, l.value) /\ d = Append(b, l.value)
    BY <1>1, LineSample
  <2> HIDE DEF c, d
  <2>2. /\ Len(c) = Len(a) + 1 /\ Len(d) = Len(b) + 1
        /\ \A i \in 1..Len(a) : c[i] = a[i]
        /\ \A i \in 1..Len(b) : d[i] = b[i]
        /\ c[Len(a) + 1] = l.value /\ d[Len(b) + 1] = l.value
    BY <2>1
  <2>3. ASSUME NEW i \in 1..Len(d) PROVE d[i] = c[Len(c) - Len(d) + i]
    <3>1. CASE i <= Len(b)
      <4>1. Len(a) - Len(b) + i \in 1..Len(a) /\ i \in 1..Len(b) /\ Len(c) - Len(d) + i = Len(a) - Len(b) + i
        BY <1>0, <2>2, <3>1
      <4> QED
        BY <1>0, <2>2, <4>1
    <3>2. CASE i = Len(b) + 1
      <4>1. Len(c) - Len(d) + i = Len(a) + 1
        BY <1>0, <2>2, <3>2
      <4> QED
        BY <2>2, <3>2, <4>1
    <3> QED
      BY <1>0, <2>2, <3>1, <3>2
  <2>4. Len(d) <= Len(c)
    BY <1>0, <2>2
  <2> QED
    BY <2>3, <2>4 DEF EndsIn, c, d
<1>2. CASE l.repeat /\ b = <<>>
  <2>1. d = <<>> /\ c \in Seq(Values)
    BY <1>2, LineType, LineOrphan
  <2> HIDE DEF c, d
  <2> QED
    BY <2>1 DEF EndsIn, c, d
<1>3. CASE l.repeat /\ b # <<>>
  <2>1. a # <<>> /\ a[Len(a)] = b[Len(b)] /\ Len(b) >= 1
    BY <1>0, <1>3
  <2>2. /\ c \in Seq(Values) /\ Len(c) = Len(a) + l.count /\ l.count \in Nat
        /\ \A i \in 1..Len(a) : c[i] = a[i]
        /\ \A i \in Len(a) + 1..Len(a) + l.count : c[i] = a[Len(a)]
    BY <1>3, <2>1, LineRepeat
  <2>3. /\ d \in Seq(Values) /\ Len(d) = Len(b) + l.count
        /\ \A i \in 1..Len(b) : d[i] = b[i]
        /\ \A i \in Len(b) + 1..Len(b) + l.count : d[i] = b[Len(b)]
    BY <1>3, LineRepeat
  <2> HIDE DEF c, d
  <2>4. Len(d) <= Len(c) /\ Len(c) - Len(d) = Len(a) - Len(b)
    BY <1>0, <2>2, <2>3
  <2>5. ASSUME NEW i \in 1..Len(d) PROVE d[i] = c[Len(c) - Len(d) + i]
    <3>1. CASE i <= Len(b)
      <4>1. Len(a) - Len(b) + i \in 1..Len(a) /\ i \in 1..Len(b)
        BY <1>0, <3>1
      <4> QED
        BY <1>0, <2>2, <2>3, <2>4, <4>1
    <3>2. CASE i > Len(b)
      <4>1. /\ Len(a) - Len(b) + i \in Len(a) + 1..Len(a) + l.count
            /\ i \in Len(b) + 1..Len(b) + l.count
        BY <1>0, <2>2, <2>3, <3>2
      <4> QED
        BY <2>1, <2>2, <2>3, <2>4, <4>1
    <3> QED
      BY <1>0, <3>1, <3>2
  <2> QED
    BY <2>4, <2>5 DEF EndsIn, c, d
<1> QED
  BY <1>1, <1>2, <1>3, LineType

(* Without its oldest line a ring decodes to the end of what it decoded    *)
(* to, the orphans of an evicted sample left out.                          *)
LEMMA DecodeTail ==
  ASSUME NEW s \in Seq(Encoded), s # <<>>
  PROVE  EndsIn(Decode(s), Decode(Tail(s)))
<1> DEFINE G == {r \in Seq(Encoded) : r # <<>> => EndsIn(Decode(r), Decode(Tail(r)))}
<1>1. <<>> \in G
  OBVIOUS
<1>2. ASSUME NEW r \in Seq(Encoded), NEW l \in Encoded, r \in G
      PROVE  Append(r, l) \in G
  <2>1. Append(r, l) \in Seq(Encoded)
    OBVIOUS
  <2>2. CASE r = <<>>
    <3>1. Tail(Append(r, l)) = <<>>
      BY <2>2
    <3>2. Decode(Append(r, l)) \in Seq(Values)
      BY <2>1, DecodeType
    <3>3. EndsIn(Decode(Append(r, l)), <<>>)
      BY <3>2 DEF EndsIn
    <3> QED
      BY <2>1, <3>1, <3>3, DecodeEmpty
  <2>3. CASE r # <<>>
    <3>1. Tail(r) \in Seq(Encoded) /\ Tail(Append(r, l)) = Append(Tail(r), l)
      BY <2>3
    <3>2. /\ Decode(Append(r, l)) = DecodeLine(Decode(r), l)
          /\ Decode(Append(Tail(r), l)) = DecodeLine(Decode(Tail(r)), l)
      BY <3>1, DecodeAppend
    <3>3. Decode(r) \in Seq(Values) /\ Decode(Tail(r)) \in Seq(Values)
      BY <3>1, DecodeType
    <3>4. EndsIn(Decode(r), Decode(Tail(r)))
      BY <1>2, <2>3
    <3>5. EndsIn(DecodeLine(Decode(r), l), DecodeLine(Decode(Tail(r)), l))
      BY <3>3, <3>4, LineEnds
    <3> QED
      BY <2>1, <3>1, <3>2, <3>5
  <2> QED
    BY <2>2, <2>3
<1>3. Seq(Encoded) \subseteq G
  <2> HIDE DEF G
  <2> QED
    BY <1>1, <1>2, SequenceInduction
<1> QED
  BY <1>3

(* A single run decodes to its value.                                      *)
LEMMA DecodeRun ==
  ASSUME NEW v \in Values, NEW s \in Seq(Encoded), s # <<>>, s[1] = Sample(v),
         \A i \in 2..Len(s) : s[i].repeat
  PROVE  Decode(s) # <<>> /\ \A i \in 1..Len(Decode(s)) : Decode(s)[i] = v
<1> DEFINE One(r) == r # <<>> /\ r[1] = Sample(v) /\ \A i \in 2..Len(r) : r[i].repeat
           G == {r \in Seq(Encoded) : One(r) => /\ Decode(r) # <<>>
                                                /\ \A i \in 1..Len(Decode(r)) : Decode(r)[i] = v}
<1>1. <<>> \in G
  OBVIOUS
<1>2. ASSUME NEW r \in Seq(Encoded), NEW l \in Encoded, r \in G
      PROVE  Append(r, l) \in G
  <2> DEFINE out == Decode(r)
             new == DecodeLine(out, l)
  <2>1. out \in Seq(Values) /\ new \in Seq(Values) /\ Decode(Append(r, l)) = new
    BY DecodeType, DecodeAppend, LineType
  <2>2. Append(r, l) \in Seq(Encoded) /\ Len(Append(r, l)) = Len(r) + 1
    OBVIOUS
  <2> SUFFICES ASSUME One(Append(r, l))
               PROVE  new # <<>> /\ \A i \in 1..Len(new) : new[i] = v
    BY <2>1, <2>2
  <2>3. CASE r = <<>>
    <3>1. l = Sample(v) /\ out = <<>>
      BY <2>3, DecodeEmpty
    <3>2. ~l.repeat /\ l.value = v
      BY <3>1, SampleMeans
    <3>3. new = Append(out, v)
      BY <2>1, <3>2, LineSample
    <3>4. new = <<v>>
      BY <3>1, <3>3
    <3> HIDE DEF new, out
    <3> QED
      BY <3>4
  <2>4. CASE r # <<>>
    <3>1. Len(r) \in Nat /\ Len(r) >= 1
      BY <2>4
    <3>2. /\ Append(r, l)[1] = r[1] /\ Append(r, l)[Len(r) + 1] = l
          /\ \A i \in 2..Len(r) : Append(r, l)[i] = r[i]
      BY <3>1
    <3>3. One(r) /\ l.repeat
      BY <2>2, <2>4, <3>1, <3>2
    <3>4. out # <<>> /\ \A i \in 1..Len(out) : out[i] = v
      BY <1>2, <3>3
    <3>5. /\ Len(new) = Len(out) + l.count /\ l.count \in Nat /\ Len(out) >= 1
          /\ \A i \in 1..Len(out) : new[i] = out[i]
          /\ \A i \in Len(out) + 1..Len(out) + l.count : new[i] = out[Len(out)]
      BY <2>1, <3>3, <3>4, LineRepeat
    <3> HIDE DEF new, out
    <3>6. \A i \in 1..Len(new) : i \in 1..Len(out) \/ i \in Len(out) + 1..Len(out) + l.count
      BY <2>1, <3>5
    <3>7. \A i \in 1..Len(new) : new[i] = v
      <4>1. out[Len(out)] = v
        BY <2>1, <3>4, <3>5
      <4> QED
        BY <3>4, <3>5, <3>6, <4>1
    <3>8. new # <<>>
      <4>1. Len(new) > 0
        BY <3>5
      <4> QED
        BY <2>1, <4>1
    <3> QED
      BY <3>7, <3>8
  <2> QED
    BY <2>3, <2>4
<1>3. Seq(Encoded) \subseteq G
  <2> HIDE DEF G
  <2> QED
    BY <1>1, <1>2, SequenceInduction
<1> QED
  <2>1. s \in G
    BY <1>3
  <2> QED
    BY <2>1
-----------------------------------------------------------------------------
(* The ring, of any registers and any buffer.                              *)

Held == {Stale} \union Encoded
Address(c, k) == (c.head + k - 1) % c.pre_lines
Ring(c, l) == [i \in 1..c.nfilled |-> l[Address(c, i)]]
Written(l, i, x, m) == m = [l EXCEPT ![i] = x]
After(c) == IF c.wp = c.pre_lines - 1 THEN 0 ELSE c.wp + 1

Geometry(c) ==
  /\ c.pre_lines \in Nat /\ 0 < c.pre_lines /\ c.pre_lines < Depth
  /\ c.nfilled \in Nat /\ 0 < c.nfilled /\ c.nfilled <= c.pre_lines
  /\ c.head \in Nat /\ c.head < c.pre_lines
  /\ c.wp \in Nat /\ c.wp < c.pre_lines
  /\ IF c.nfilled >= c.pre_lines THEN c.head = After(c) ELSE c.head = 0 /\ c.wp = c.nfilled - 1

(* An entry appended, as RingAdvance has it.                               *)
Advanced(c, d) ==
  /\ d.pre_lines = c.pre_lines /\ d.wp = After(c)
  /\ d.nfilled = IF c.nfilled >= c.pre_lines THEN c.nfilled ELSE c.nfilled + 1
  /\ d.head = IF c.nfilled < c.pre_lines THEN c.head
              ELSE IF c.head = c.pre_lines - 1 THEN 0 ELSE c.head + 1

LEMMA WrittenMeans ==
  ASSUME NEW l \in [Lines -> Held], NEW i \in Lines, NEW x \in Held, NEW m, Written(l, i, x, m)
  PROVE  /\ m \in [Lines -> Held] /\ m[i] = x
         /\ \A a \in Lines : a # i => m[a] = l[a]
BY DEF Written

LEMMA SameSequence ==
  ASSUME NEW E, NEW a \in Seq(E), NEW b \in Seq(E), Len(a) = Len(b),
         \A i \in 1..Len(a) : a[i] = b[i]
  PROVE  a = b
OBVIOUS

LEMMA Wraps ==
  ASSUME NEW p \in Nat, NEW n \in Nat, n < 2 * p
  PROVE  n % p = IF n < p THEN n ELSE n - p
<1>1. CASE n < p
  BY <1>1
<1>2. CASE n >= p
  <2>1. n = 1 * p + (n - p) /\ 0 <= n - p /\ n - p < p
    BY <1>2
  <2> QED
    BY <1>2, <2>1
<1> QED
  BY <1>1, <1>2

LEMMA AddressIs ==
  ASSUME NEW c, Geometry(c), NEW k \in 1..c.pre_lines
  PROVE  /\ Address(c, k) = IF c.head + k - 1 < c.pre_lines THEN c.head + k - 1
                            ELSE c.head + k - 1 - c.pre_lines
         /\ Address(c, k) \in Nat /\ Address(c, k) < c.pre_lines /\ Address(c, k) \in Lines
<1> DEFINE n == c.head + k - 1
           p == c.pre_lines
<1>1. n \in Nat /\ p \in Nat /\ n < 2 * p
  BY DEF Geometry
<1>2. Address(c, k) = n % p
  BY DEF Address
<1>3. n % p = IF n < p THEN n ELSE n - p
  <2> HIDE DEF n, p
  <2> QED
    BY <1>1, Wraps
<1>4. p < Depth
  BY DEF Geometry
<1>5. n % p \in Nat /\ n % p < p
  <2> HIDE DEF n, p
  <2> QED
    BY <1>1, <1>3
<1>6. n % p \in Lines
  <2> HIDE DEF n, p
  <2> QED
    BY <1>1, <1>4, <1>5, RleDepthAssumption DEF Lines
<1>7. Address(c, k) \in Nat /\ Address(c, k) < c.pre_lines /\ Address(c, k) \in Lines
  BY <1>2, <1>5, <1>6 DEF n, p
<1>8. Address(c, k) = IF n < p THEN n ELSE n - p
  <2> HIDE DEF n, p
  <2> QED
    BY <1>2, <1>3
<1>9. Address(c, k) = IF c.head + k - 1 < c.pre_lines THEN c.head + k - 1
                      ELSE c.head + k - 1 - c.pre_lines
  BY <1>8, <1>1 DEF n, p, Geometry
<1> HIDE DEF n, p
<1> QED
  BY <1>7, <1>9

(* The oldest line is at the head, the newest at the pointer; the next     *)
(* goes after it, where the oldest is when the ring is full.               *)
LEMMA Addresses ==
  ASSUME NEW c, Geometry(c)
  PROVE  /\ Address(c, 1) = c.head /\ Address(c, c.nfilled) = c.wp
         /\ \A i, k \in 1..c.pre_lines : Address(c, i) = Address(c, k) => i = k
         /\ c.nfilled < c.pre_lines => After(c) = Address(c, c.nfilled + 1)
         /\ c.nfilled >= c.pre_lines => After(c) = c.head
         /\ After(c) \in Lines /\ After(c) < c.pre_lines
<1> USE DEF Geometry, After
<1>1. Address(c, 1) = c.head
  BY AddressIs
<1>2. Address(c, c.nfilled) = c.wp
  <2>1. c.nfilled \in 1..c.pre_lines
    OBVIOUS
  <2>2. Address(c, c.nfilled) = IF c.head + c.nfilled - 1 < c.pre_lines THEN c.head + c.nfilled - 1
                                ELSE c.head + c.nfilled - 1 - c.pre_lines
    BY <2>1, AddressIs
  <2> QED
    BY <2>2
<1>3. \A i, k \in 1..c.pre_lines : Address(c, i) = Address(c, k) => i = k
  BY AddressIs
<1>4. c.nfilled < c.pre_lines => After(c) = Address(c, c.nfilled + 1)
  <2> SUFFICES ASSUME c.nfilled < c.pre_lines PROVE After(c) = Address(c, c.nfilled + 1)
    OBVIOUS
  <2>1. c.nfilled + 1 \in 1..c.pre_lines
    OBVIOUS
  <2> QED
    BY <2>1, AddressIs
<1> QED
  BY <1>1, <1>2, <1>3, <1>4, RleDepthAssumption DEF Lines

LEMMA AdvancedGeometry ==
  ASSUME NEW c, NEW d, Geometry(c), Advanced(c, d)
  PROVE  /\ Geometry(d)
         /\ c.nfilled >= c.pre_lines =>
              /\ d.nfilled = c.nfilled
              /\ \A i \in 1..c.nfilled - 1 : Address(d, i) = Address(c, i + 1)
              /\ Address(d, d.nfilled) = After(c)
         /\ c.nfilled < c.pre_lines =>
              /\ d.nfilled = c.nfilled + 1
              /\ \A i \in 1..c.nfilled : Address(d, i) = Address(c, i)
              /\ Address(d, d.nfilled) = After(c)
<1>1. Geometry(d)
  BY DEF Geometry, Advanced, After
<1>2. Address(d, d.nfilled) = After(c)
  BY <1>1, Addresses DEF Advanced
<1>3. ASSUME c.nfilled >= c.pre_lines, NEW i \in 1..c.nfilled - 1
      PROVE  Address(d, i) = Address(c, i + 1)
  <2>1. i \in 1..d.pre_lines /\ i + 1 \in 1..c.pre_lines
    BY <1>3 DEF Geometry, Advanced
  <2> QED
    BY <1>1, <1>3, <2>1, AddressIs DEF Geometry, Advanced
<1>4. ASSUME c.nfilled < c.pre_lines, NEW i \in 1..c.nfilled
      PROVE  Address(d, i) = Address(c, i)
  BY <1>4 DEF Geometry, Advanced, Address
<1> QED
  BY <1>1, <1>2, <1>3, <1>4 DEF Geometry, Advanced

LEMMA RingType ==
  ASSUME NEW c, Geometry(c), NEW l \in [Lines -> Held]
  PROVE  /\ Ring(c, l) \in Seq(Held) /\ Len(Ring(c, l)) = c.nfilled
         /\ Ring(c, l) # <<>>
         /\ \A i \in 1..c.nfilled : Ring(c, l)[i] = l[Address(c, i)]
<1>1. \A i \in 1..c.nfilled : l[Address(c, i)] \in Held
  BY AddressIs DEF Geometry
<1>2. c.nfilled \in Nat /\ c.nfilled > 0
  BY DEF Geometry
<1> QED
  BY <1>1, <1>2 DEF Ring

LEMMA RingAppends ==
  ASSUME NEW c, NEW d, Geometry(c), Advanced(c, d), NEW l \in [Lines -> Held], NEW x \in Held,
         NEW m, Written(l, After(c), x, m)
  PROVE  /\ m \in [Lines -> Held]
         /\ c.nfilled < c.pre_lines => Ring(d, m) = Append(Ring(c, l), x)
         /\ c.nfilled >= c.pre_lines => Ring(d, m) = Append(Tail(Ring(c, l)), x)
<1>0. After(c) \in Lines /\ Geometry(d)
  BY Addresses, AdvancedGeometry
<1>1. m \in [Lines -> Held] /\ m[After(c)] = x
  BY <1>0, WrittenMeans
<1>2. \A a \in Lines : a # After(c) => m[a] = l[a]
  BY <1>0, WrittenMeans
<1>3. /\ Ring(c, l) \in Seq(Held) /\ Len(Ring(c, l)) = c.nfilled /\ Ring(c, l) # <<>>
      /\ \A i \in 1..c.nfilled : Ring(c, l)[i] = l[Address(c, i)]
  BY RingType
<1>4. /\ Ring(d, m) \in Seq(Held) /\ Len(Ring(d, m)) = d.nfilled
      /\ \A i \in 1..d.nfilled : Ring(d, m)[i] = m[Address(d, i)]
  BY <1>0, <1>1, RingType
<1>5. c.nfilled \in Nat /\ c.nfilled > 0 /\ c.nfilled <= c.pre_lines /\ c.pre_lines \in Nat
  BY DEF Geometry
<1>6. ASSUME c.nfilled < c.pre_lines
      PROVE  Ring(d, m) = Append(Ring(c, l), x)
  <2>1. d.nfilled = c.nfilled + 1 /\ Address(d, d.nfilled) = After(c)
    BY <1>6, AdvancedGeometry
  <2>2. ASSUME NEW i \in 1..c.nfilled PROVE Ring(d, m)[i] = Ring(c, l)[i]
    <3>1. Address(d, i) = Address(c, i)
      BY <1>6, AdvancedGeometry
    <3>2. Address(c, i) # After(c) /\ Address(c, i) \in Lines
      <4>1. i \in 1..c.pre_lines /\ c.nfilled + 1 \in 1..c.pre_lines /\ i # c.nfilled + 1
        BY <1>5, <1>6
      <4> QED
        BY <1>6, <4>1, Addresses, AddressIs
    <3>3. i \in 1..d.nfilled
      BY <1>5, <2>1
    <3> QED
      BY <1>2, <1>3, <1>4, <3>1, <3>2, <3>3
  <2>3. Ring(d, m)[c.nfilled + 1] = x
    BY <1>1, <1>4, <1>5, <2>1
  <2> DEFINE a == Ring(d, m)
             b == Append(Ring(c, l), x)
  <2>4. /\ a \in Seq(Held) /\ b \in Seq(Held) /\ Len(a) = c.nfilled + 1 /\ Len(b) = c.nfilled + 1
        /\ \A i \in 1..c.nfilled : b[i] = Ring(c, l)[i]
        /\ b[c.nfilled + 1] = x
    BY <1>3, <1>4, <1>5, <2>1
  <2> HIDE DEF b
  <2>5. \A i \in 1..Len(a) : a[i] = b[i]
    BY <1>5, <2>2, <2>3, <2>4
  <2>6. a = b
    BY <2>4, <2>5, SameSequence
  <2> QED
    BY <2>6 DEF b
<1>7. ASSUME c.nfilled >= c.pre_lines
      PROVE  Ring(d, m) = Append(Tail(Ring(c, l)), x)
  <2>1. d.nfilled = c.nfilled /\ Address(d, d.nfilled) = After(c) /\ After(c) = c.head /\ Address(c, 1) = c.head
    BY <1>7, AdvancedGeometry, Addresses
  <2>2. ASSUME NEW i \in 1..c.nfilled - 1 PROVE Ring(d, m)[i] = Ring(c, l)[i + 1]
    <3>0. i \in 1..d.nfilled /\ i + 1 \in 1..c.nfilled /\ i + 1 \in 1..c.pre_lines /\ 1 \in 1..c.pre_lines /\ i + 1 # 1
      BY <1>5, <2>1
    <3>1. Address(d, i) = Address(c, i + 1)
      BY <1>7, AdvancedGeometry
    <3>2. Address(c, i + 1) # After(c) /\ Address(c, i + 1) \in Lines
      BY <2>1, <3>0, Addresses, AddressIs
    <3> QED
      BY <1>2, <1>3, <1>4, <3>0, <3>1, <3>2
  <2>3. Ring(d, m)[c.nfilled] = x
    BY <1>1, <1>4, <1>5, <2>1
  <2> DEFINE a == Ring(d, m)
             b == Append(Tail(Ring(c, l)), x)
  <2>4. /\ a \in Seq(Held) /\ b \in Seq(Held) /\ Len(a) = c.nfilled /\ Len(b) = c.nfilled
        /\ \A i \in 1..c.nfilled - 1 : b[i] = Ring(c, l)[i + 1]
        /\ b[c.nfilled] = x
    <3> DEFINE t == Tail(Ring(c, l))
    <3>1. /\ t \in Seq(Held) /\ Len(t) = c.nfilled - 1
          /\ \A i \in 1..c.nfilled - 1 : t[i] = Ring(c, l)[i + 1]
      BY <1>3, <1>5
    <3> HIDE DEF t
    <3>2. /\ Append(t, x) \in Seq(Held) /\ Len(Append(t, x)) = c.nfilled
          /\ \A i \in 1..c.nfilled - 1 : Append(t, x)[i] = t[i]
          /\ Append(t, x)[c.nfilled] = x
      BY <1>5, <3>1
    <3> QED
      BY <1>4, <2>1, <3>1, <3>2 DEF t
  <2> HIDE DEF b
  <2>5. \A i \in 1..Len(a) : a[i] = b[i]
    BY <1>5, <2>2, <2>3, <2>4
  <2>6. a = b
    BY <2>4, <2>5, SameSequence
  <2> QED
    BY <2>6 DEF b
<1> QED
  BY <1>1, <1>6, <1>7

(* A count added to the newest line.                                       *)
LEMMA RingOverwritten ==
  ASSUME NEW c, NEW d, Geometry(c), d.pre_lines = c.pre_lines, d.head = c.head,
         d.nfilled = c.nfilled, d.wp = c.wp,
         NEW l \in [Lines -> Held], NEW x \in Held,
         NEW m, Written(l, c.wp, x, m)
  PROVE  LET f == SubSeq(Ring(c, l), 1, c.nfilled - 1)
         IN  /\ m \in [Lines -> Held] /\ Geometry(d)
             /\ f \in Seq(Held) /\ Len(f) = c.nfilled - 1
             /\ Ring(c, l) = Append(f, Ring(c, l)[c.nfilled])
             /\ Ring(d, m) = Append(f, x)
<1> DEFINE f == SubSeq(Ring(c, l), 1, c.nfilled - 1)
<1>1. Geometry(d) /\ c.wp \in Lines
  BY RleDepthAssumption DEF Geometry, After, Lines
<1>2. m \in [Lines -> Held] /\ m[c.wp] = x /\ \A a \in Lines : a # c.wp => m[a] = l[a]
  BY <1>1, WrittenMeans
<1>3. c.nfilled \in Nat /\ c.nfilled > 0 /\ c.nfilled <= c.pre_lines /\ c.pre_lines \in Nat
  BY DEF Geometry
<1>4. /\ Ring(c, l) \in Seq(Held) /\ Len(Ring(c, l)) = c.nfilled
      /\ \A i \in 1..c.nfilled : Ring(c, l)[i] = l[Address(c, i)]
  BY RingType
<1>5. /\ Ring(d, m) \in Seq(Held) /\ Len(Ring(d, m)) = c.nfilled
      /\ \A i \in 1..c.nfilled : Ring(d, m)[i] = m[Address(c, i)]
  <2>1. /\ Ring(d, m) \in Seq(Held) /\ Len(Ring(d, m)) = d.nfilled
        /\ \A i \in 1..d.nfilled : Ring(d, m)[i] = m[Address(d, i)]
    BY <1>1, <1>2, RingType
  <2>2. \A i : Address(d, i) = Address(c, i)
    BY DEF Address
  <2> QED
    BY <2>1, <2>2
<1>6. ASSUME NEW i \in 1..c.nfilled - 1
      PROVE  Ring(d, m)[i] = Ring(c, l)[i]
  <2>1. i \in 1..c.nfilled /\ i \in 1..c.pre_lines /\ c.nfilled \in 1..c.pre_lines /\ i # c.nfilled
    BY <1>3
  <2>2. Address(c, i) # c.wp /\ Address(c, i) \in Lines
    BY <2>1, Addresses, AddressIs
  <2> QED
    BY <1>2, <1>4, <1>5, <2>1, <2>2
<1>7. Ring(d, m)[c.nfilled] = x
  <2>1. c.nfilled \in 1..c.nfilled /\ Address(c, c.nfilled) = c.wp
    BY <1>3, Addresses
  <2> QED
    BY <1>2, <1>5, <2>1
<1> DEFINE a == Ring(c, l)
           b == Ring(d, m)
<1>8. /\ f \in Seq(Held) /\ Len(f) = c.nfilled - 1
      /\ \A i \in 1..c.nfilled - 1 : f[i] = a[i]
  BY <1>3, <1>4
<1> HIDE DEF f, a, b
<1>9. ASSUME NEW y, y \in Held
      PROVE  /\ Append(f, y) \in Seq(Held) /\ Len(Append(f, y)) = c.nfilled
             /\ \A i \in 1..c.nfilled - 1 : Append(f, y)[i] = f[i]
             /\ Append(f, y)[c.nfilled] = y
  BY <1>3, <1>8, <1>9
<1>10. /\ a \in Seq(Held) /\ Len(a) = c.nfilled /\ a[c.nfilled] \in Held
       /\ b \in Seq(Held) /\ Len(b) = c.nfilled /\ b[c.nfilled] = x
       /\ \A i \in 1..c.nfilled - 1 : b[i] = a[i]
  <2>1. a[c.nfilled] \in Held
    BY <1>3, <1>4 DEF a
  <2> QED
    BY <1>4, <1>5, <1>6, <1>7, <2>1 DEF a, b
<1>11. a = Append(f, a[c.nfilled])
  <2> DEFINE g == Append(f, a[c.nfilled])
  <2>1. /\ g \in Seq(Held) /\ Len(g) = c.nfilled /\ g[c.nfilled] = a[c.nfilled]
        /\ \A i \in 1..c.nfilled - 1 : g[i] = a[i]
    BY <1>8, <1>9, <1>10
  <2> HIDE DEF g
  <2>2. \A i \in 1..Len(a) : a[i] = g[i]
    BY <1>3, <1>10, <2>1
  <2>3. a = g
    BY <1>10, <2>1, <2>2, SameSequence
  <2> QED
    BY <2>3 DEF g
<1>12. b = Append(f, x)
  <2> DEFINE g == Append(f, x)
  <2>1. /\ g \in Seq(Held) /\ Len(g) = c.nfilled /\ g[c.nfilled] = x
        /\ \A i \in 1..c.nfilled - 1 : g[i] = a[i]
    BY <1>8, <1>9
  <2> HIDE DEF g
  <2>2. \A i \in 1..Len(b) : b[i] = g[i]
    BY <1>3, <1>10, <2>1
  <2>3. b = g
    BY <1>10, <2>1, <2>2, SameSequence
  <2> QED
    BY <2>3 DEF g
<1> QED
  BY <1>1, <1>2, <1>8, <1>11, <1>12 DEF a, b, f

(* Lines written outside it leave a ring alone.                            *)
LEMMA OutsideRing ==
  ASSUME NEW c, NEW d, NEW l, NEW m, c.pre_lines \in Nat, c.head \in Nat, c.nfilled \in Nat,
         c.nfilled <= c.pre_lines,
         d.pre_lines = c.pre_lines, d.head = c.head, d.nfilled = c.nfilled,
         \A a \in Nat : a < c.pre_lines => m[a] = l[a]
  PROVE  Ring(d, m) = Ring(c, l)
<1>1. ASSUME NEW i \in 1..c.nfilled
      PROVE  m[Address(d, i)] = l[Address(c, i)]
  <2>1. Address(d, i) = Address(c, i)
    BY DEF Address
  <2> DEFINE n == c.head + i - 1
             p == c.pre_lines
  <2>2. n \in Nat /\ p \in Nat /\ 0 < p
    OBVIOUS
  <2>3. n % p \in Nat /\ n % p < p
    <3> HIDE DEF n, p
    <3> QED
      BY <2>2
  <2>4. Address(c, i) = n % p
    BY DEF Address
  <2> QED
    BY <2>1, <2>3, <2>4
<1> QED
  BY <1>1 DEF Ring

(* The lines from the first after the ring to the pointer.                 *)
Post(c, l) == [i \in 1..c.wp + 1 - c.pre_lines |-> l[c.pre_lines + i - 1]]

Filled(c, l) ==
  /\ c.pre_lines \in Lines /\ c.wp \in Lines /\ c.pre_lines <= c.wp
  /\ \A i \in c.pre_lines..c.wp : l[i] \in Encoded

LEMMA PostType ==
  ASSUME NEW c, NEW l, Filled(c, l)
  PROVE  /\ Post(c, l) \in Seq(Encoded) /\ Len(Post(c, l)) = c.wp + 1 - c.pre_lines
         /\ Post(c, l) # <<>>
         /\ \A i \in 1..c.wp + 1 - c.pre_lines : Post(c, l)[i] = l[c.pre_lines + i - 1]
<1>1. c.pre_lines \in Nat /\ c.wp \in Nat
  BY RleDepthAssumption DEF Lines, Filled
<1>2. \A i \in 1..c.wp + 1 - c.pre_lines : l[c.pre_lines + i - 1] \in Encoded
  BY <1>1 DEF Filled
<1>3. c.wp + 1 - c.pre_lines \in Nat /\ c.wp + 1 - c.pre_lines > 0
  BY <1>1 DEF Filled
<1> DEFINE n == c.wp + 1 - c.pre_lines
           g == [i \in 1..n |-> l[c.pre_lines + i - 1]]
<1>4. g \in Seq(Encoded) /\ Len(g) = n /\ g # <<>>
  <2>1. g \in [1..n -> Encoded]
    BY <1>2
  <2>2. n \in Nat /\ n > 0
    BY <1>3
  <2> HIDE DEF n, g
  <2> QED
    BY <2>1, <2>2
<1> QED
  BY <1>4 DEF Post

LEMMA PostStarts ==
  ASSUME NEW d, NEW m, d.pre_lines \in Lines, d.wp = d.pre_lines, m[d.pre_lines] \in Encoded
  PROVE  Post(d, m) = <<m[d.pre_lines]>> /\ Filled(d, m)
<1>1. d.pre_lines \in Nat /\ d.wp \in Lines
  BY RleDepthAssumption DEF Lines
<1>2. Filled(d, m)
  BY <1>1 DEF Filled
<1>3. /\ Post(d, m) \in Seq(Encoded) /\ Len(Post(d, m)) = d.wp + 1 - d.pre_lines
      /\ \A i \in 1..d.wp + 1 - d.pre_lines : Post(d, m)[i] = m[d.pre_lines + i - 1]
  BY <1>2, PostType
<1>4. Len(Post(d, m)) = 1 /\ Post(d, m)[1] = m[d.pre_lines]
  BY <1>1, <1>3
<1> QED
  BY <1>2, <1>3, <1>4

PointsTo(c, d, i) == d.pre_lines = c.pre_lines /\ d.wp = i

LineAdded(c, d, l, m, i, x) ==
  /\ m \in [Lines -> Held] /\ m[c.pre_lines] = l[c.pre_lines] /\ m[i] = x
  /\ Filled(d, m)
  /\ Post(d, m) = Append(Post(c, l), x)

LineReplaced(c, d, l, m, i, x) ==
  /\ m \in [Lines -> Held] /\ m[c.pre_lines] = l[c.pre_lines] /\ m[i] = x
  /\ Filled(d, m)
  /\ \E f \in Seq(Encoded) : /\ 1 \in 1..Len(f) /\ f[1] = l[c.pre_lines]
                             /\ Post(c, l) = Append(f, l[c.wp])
                             /\ Post(d, m) = Append(f, x)

LEMMA PostAppends ==
  ASSUME NEW c, NEW d, NEW l \in [Lines -> Held], Filled(c, l),
         NEW i \in Lines, i = c.wp + 1, NEW x \in Encoded, NEW m, Written(l, i, x, m),
         PointsTo(c, d, i)
  PROVE  LineAdded(c, d, l, m, i, x)
<1>w. d.pre_lines = c.pre_lines /\ d.wp = i
  BY DEF PointsTo
<1>1. /\ c.pre_lines \in Lines /\ c.wp \in Lines /\ c.pre_lines <= c.wp
      /\ \A k \in c.pre_lines..c.wp : l[k] \in Encoded
      /\ c.pre_lines \in Nat /\ c.wp \in Nat /\ d.pre_lines \in Lines /\ d.pre_lines <= d.wp
  BY <1>w, RleDepthAssumption DEF Lines, Filled
<1>2. m \in [Lines -> Held] /\ m[d.wp] = x /\ \A k \in Lines : k # d.wp => m[k] = l[k]
  <2>1. x \in Held
    BY DEF Held
  <2> QED
    BY <1>w, <2>1, WrittenMeans
<1>3. m[d.pre_lines] = l[d.pre_lines]
  <2>1. d.pre_lines # d.wp
    BY <1>w, <1>1
  <2> QED
    BY <1>w, <1>1, <1>2, <2>1
<1>4. \A k \in c.pre_lines..c.wp : k \in Lines /\ k # d.wp
  BY <1>w, <1>1, RleDepthAssumption DEF Lines
<1>5. ASSUME NEW k \in d.pre_lines..d.wp PROVE m[k] \in Encoded
  <2>1. k \in c.pre_lines..c.wp \/ k = d.wp
    BY <1>w, <1>1
  <2> QED
    BY <1>w, <1>1, <1>2, <1>4, <2>1
<1>0. Filled(d, m)
  BY <1>w, <1>1, <1>5 DEF Filled
<1> DEFINE n == c.wp + 1 - c.pre_lines
           a == Post(c, l)
           b == Post(d, m)
<1>6. a \in Seq(Encoded) /\ Len(a) = n /\ \A k \in 1..n : a[k] = l[c.pre_lines + k - 1]
  BY PostType
<1>7. b \in Seq(Encoded) /\ Len(b) = n + 1 /\ \A k \in 1..n + 1 : b[k] = m[c.pre_lines + k - 1]
  <2>1. /\ b \in Seq(Encoded) /\ Len(b) = d.wp + 1 - d.pre_lines
        /\ \A k \in 1..d.wp + 1 - d.pre_lines : b[k] = m[d.pre_lines + k - 1]
    BY <1>w, <1>0, PostType
  <2>2. d.wp + 1 - d.pre_lines = n + 1
    BY <1>w, <1>1
  <2> QED
    BY <1>w, <2>1, <2>2
<1>8. n \in Nat /\ \A k \in 1..n : c.pre_lines + k - 1 \in c.pre_lines..c.wp
  BY <1>w, <1>1
<1>9. \A k \in 1..n : b[k] = a[k]
  BY <1>w, <1>2, <1>4, <1>6, <1>7, <1>8
<1>10. b[n + 1] = x
  <2>1. c.pre_lines + (n + 1) - 1 = d.wp /\ n + 1 \in 1..n + 1
    BY <1>w, <1>1
  <2> QED
    BY <1>w, <1>2, <1>7, <2>1
<1>11. b = Append(a, x)
  <2> DEFINE g == Append(a, x)
  <2> HIDE DEF n, a, b
  <2>1. g \in Seq(Encoded) /\ Len(g) = n + 1 /\ g[n + 1] = x /\ \A k \in 1..n : g[k] = a[k]
    BY <1>6, <1>8
  <2> HIDE DEF g
  <2>2. \A k \in 1..Len(b) : b[k] = g[k]
    BY <1>7, <1>8, <1>9, <1>10, <2>1
  <2>3. b = g
    BY <1>7, <2>1, <2>2, SameSequence
  <2> QED
    BY <2>3 DEF g
<1> QED
  BY <1>w, <1>0, <1>2, <1>3, <1>11 DEF LineAdded

LEMMA PostOverwritten ==
  ASSUME NEW c, NEW d, NEW l \in [Lines -> Held], Filled(c, l), c.pre_lines < c.wp,
         NEW i \in Lines, i = c.wp, NEW x \in Encoded, NEW m, Written(l, i, x, m),
         PointsTo(c, d, i)
  PROVE  LineReplaced(c, d, l, m, i, x)
<1>w. d.pre_lines = c.pre_lines /\ d.wp = i
  BY DEF PointsTo
<1>1. /\ c.pre_lines \in Lines /\ c.wp \in Lines /\ c.pre_lines <= c.wp
      /\ \A k \in c.pre_lines..c.wp : l[k] \in Encoded
      /\ c.pre_lines \in Nat /\ c.wp \in Nat /\ d.pre_lines \in Lines /\ d.pre_lines <= d.wp /\ d.wp \in Lines
  BY <1>w, RleDepthAssumption DEF Lines, Filled
<1>2. m \in [Lines -> Held] /\ m[d.wp] = x /\ \A k \in Lines : k # d.wp => m[k] = l[k]
  <2>1. x \in Held
    BY DEF Held
  <2> QED
    BY <1>w, <1>1, <2>1, WrittenMeans
<1>3. m[d.pre_lines] = l[d.pre_lines]
  <2>1. d.pre_lines # d.wp
    BY <1>w, <1>1
  <2> QED
    BY <1>w, <1>1, <1>2, <2>1
<1>4. \A k \in c.pre_lines..c.wp : k \in Lines
  BY <1>w, <1>1, RleDepthAssumption DEF Lines
<1>5. ASSUME NEW k \in d.pre_lines..d.wp PROVE m[k] \in Encoded
  <2>1. k \in c.pre_lines..c.wp
    BY <1>w, <1>1
  <2> QED
    BY <1>w, <1>1, <1>2, <1>4, <2>1
<1>0. Filled(d, m)
  BY <1>w, <1>1, <1>5 DEF Filled
<1> DEFINE n == c.wp - c.pre_lines
           a == Post(c, l)
           b == Post(d, m)
           f == SubSeq(a, 1, n)
<1>6. n \in Nat /\ n >= 1 /\ c.wp + 1 - c.pre_lines = n + 1 /\ c.pre_lines + (n + 1) - 1 = c.wp
  BY <1>w, <1>1
<1>7. a \in Seq(Encoded) /\ Len(a) = n + 1 /\ \A k \in 1..n + 1 : a[k] = l[c.pre_lines + k - 1]
  <2>1. /\ a \in Seq(Encoded) /\ Len(a) = c.wp + 1 - c.pre_lines
        /\ \A k \in 1..c.wp + 1 - c.pre_lines : a[k] = l[c.pre_lines + k - 1]
    BY PostType
  <2> HIDE DEF a, n
  <2> QED
    BY <1>6, <2>1
<1>8. b \in Seq(Encoded) /\ Len(b) = n + 1 /\ \A k \in 1..n + 1 : b[k] = m[c.pre_lines + k - 1]
  <2>1. /\ b \in Seq(Encoded) /\ Len(b) = d.wp + 1 - d.pre_lines
        /\ \A k \in 1..d.wp + 1 - d.pre_lines : b[k] = m[d.pre_lines + k - 1]
    BY <1>w, <1>0, PostType
  <2> HIDE DEF b, n
  <2> QED
    BY <1>w, <1>6, <2>1
<1>9. \A k \in 1..n : c.pre_lines + k - 1 \in c.pre_lines..c.wp /\ c.pre_lines + k - 1 # d.wp
  BY <1>w, <1>1
<1>10. a[n + 1] = l[c.wp] /\ b[n + 1] = x
  <2>1. n + 1 \in 1..n + 1
    BY <1>6
  <2> HIDE DEF a, b, n
  <2> QED
    BY <1>w, <1>2, <1>6, <1>7, <1>8, <2>1
<1>11. \A k \in 1..n : b[k] = a[k] /\ a[k] = l[c.pre_lines + k - 1]
  BY <1>w, <1>2, <1>4, <1>6, <1>7, <1>8, <1>9
<1>12. /\ f \in Seq(Encoded) /\ Len(f) = n /\ f[1] = a[1] /\ 1 \in 1..n
       /\ \A k \in 1..n : f[k] = a[k]
  <2> HIDE DEF a, n
  <2> QED
    BY <1>6, <1>7
<1>13. a[1] = l[c.pre_lines]
  <2>1. c.pre_lines + 1 - 1 = c.pre_lines
    BY <1>w, <1>1
  <2> HIDE DEF a, n
  <2> QED
    BY <1>11, <1>12, <2>1
<1> HIDE DEF a, b, f, n
<1>14. a = Append(f, l[c.wp]) /\ b = Append(f, x)
  <2>1. l[c.wp] \in Encoded
    BY <1>w, <1>1
  <2>2. ASSUME NEW y \in Encoded, NEW z \in Seq(Encoded), Len(z) = n + 1, z[n + 1] = y,
               \A k \in 1..n : z[k] = a[k]
        PROVE  z = Append(f, y)
    <3> DEFINE g == Append(f, y)
    <3>1. g \in Seq(Encoded) /\ Len(g) = n + 1 /\ g[n + 1] = y /\ \A k \in 1..n : g[k] = a[k]
      BY <1>6, <1>12
    <3> HIDE DEF g
    <3>2. \A k \in 1..Len(z) : z[k] = g[k]
      BY <1>6, <2>2, <3>1
    <3>3. z = g
      BY <2>2, <3>1, <3>2, SameSequence
    <3> QED
      BY <3>3 DEF g
  <2> QED
    BY <1>7, <1>8, <1>10, <1>11, <2>1, <2>2
<1>15. f[1] = l[c.pre_lines] /\ 1 \in 1..Len(f)
  BY <1>12, <1>13
<1>16. /\ f \in Seq(Encoded) /\ 1 \in 1..Len(f) /\ f[1] = l[c.pre_lines]
       /\ Post(c, l) = Append(f, l[c.wp]) /\ Post(d, m) = Append(f, x)
  BY <1>12, <1>14, <1>15 DEF a, b
<1> QED
  BY <1>w, <1>0, <1>2, <1>3, <1>16 DEF LineReplaced
-----------------------------------------------------------------------------
(* A clock more of what is decoded, and of what the ring was given.        *)

LEMMA EndsLast ==
  ASSUME NEW s \in Seq(Values), NEW t \in Seq(Values), EndsIn(t, s), s # <<>>
  PROVE  t # <<>> /\ Last(s) = Last(t)
BY DEF EndsIn, Last

LEMMA CountGrows ==
  ASSUME NEW out \in Seq(Values), out # <<>>, NEW n \in 1..CountMax
  PROVE  /\ Last(DecodeLine(out, Repeat(n))) = Last(out)
         /\ DecodeLine(out, Repeat(1)) = Append(out, Last(out))
         /\ n < CountMax =>
              DecodeLine(out, Repeat(n + 1)) = Append(DecodeLine(out, Repeat(n)), Last(out))
<1>1. ASSUME NEW k \in 1..CountMax
      PROVE  /\ DecodeLine(out, Repeat(k)) \in Seq(Values)
             /\ Len(DecodeLine(out, Repeat(k))) = Len(out) + k
             /\ \A i \in 1..Len(out) : DecodeLine(out, Repeat(k))[i] = out[i]
             /\ \A i \in Len(out) + 1..Len(out) + k : DecodeLine(out, Repeat(k))[i] = out[Len(out)]
  <2>1. Repeat(k) \in Encoded /\ Repeat(k).repeat /\ Repeat(k).count = k
    BY RepeatMeans
  <2>2. /\ DecodeLine(out, Repeat(k)) \in Seq(Values)
        /\ Len(DecodeLine(out, Repeat(k))) = Len(out) + Repeat(k).count
        /\ \A i \in 1..Len(out) : DecodeLine(out, Repeat(k))[i] = out[i]
        /\ \A i \in Len(out) + 1..Len(out) + Repeat(k).count :
             DecodeLine(out, Repeat(k))[i] = out[Len(out)]
    BY <2>1, LineRepeat
  <2> QED
    BY <2>1, <2>2
<1>2. /\ Last(out) = out[Len(out)] /\ Last(out) \in Values /\ Len(out) \in Nat /\ Len(out) >= 1
      /\ CountMax \in Nat /\ 1 \in 1..CountMax /\ n \in Nat
  BY CountMaxAssumption DEF Last
<1>3. Last(DecodeLine(out, Repeat(n))) = Last(out)
  <2> DEFINE o == DecodeLine(out, Repeat(n))
  <2>1. /\ o \in Seq(Values) /\ Len(o) = Len(out) + n
        /\ \A i \in Len(out) + 1..Len(out) + n : o[i] = out[Len(out)]
    BY <1>1
  <2> HIDE DEF o
  <2>2. Last(o) = o[Len(o)] /\ Len(o) \in Len(out) + 1..Len(out) + n
    BY <1>2, <2>1 DEF Last
  <2>3. Last(o) = Last(out)
    BY <1>2, <2>1, <2>2
  <2> QED
    BY <2>3 DEF o
<1>4. DecodeLine(out, Repeat(1)) = Append(out, Last(out))
  <2> DEFINE o == DecodeLine(out, Repeat(1))
             g == Append(out, Last(out))
  <2>1. /\ o \in Seq(Values) /\ Len(o) = Len(out) + 1
        /\ \A i \in 1..Len(out) : o[i] = out[i]
        /\ \A i \in Len(out) + 1..Len(out) + 1 : o[i] = out[Len(out)]
    BY <1>1, <1>2
  <2>2. /\ g \in Seq(Values) /\ Len(g) = Len(out) + 1 /\ g[Len(out) + 1] = Last(out)
        /\ \A i \in 1..Len(out) : g[i] = out[i]
    BY <1>2
  <2> HIDE DEF o, g
  <2>3. \A i \in 1..Len(o) : o[i] = g[i]
    BY <1>2, <2>1, <2>2
  <2>4. o = g
    BY <2>1, <2>2, <2>3, SameSequence
  <2> QED
    BY <2>4 DEF o, g
<1>5. ASSUME n < CountMax
      PROVE  DecodeLine(out, Repeat(n + 1)) = Append(DecodeLine(out, Repeat(n)), Last(out))
  <2> DEFINE o == DecodeLine(out, Repeat(n))
             q == DecodeLine(out, Repeat(n + 1))
             g == Append(o, Last(out))
  <2>1. n + 1 \in 1..CountMax
    BY <1>2, <1>5
  <2>2. /\ o \in Seq(Values) /\ Len(o) = Len(out) + n
        /\ \A i \in 1..Len(out) : o[i] = out[i]
        /\ \A i \in Len(out) + 1..Len(out) + n : o[i] = Last(out)
    BY <1>1, <1>2
  <2>3. /\ q \in Seq(Values) /\ Len(q) = Len(out) + (n + 1)
        /\ \A i \in 1..Len(out) : q[i] = out[i]
        /\ \A i \in Len(out) + 1..Len(out) + (n + 1) : q[i] = Last(out)
    BY <1>1, <1>2, <2>1
  <2> HIDE DEF o, q
  <2>4. /\ g \in Seq(Values) /\ Len(g) = Len(o) + 1 /\ g[Len(o) + 1] = Last(out)
        /\ \A i \in 1..Len(o) : g[i] = o[i]
    BY <1>2, <2>2
  <2> HIDE DEF g
  <2>5. ASSUME NEW i \in 1..Len(q) PROVE q[i] = g[i]
    <3>1. CASE i \in 1..Len(out)
      BY <1>2, <2>2, <2>3, <2>4, <3>1
    <3>2. CASE i \in Len(out) + 1..Len(out) + n
      <4>1. i \in 1..Len(o) /\ i \in Len(out) + 1..Len(out) + (n + 1)
        BY <1>2, <2>2, <3>2
      <4> QED
        BY <2>2, <2>3, <2>4, <3>2, <4>1
    <3>3. CASE i = Len(out) + n + 1
      <4>1. i = Len(o) + 1 /\ i \in Len(out) + 1..Len(out) + (n + 1)
        BY <1>2, <2>2, <3>3
      <4> QED
        BY <2>3, <2>4, <4>1
    <3> QED
      BY <1>2, <2>3, <3>1, <3>2, <3>3
  <2>6. Len(q) = Len(g)
    BY <1>2, <2>2, <2>3, <2>4
  <2>7. q = g
    BY <2>3, <2>4, <2>5, <2>6, SameSequence
  <2> QED
    BY <2>7 DEF o, q, g
<1> QED
  BY <1>3, <1>4, <1>5

LEMMA LatestMeans ==
  ASSUME NEW b \in Seq(Values), NEW v \in Values, Depth >= 2
  PROVE  /\ Latest(Append(b, v)) \in Seq(Values) /\ Latest(Append(b, v)) # <<>>
         /\ Last(Latest(Append(b, v))) = v
<1>1. RingSamples \in Int /\ RingSamples >= 1
  <2>1. CountMax \in Nat /\ Depth - 2 \in Nat
    BY CountMaxAssumption, RleDepthAssumption
  <2>2. \A x, y \in Nat : x * y \in Nat
    OBVIOUS
  <2>3. CountMax * (Depth - 2) \in Nat
    BY <2>1, <2>2
  <2> QED
    BY <2>3 DEF RingSamples
<1> DEFINE t == Append(b, v)
<1>2. t \in Seq(Values) /\ Len(t) = Len(b) + 1 /\ t[Len(t)] = v /\ Len(b) \in Nat
  OBVIOUS
<1> HIDE DEF t
<1>3. CASE Len(t) > RingSamples
  <2>1. /\ Tail(t) \in Seq(Values) /\ Len(Tail(t)) = Len(t) - 1 /\ Len(t) - 1 \in Nat /\ Len(t) - 1 >= 1
        /\ Tail(t)[Len(t) - 1] = t[Len(t)]
    BY <1>1, <1>2, <1>3
  <2>2. Latest(t) = Tail(t)
    BY <1>3 DEF Latest
  <2> QED
    BY <1>2, <2>1, <2>2 DEF Last, t
<1>4. CASE ~(Len(t) > RingSamples)
  <2>1. Latest(t) = t
    BY <1>4 DEF Latest
  <2> QED
    BY <1>2, <2>1 DEF Last, t
<1> QED
  BY <1>3, <1>4

LEMMA RecentStep ==
  ASSUME NEW b \in Seq(Values), NEW d \in Seq(Values), NEW e \in Seq(Values), NEW v \in Values,
         EndsIn(b, d), EndsIn(Append(d, v), e), Len(e) <= RingSamples, RingSamples \in Int
  PROVE  EndsIn(Latest(Append(b, v)), e)
<1> DEFINE t == Append(b, v)
           u == Append(d, v)
<1>1. /\ t \in Seq(Values) /\ Len(t) = Len(b) + 1 /\ t[Len(b) + 1] = v /\ Len(b) \in Nat
      /\ \A i \in 1..Len(b) : t[i] = b[i]
  OBVIOUS
<1>2. /\ u \in Seq(Values) /\ Len(u) = Len(d) + 1 /\ u[Len(d) + 1] = v /\ Len(d) \in Nat
      /\ \A i \in 1..Len(d) : u[i] = d[i]
  OBVIOUS
<1> HIDE DEF t, u
<1>3. Len(d) <= Len(b) /\ \A i \in 1..Len(d) : d[i] = b[Len(b) - Len(d) + i]
  BY DEF EndsIn
<1>4. Len(e) <= Len(u) /\ Len(e) \in Nat /\ \A i \in 1..Len(e) : e[i] = u[Len(u) - Len(e) + i]
  <2>1. EndsIn(u, e)
    BY DEF u
  <2> QED
    BY <2>1 DEF EndsIn
<1>5. ASSUME NEW i \in 1..Len(u) PROVE u[i] = t[Len(t) - Len(u) + i]
  <2>1. CASE i \in 1..Len(d)
    <3>1. Len(t) - Len(u) + i = Len(b) - Len(d) + i /\ Len(b) - Len(d) + i \in 1..Len(b)
      BY <1>1, <1>2, <1>3, <2>1
    <3> QED
      BY <1>1, <1>2, <1>3, <2>1, <3>1
  <2>2. CASE i = Len(d) + 1
    <3>1. Len(t) - Len(u) + i = Len(b) + 1
      BY <1>1, <1>2, <2>2
    <3> QED
      BY <1>1, <1>2, <2>2, <3>1
  <2> QED
    BY <1>2, <2>1, <2>2
<1>6. ASSUME NEW i \in 1..Len(e) PROVE e[i] = t[Len(t) - Len(e) + i]
  <2> DEFINE j == Len(u) - Len(e) + i
  <2>1. j \in 1..Len(u) /\ Len(t) - Len(u) + j = Len(t) - Len(e) + i
    BY <1>1, <1>2, <1>4
  <2>2. e[i] = u[j] /\ u[j] = t[Len(t) - Len(u) + j]
    BY <1>4, <1>5, <2>1
  <2> QED
    BY <2>1, <2>2
<1>7. CASE Len(t) > RingSamples
  <2>1. /\ Tail(t) \in Seq(Values) /\ Len(Tail(t)) = Len(t) - 1
        /\ \A i \in 1..Len(t) - 1 : Tail(t)[i] = t[i + 1]
    BY <1>1
  <2>2. Len(e) <= Len(Tail(t))
    BY <1>1, <1>4, <1>7, <2>1
  <2>3. ASSUME NEW i \in 1..Len(e) PROVE e[i] = Tail(t)[Len(Tail(t)) - Len(e) + i]
    <3>1. /\ Len(Tail(t)) - Len(e) + i \in 1..Len(t) - 1
          /\ Len(Tail(t)) - Len(e) + i + 1 = Len(t) - Len(e) + i
      <4>1. Len(Tail(t)) \in Int /\ Len(t) \in Int /\ Len(e) \in Int /\ i \in Int /\ 1 <= i /\ i <= Len(e)
        BY <1>1, <1>4, <2>1
      <4> QED
        BY <2>1, <2>2, <4>1
    <3> QED
      BY <1>6, <2>1, <3>1
  <2>4. EndsIn(Tail(t), e)
    BY <2>2, <2>3 DEF EndsIn
  <2>5. Latest(t) = Tail(t)
    BY <1>7 DEF Latest
  <2> QED
    BY <2>4, <2>5 DEF t
<1>8. CASE ~(Len(t) > RingSamples)
  <2>1. Latest(t) = t
    BY <1>8 DEF Latest
  <2>2. EndsIn(t, e)
    BY <1>1, <1>2, <1>3, <1>4, <1>6 DEF EndsIn
  <2> QED
    BY <2>1, <2>2 DEF t
<1> QED
  BY <1>7, <1>8

(* As many samples as a ring can hold.                                     *)
LEMMA RingBound ==
  ASSUME NEW s \in Seq(Encoded), s # <<>>, Len(s) < Depth
  PROVE  Len(Decode(s)) <= RingSamples /\ RingSamples \in Int
<1>1. CountMax \in Nat /\ Len(s) - 1 \in Nat /\ Depth - 2 \in Nat /\ Len(s) - 1 <= Depth - 2
  BY CountMaxAssumption, RleDepthAssumption
<1>2. \A k, m, n \in Nat : m <= n => k * m <= k * n /\ k * m \in Nat /\ k * n \in Nat
  <2> SUFFICES ASSUME NEW k \in Nat, NEW m \in Nat, NEW n \in Nat, m <= n
               PROVE  k * m <= k * n /\ k * m \in Nat /\ k * n \in Nat
    OBVIOUS
  <2>1. k * n = k * m + k * (n - m) /\ n - m \in Nat
    OBVIOUS
  <2>2. k * (n - m) \in Nat /\ k * m \in Nat /\ k * n \in Nat
    BY <2>1
  <2> QED
    BY <2>1, <2>2
<1>3. /\ CountMax * (Len(s) - 1) <= CountMax * (Depth - 2)
      /\ CountMax * (Len(s) - 1) \in Nat /\ CountMax * (Depth - 2) \in Nat
  BY <1>1, <1>2
<1>4. Len(Decode(s)) <= 1 + CountMax * (Len(s) - 1) /\ Len(Decode(s)) \in Nat
  BY DecodeLength, DecodeType
<1> QED
  BY <1>3, <1>4 DEF RingSamples
-----------------------------------------------------------------------------
(* A step of the ring: the run at its end, and what it decodes to.         *)

RunFrom(c, l, s) ==
  /\ s \in 1..c.nfilled /\ Ring(c, l)[s] = Sample(c.prev) /\ c.run_sample = Address(c, s)
  /\ \A i \in s + 1..c.nfilled : Ring(c, l)[i].repeat
  /\ c.counting = (s < c.nfilled)
  /\ c.counting => Ring(c, l)[c.nfilled] = Repeat(c.count)

(* Boolean fields, by name.                                                *)
HasCount(c) == c.counting = TRUE
NoCount(c) == c.counting = FALSE

RingWhole(c, l) ==
  /\ Geometry(c) /\ l \in [Lines -> Held]
  /\ \A i \in 1..c.nfilled : Ring(c, l)[i] \in Encoded
  /\ \E s : RunFrom(c, l, s)

(* From one ring to the next, given the sample v.                          *)
Follows(c, l, d, m, v) ==
  /\ RingWhole(d, m) /\ d.prev = v
  /\ EndsIn(Append(Decode(Ring(c, l)), v), Decode(Ring(d, m)))

LEMMA RingDecodes ==
  ASSUME NEW c, NEW l, Geometry(c), l \in [Lines -> Held],
         \A i \in 1..c.nfilled : Ring(c, l)[i] \in Encoded
  PROVE  /\ Ring(c, l) \in Seq(Encoded) /\ Ring(c, l) # <<>> /\ Len(Ring(c, l)) = c.nfilled
         /\ c.nfilled \in Nat /\ c.nfilled > 0 /\ c.nfilled <= c.pre_lines
         /\ c.nfilled < Depth /\ Depth >= 2
         /\ Decode(Ring(c, l)) \in Seq(Values)
<1>1. Ring(c, l) \in Seq(Held) /\ Len(Ring(c, l)) = c.nfilled /\ Ring(c, l) # <<>>
  BY RingType
<1>2. Ring(c, l) \in Seq(Encoded)
  <2> DEFINE r == Ring(c, l)
  <2>1. r \in Seq(Held) /\ \A i \in 1..Len(r) : r[i] \in Encoded
    BY <1>1
  <2> HIDE DEF r
  <2>2. r \in Seq(Encoded)
    BY <2>1
  <2> QED
    BY <2>2 DEF r
<1>3. /\ c.nfilled \in Nat /\ c.nfilled > 0 /\ c.nfilled < Depth /\ Depth >= 2
      /\ c.nfilled <= c.pre_lines
  BY RleDepthAssumption DEF Geometry
<1> QED
  BY <1>1, <1>2, <1>3, DecodeType

LEMMA WholeDecodes ==
  ASSUME NEW c, NEW l, RingWhole(c, l)
  PROVE  Decode(Ring(c, l)) # <<>>
<1>1. PICK s : RunFrom(c, l, s)
  BY DEF RingWhole
<1>2. Ring(c, l) \in Seq(Encoded) /\ Len(Ring(c, l)) = c.nfilled
  BY RingDecodes DEF RingWhole
<1>3. s \in 1..Len(Ring(c, l)) /\ ~Ring(c, l)[s].repeat
  BY <1>1, <1>2, SampleMeans DEF RunFrom
<1> QED
  BY <1>2, <1>3, DecodeSome

LEMMA RingFirst ==
  ASSUME NEW d, NEW l \in [Lines -> Held], NEW v \in Values,
         d.pre_lines \in Lines, d.pre_lines > 0, d.nfilled = 1, d.head = 0, d.wp = 0,
         d.run_sample = 0, d.prev = v, NoCount(d),
         NEW m, Written(l, 0, Sample(v), m)
  PROVE  RingWhole(d, m) /\ m \in [Lines -> Held] /\ Decode(Ring(d, m)) = <<v>>
<1>1. d.pre_lines \in Nat /\ d.pre_lines < Depth /\ 0 \in Lines
  BY RleDepthAssumption DEF Lines
<1>2. Geometry(d)
  BY <1>1 DEF Geometry, After
<1>3. Sample(v) \in Encoded /\ ~Sample(v).repeat /\ Sample(v).value = v
  BY SampleMeans
<1>4. m \in [Lines -> Held] /\ m[0] = Sample(v)
  <2>1. Sample(v) \in Held
    BY <1>3 DEF Held
  <2> QED
    BY <1>1, <2>1, WrittenMeans
<1>5. Address(d, 1) = 0
  BY <1>2, Addresses
<1>6. Ring(d, m) \in Seq(Held) /\ Len(Ring(d, m)) = 1 /\ Ring(d, m)[1] = Sample(v)
  <2>1. /\ Ring(d, m) \in Seq(Held) /\ Len(Ring(d, m)) = d.nfilled
        /\ \A i \in 1..d.nfilled : Ring(d, m)[i] = m[Address(d, i)]
    BY <1>2, <1>4, RingType
  <2>2. 1 \in 1..d.nfilled
    OBVIOUS
  <2> QED
    BY <1>4, <1>5, <2>1, <2>2
<1>7. Ring(d, m) = <<Sample(v)>>
  BY <1>6
<1>8. RunFrom(d, m, 1)
  <2>1. 1 \in 1..d.nfilled /\ 1 + 1..d.nfilled = {} /\ (1 < d.nfilled) = FALSE
    OBVIOUS
  <2>2. d.counting = FALSE
    BY DEF NoCount
  <2> QED
    BY <1>5, <1>6, <2>1, <2>2 DEF RunFrom
<1>9. RingWhole(d, m)
  BY <1>2, <1>3, <1>4, <1>6, <1>8 DEF RingWhole
<1>10. Decode(<<Sample(v)>>) = <<v>>
  <2>1. <<>> \in Seq(Encoded) /\ <<>> \in Seq(Values) /\ <<Sample(v)>> = Append(<<>>, Sample(v))
    OBVIOUS
  <2>2. Decode(Append(<<>>, Sample(v))) = DecodeLine(<<>>, Sample(v))
    BY <2>1, DecodeAppend, DecodeEmpty
  <2>3. DecodeLine(<<>>, Sample(v)) = Append(<<>>, v)
    BY <1>3, <2>1, LineSample
  <2> QED
    BY <2>1, <2>2, <2>3
<1> QED
  BY <1>4, <1>7, <1>9, <1>10

(* One more of a run that is being counted.                                *)
LEMMA RingExtends ==
  ASSUME NEW c, NEW d, NEW l, RingWhole(c, l), c.counting, c.count # CountMax,
         d.pre_lines = c.pre_lines, d.head = c.head, d.nfilled = c.nfilled, d.wp = c.wp,
         d.prev = c.prev, d.run_sample = c.run_sample, d.counting = c.counting,
         d.count = c.count + 1, Last(Decode(Ring(c, l))) = c.prev,
         NEW m, Written(l, c.wp, Repeat(c.count + 1), m)
  PROVE  Follows(c, l, d, m, c.prev) /\ m \in [Lines -> Held]
<1> DEFINE x == Repeat(c.count + 1)
           f == SubSeq(Ring(c, l), 1, c.nfilled - 1)
<1>1. Geometry(c) /\ l \in [Lines -> Held] /\ \A i \in 1..c.nfilled : Ring(c, l)[i] \in Encoded
  BY DEF RingWhole
<1>2. PICK s : RunFrom(c, l, s)
  BY DEF RingWhole
<1>3. /\ Ring(c, l) \in Seq(Encoded) /\ Len(Ring(c, l)) = c.nfilled
      /\ c.nfilled \in Nat /\ c.nfilled > 0
  BY <1>1, RingDecodes
<1>4. /\ s \in 1..c.nfilled /\ s < c.nfilled /\ Ring(c, l)[s] = Sample(c.prev)
      /\ Ring(c, l)[c.nfilled] = Repeat(c.count) /\ c.counting = TRUE
  BY <1>2 DEF RunFrom
<1>5. c.count \in 1..CountMax /\ c.count < CountMax /\ c.count + 1 \in 1..CountMax
  <2>1. Repeat(c.count) \in Encoded
    BY <1>1, <1>3, <1>4
  <2>2. Repeat(c.count).repeat /\ Repeat(c.count).count = c.count
    BY RepeatMeans
  <2>3. c.count \in 1..CountMax
    BY <2>1, <2>2, EncodedMeans
  <2> QED
    BY <2>3, CountMaxAssumption
<1>6. x \in Encoded /\ x \in Held /\ x.repeat
  BY <1>5, RepeatMeans DEF Held
<1>w. Written(l, c.wp, x, m)
  OBVIOUS
<1> HIDE DEF x
<1>7. /\ m \in [Lines -> Held] /\ Geometry(d)
      /\ f \in Seq(Held) /\ Len(f) = c.nfilled - 1
      /\ Ring(c, l) = Append(f, Repeat(c.count))
      /\ Ring(d, m) = Append(f, x)
  <2>1. /\ m \in [Lines -> Held] /\ Geometry(d)
        /\ f \in Seq(Held) /\ Len(f) = c.nfilled - 1
        /\ Ring(c, l) = Append(f, Ring(c, l)[c.nfilled])
        /\ Ring(d, m) = Append(f, x)
    BY <1>1, <1>6, <1>w, RingOverwritten
  <2> HIDE DEF f
  <2> QED
    BY <1>4, <2>1
<1>8. f \in Seq(Encoded) /\ \A i \in 1..Len(f) : f[i] = Ring(c, l)[i]
  BY <1>3
<1> HIDE DEF f
<1>9. /\ Ring(d, m) \in Seq(Encoded) /\ Len(Ring(d, m)) = c.nfilled
      /\ \A i \in 1..c.nfilled - 1 : Ring(d, m)[i] = Ring(c, l)[i]
      /\ Ring(d, m)[c.nfilled] = x
  <2>1. /\ Append(f, x) \in Seq(Encoded) /\ Len(Append(f, x)) = c.nfilled
        /\ \A i \in 1..c.nfilled - 1 : Append(f, x)[i] = f[i]
        /\ Append(f, x)[c.nfilled] = x
    BY <1>3, <1>6, <1>7, <1>8
  <2> QED
    BY <1>7, <1>8, <2>1
<1>10. RunFrom(d, m, s)
  <2>1. Address(d, s) = Address(c, s)
    BY DEF Address
  <2>2. s \in 1..c.nfilled - 1 /\ Ring(d, m)[s] = Sample(d.prev)
    BY <1>3, <1>4, <1>9
  <2>3. ASSUME NEW i \in s + 1..d.nfilled PROVE Ring(d, m)[i].repeat
    <3>1. i \in s + 1..c.nfilled /\ (i = c.nfilled \/ i \in 1..c.nfilled - 1)
      BY <1>3, <1>4
    <3> QED
      BY <1>2, <1>6, <1>9, <3>1 DEF RunFrom, HasCount, NoCount
  <2>4. d.run_sample = Address(d, s)
    BY <1>2, <2>1 DEF RunFrom
  <2>5. d.counting = (s < d.nfilled) /\ Ring(d, m)[d.nfilled] = Repeat(d.count)
    BY <1>4, <1>9 DEF x
  <2> QED
    BY <1>4, <2>2, <2>3, <2>4, <2>5 DEF RunFrom
<1>11. \A i \in 1..d.nfilled : Ring(d, m)[i] \in Encoded
  BY <1>9
<1>12. Decode(Ring(d, m)) = Append(Decode(Ring(c, l)), c.prev)
  <2> DEFINE o == Decode(f)
  <2>1. o \in Seq(Values) /\ o # <<>>
    <3>1. s \in 1..Len(f) /\ ~f[s].repeat
      BY <1>3, <1>4, <1>7, <1>8, SampleMeans
    <3> QED
      BY <1>8, <3>1, DecodeType, DecodeSome
  <2>2. Decode(Ring(c, l)) = DecodeLine(o, Repeat(c.count)) /\ Decode(Ring(d, m)) = DecodeLine(o, x)
    BY <1>7, <1>8, DecodeAppend
  <2> HIDE DEF o
  <2>3. /\ DecodeLine(o, x) = Append(DecodeLine(o, Repeat(c.count)), Last(o))
        /\ Last(DecodeLine(o, Repeat(c.count))) = Last(o)
    BY <1>5, <2>1, CountGrows DEF x
  <2> QED
    BY <2>2, <2>3
<1>13. EndsIn(Append(Decode(Ring(c, l)), c.prev), Decode(Ring(d, m)))
  <2>1. Decode(Ring(d, m)) \in Seq(Values)
    BY <1>9, DecodeType
  <2>2. EndsIn(Decode(Ring(d, m)), Decode(Ring(d, m)))
    BY <2>1 DEF EndsIn
  <2> QED
    BY <1>12, <2>2
<1>14. Follows(c, l, d, m, c.prev)
  BY <1>7, <1>10, <1>11, <1>13 DEF Follows, RingWhole
<1> QED
  BY <1>7, <1>14 DEF x

(* An entry appended, a sample or a count of one.                          *)
LEMMA RingAdvances ==
  ASSUME NEW c, NEW d, NEW l, RingWhole(c, l), Advanced(c, d), NEW x \in Encoded, NEW v \in Values,
         DecodeLine(Decode(Ring(c, l)), x) = Append(Decode(Ring(c, l)), v),
         NEW m, Written(l, After(c), x, m)
  PROVE  /\ m \in [Lines -> Held] /\ Geometry(d)
         /\ \A i \in 1..d.nfilled : Ring(d, m)[i] \in Encoded
         /\ Ring(d, m)[d.nfilled] = x
         /\ IF c.nfilled < c.pre_lines
            THEN \A i \in 1..c.nfilled : Ring(d, m)[i] = Ring(c, l)[i]
            ELSE \A i \in 1..c.nfilled - 1 : Ring(d, m)[i] = Ring(c, l)[i + 1]
         /\ EndsIn(Append(Decode(Ring(c, l)), v), Decode(Ring(d, m)))
<1> DEFINE r == Ring(c, l)
           t == IF c.nfilled < c.pre_lines THEN r ELSE Tail(r)
<1>1. Geometry(c) /\ l \in [Lines -> Held] /\ \A i \in 1..c.nfilled : Ring(c, l)[i] \in Encoded
  BY DEF RingWhole
<1>2. /\ r \in Seq(Encoded) /\ r # <<>> /\ Len(r) = c.nfilled
      /\ c.nfilled \in Nat /\ c.nfilled > 0 /\ Decode(r) \in Seq(Values)
      /\ c.nfilled <= c.pre_lines /\ c.pre_lines \in Nat
  BY <1>1, RingDecodes DEF Geometry
<1>3. x \in Held
  BY DEF Held
<1>4. Geometry(d) /\ d.nfilled = IF c.nfilled < c.pre_lines THEN c.nfilled + 1 ELSE c.nfilled
  BY <1>1, AdvancedGeometry DEF Advanced, Geometry
<1>5. m \in [Lines -> Held] /\ Ring(d, m) = Append(t, x)
  <2>1. /\ m \in [Lines -> Held]
        /\ c.nfilled < c.pre_lines => Ring(d, m) = Append(r, x)
        /\ c.nfilled >= c.pre_lines => Ring(d, m) = Append(Tail(r), x)
    BY <1>1, <1>3, RingAppends
  <2> HIDE DEF r
  <2> QED
    BY <1>2, <2>1
<1> HIDE DEF r
<1>6. t \in Seq(Encoded) /\ Len(t) = d.nfilled - 1 /\ d.nfilled \in Nat /\ d.nfilled > 0
  BY <1>2, <1>4
<1>7. EndsIn(Decode(r), Decode(t))
  <2>1. EndsIn(Decode(r), Decode(r))
    BY <1>2 DEF EndsIn
  <2>2. EndsIn(Decode(r), Decode(Tail(r)))
    BY <1>2, DecodeTail
  <2> QED
    BY <2>1, <2>2
<1>8. \A i \in 1..d.nfilled - 1 : t[i] = IF c.nfilled < c.pre_lines THEN r[i] ELSE r[i + 1]
  BY <1>2, <1>4
<1> HIDE DEF t
<1>9. /\ Append(t, x) \in Seq(Encoded) /\ Len(Append(t, x)) = d.nfilled
      /\ \A i \in 1..d.nfilled - 1 : Append(t, x)[i] = t[i]
      /\ Append(t, x)[d.nfilled] = x
  BY <1>6
<1>10. EndsIn(DecodeLine(Decode(r), x), DecodeLine(Decode(t), x))
  BY <1>2, <1>6, <1>7, DecodeType, LineEnds
<1>11. Decode(Append(t, x)) = DecodeLine(Decode(t), x)
  BY <1>6, DecodeAppend
<1>12. EndsIn(Append(Decode(r), v), Decode(Ring(d, m)))
  BY <1>5, <1>10, <1>11 DEF r
<1>13. IF c.nfilled < c.pre_lines
       THEN \A i \in 1..c.nfilled : Ring(d, m)[i] = r[i]
       ELSE \A i \in 1..c.nfilled - 1 : Ring(d, m)[i] = r[i + 1]
  BY <1>2, <1>4, <1>5, <1>8, <1>9
<1>14. Ring(d, m)[d.nfilled] = x /\ \A i \in 1..d.nfilled : Ring(d, m)[i] \in Encoded
  BY <1>5, <1>6, <1>9
<1> QED
  BY <1>4, <1>5, <1>12, <1>13, <1>14 DEF r

(* A run whose count is full, or that has none, takes a line of its own:   *)
(* never the line of the run's sample.                                     *)
LEMMA RingSpills ==
  ASSUME NEW c, NEW d, NEW l, RingWhole(c, l), Advanced(c, d), After(c) # c.run_sample,
         c.prev \in Values, d.prev = c.prev, d.run_sample = c.run_sample,
         HasCount(d), d.count = 1, Last(Decode(Ring(c, l))) = c.prev,
         NEW m, Written(l, After(c), Repeat(1), m)
  PROVE  Follows(c, l, d, m, c.prev) /\ m \in [Lines -> Held]
<1> DEFINE x == Repeat(1)
<1>1. Geometry(c) /\ l \in [Lines -> Held] /\ \A i \in 1..c.nfilled : Ring(c, l)[i] \in Encoded
  BY DEF RingWhole
<1>2. PICK s : RunFrom(c, l, s)
  BY DEF RingWhole
<1>3. x \in Encoded /\ x.repeat
  BY RepeatMeans, CountMaxAssumption
<1>4. DecodeLine(Decode(Ring(c, l)), x) = Append(Decode(Ring(c, l)), c.prev)
  <2>1. Decode(Ring(c, l)) \in Seq(Values) /\ Decode(Ring(c, l)) # <<>> /\ 1 \in 1..CountMax
    BY <1>1, RingDecodes, WholeDecodes, CountMaxAssumption
  <2> QED
    BY <2>1, CountGrows
<1>x. x = Repeat(1)
  OBVIOUS
<1>w. Written(l, After(c), x, m)
  OBVIOUS
<1> HIDE DEF x
<1>5. /\ m \in [Lines -> Held] /\ Geometry(d)
      /\ \A i \in 1..d.nfilled : Ring(d, m)[i] \in Encoded
      /\ Ring(d, m)[d.nfilled] = x
      /\ IF c.nfilled < c.pre_lines
         THEN \A i \in 1..c.nfilled : Ring(d, m)[i] = Ring(c, l)[i]
         ELSE \A i \in 1..c.nfilled - 1 : Ring(d, m)[i] = Ring(c, l)[i + 1]
      /\ EndsIn(Append(Decode(Ring(c, l)), c.prev), Decode(Ring(d, m)))
  BY <1>3, <1>4, <1>w, RingAdvances
<1>6. /\ s \in 1..c.nfilled /\ Ring(c, l)[s] = Sample(c.prev) /\ c.run_sample = Address(c, s)
      /\ \A i \in s + 1..c.nfilled : Ring(c, l)[i].repeat
  BY <1>2 DEF RunFrom
<1>7. c.nfilled \in Nat /\ c.nfilled > 0 /\ c.nfilled <= c.pre_lines /\ c.pre_lines \in Nat
  BY <1>1 DEF Geometry
<1>8. \E q : RunFrom(d, m, q)
  <2>1. CASE c.nfilled < c.pre_lines
    <3>1. d.nfilled = c.nfilled + 1 /\ Address(d, s) = Address(c, s)
      BY <1>1, <1>6, <2>1, AdvancedGeometry
    <3>2. ASSUME NEW i \in s + 1..d.nfilled PROVE Ring(d, m)[i].repeat
      <4>1. i = d.nfilled \/ (i \in s + 1..c.nfilled /\ i \in 1..c.nfilled)
        BY <1>6, <1>7, <3>1
      <4> QED
        BY <1>3, <1>5, <1>6, <2>1, <4>1
    <3>3. s \in 1..d.nfilled /\ (s < d.nfilled) = TRUE
      BY <1>6, <1>7, <3>1
    <3>4. Ring(d, m)[s] = Sample(d.prev) /\ d.run_sample = Address(d, s)
      BY <1>5, <1>6, <2>1, <3>1
    <3>5. RunFrom(d, m, s)
      BY <1>x, <1>5, <3>2, <3>3, <3>4 DEF RunFrom, HasCount, NoCount
    <3> QED
      BY <3>5
  <2>2. CASE ~(c.nfilled < c.pre_lines)
    <3>0. c.nfilled >= c.pre_lines
      BY <1>7, <2>2
    <3>1. s # 1
      <4>1. After(c) = Address(c, 1)
        BY <1>1, <3>0, Addresses
      <4> QED
        BY <1>6, <4>1
    <3> DEFINE q == s - 1
    <3>2. q \in 1..c.nfilled - 1 /\ q + 1 = s
      BY <1>6, <1>7, <3>1
    <3>3. d.nfilled = c.nfilled /\ Address(d, q) = Address(c, s)
      BY <1>1, <3>0, <3>2, AdvancedGeometry
    <3>4. Ring(d, m)[q] = Sample(d.prev) /\ d.run_sample = Address(d, q)
      BY <1>5, <1>6, <2>2, <3>2, <3>3
    <3>5. ASSUME NEW i \in q + 1..d.nfilled PROVE Ring(d, m)[i].repeat
      <4>1. i = d.nfilled \/ (i \in 1..c.nfilled - 1 /\ i + 1 \in s + 1..c.nfilled)
        BY <1>6, <1>7, <3>2, <3>3
      <4> QED
        BY <1>3, <1>5, <1>6, <2>2, <4>1
    <3>6. q \in 1..d.nfilled /\ (q < d.nfilled) = TRUE
      BY <1>6, <1>7, <3>2, <3>3
    <3> HIDE DEF q
    <3>7. RunFrom(d, m, q)
      BY <1>x, <1>5, <3>4, <3>5, <3>6 DEF RunFrom, HasCount, NoCount
    <3> QED
      BY <3>7
  <2> QED
    BY <2>1, <2>2
<1>9. Follows(c, l, d, m, c.prev)
  BY <1>5, <1>8 DEF Follows, RingWhole
<1> QED
  BY <1>5, <1>9 DEF x

(* Another value starts a run of its own.                                  *)
LEMMA RingDistinct ==
  ASSUME NEW c, NEW d, NEW l, RingWhole(c, l), Advanced(c, d), NEW v \in Values,
         d.prev = v, d.run_sample = After(c), NoCount(d),
         NEW m, Written(l, After(c), Sample(v), m)
  PROVE  Follows(c, l, d, m, v) /\ m \in [Lines -> Held]
<1> DEFINE x == Sample(v)
<1>1. Geometry(c) /\ l \in [Lines -> Held] /\ \A i \in 1..c.nfilled : Ring(c, l)[i] \in Encoded
  BY DEF RingWhole
<1>3. x \in Encoded /\ ~x.repeat /\ x.value = v
  BY SampleMeans
<1>4. DecodeLine(Decode(Ring(c, l)), x) = Append(Decode(Ring(c, l)), v)
  BY <1>1, <1>3, RingDecodes, LineSample
<1>w. Written(l, After(c), x, m)
  OBVIOUS
<1> HIDE DEF x
<1>5. /\ m \in [Lines -> Held] /\ Geometry(d)
      /\ \A i \in 1..d.nfilled : Ring(d, m)[i] \in Encoded
      /\ Ring(d, m)[d.nfilled] = x
      /\ EndsIn(Append(Decode(Ring(c, l)), v), Decode(Ring(d, m)))
  BY <1>3, <1>4, <1>w, RingAdvances
<1>6. d.nfilled \in Nat /\ d.nfilled > 0
  BY <1>5 DEF Geometry
<1>7. Address(d, d.nfilled) = After(c)
  BY <1>1, AdvancedGeometry DEF Geometry
<1>8. RunFrom(d, m, d.nfilled)
  <2>1. d.nfilled \in 1..d.nfilled /\ d.nfilled + 1..d.nfilled = {} /\ (d.nfilled < d.nfilled) = FALSE
    BY <1>6
  <2>2. d.counting = FALSE
    BY DEF NoCount
  <2> QED
    BY <1>5, <1>7, <2>1, <2>2 DEF RunFrom, x
<1>9. Follows(c, l, d, m, v)
  BY <1>5, <1>8 DEF Follows, RingWhole
<1> QED
  BY <1>5, <1>9 DEF x
-----------------------------------------------------------------------------
(* The core, clock by clock, while it is armed.                            *)

LEMMA RegisterTypes ==
  ASSUME NEW c \in Registers
  PROVE  /\ c.state \in States /\ c.triggered \in BOOLEAN /\ c.prev \in Values /\ c.counting \in BOOLEAN
         /\ c.count \in Nat /\ c.count <= CountMax /\ c.cycles \in Nat
         /\ c.pre_lines \in Lines /\ c.pre_lines \in Nat /\ c.pre_lines < Depth
         /\ c.wp \in Lines /\ c.wp \in Nat /\ c.wp < Depth
         /\ c.head \in Lines /\ c.head \in Nat /\ c.head < Depth
         /\ c.nfilled \in Lines /\ c.nfilled \in Nat /\ c.nfilled < Depth
         /\ c.run_sample \in Lines
BY RleDepthAssumption, CountMaxAssumption DEF Registers, Lines

Spilled(c, a, n, h, k, d) ==
  d = [[c EXCEPT !.wp = a, !.nfilled = n, !.head = h] EXCEPT !.counting = TRUE, !.count = k]
Started(c, a, n, h, v, d) ==
  d = [[c EXCEPT !.wp = a, !.nfilled = n, !.head = h]
         EXCEPT !.prev = v, !.counting = FALSE, !.run_sample = a]

LEMMA SpillRegisters ==
  ASSUME NEW c \in Registers, NEW a \in Lines, NEW n \in Lines, NEW h \in Lines, NEW k \in 0..CountMax,
         NEW d, Spilled(c, a, n, h, k, d)
  PROVE  /\ d \in Registers
         /\ d.state = c.state /\ d.triggered = c.triggered /\ d.pre_lines = c.pre_lines
         /\ d.prev = c.prev /\ d.run_sample = c.run_sample /\ d.cycles = c.cycles
         /\ d.wp = a /\ d.nfilled = n /\ d.head = h /\ HasCount(d) /\ d.count = k
BY DEF Registers, HasCount, NoCount, Spilled

LEMMA DistinctRegisters ==
  ASSUME NEW c \in Registers, NEW a \in Lines, NEW n \in Lines, NEW h \in Lines, NEW v \in Values,
         NEW d, Started(c, a, n, h, v, d)
  PROVE  /\ d \in Registers
         /\ d.state = c.state /\ d.triggered = c.triggered /\ d.pre_lines = c.pre_lines
         /\ d.prev = v /\ d.run_sample = a /\ d.cycles = c.cycles
         /\ d.wp = a /\ d.nfilled = n /\ d.head = h /\ NoCount(d) /\ d.count = c.count
BY DEF Registers, HasCount, NoCount, Started

(* The ring part of the invariant, of any registers and any buffer.        *)
RingFacts(c, l, b) ==
  /\ c.nfilled <= c.pre_lines
  /\ c.nfilled > 0 => /\ c.head < c.pre_lines
                      /\ \A i \in 1..c.nfilled : Ring(c, l)[i] \in Encoded
                      /\ Decode(Ring(c, l)) \in Seq(Values)
                      /\ Decode(Ring(c, l)) # <<>> /\ EndsIn(b, Decode(Ring(c, l)))
  /\ c.nfilled = 0 => Decode(Ring(c, l)) = <<>>
  /\ c.state = "ARMED" /\ c.nfilled > 0 => RingWhole(c, l) /\ b # <<>> /\ Last(b) = c.prev

LEMMA EmptyRing ==
  ASSUME NEW c, NEW l, c.nfilled = 0
  PROVE  Ring(c, l) = <<>> /\ Decode(Ring(c, l)) = <<>>
<1>1. Ring(c, l) = <<>>
  BY DEF Ring
<1> QED
  BY <1>1, DecodeEmpty

LEMMA EncodedRing ==
  ASSUME NEW c \in Registers, NEW l, \A i \in 1..c.nfilled : Ring(c, l)[i] \in Encoded
  PROVE  Ring(c, l) \in Seq(Encoded) /\ Len(Ring(c, l)) = c.nfilled
<1>1. c.nfilled \in Nat
  BY RegisterTypes
<1>2. \A i \in 1..c.nfilled : Ring(c, l)[i] = l[Address(c, i)]
  BY DEF Ring
<1>3. \A i \in 1..c.nfilled : l[Address(c, i)] \in Encoded
  BY <1>2
<1> QED
  BY <1>1, <1>3 DEF Ring

LEMMA RingHas ==
  ASSUME TypeOK, RingInStep, RingIsRecent
  PROVE  RingFacts(core, line, before) /\ RingLines = Ring(core, line)
<1>1. RingLines = Ring(core, line)
  BY DEF RingLines, Ring, Address
<1>2. core \in Registers /\ line \in [Lines -> Held] /\ before \in Seq(Values)
  BY DEF TypeOK, Held
<1>3. \A i \in 1..core.nfilled : Ring(core, line)[i] \in Encoded
  BY <1>1 DEF RingInStep
<1>4. Ring(core, line) \in Seq(Encoded) /\ Decode(Ring(core, line)) \in Seq(Values)
  BY <1>2, <1>3, EncodedRing, DecodeType
<1>5. core.nfilled > 0 => Decode(Ring(core, line)) # <<>> /\ EndsIn(before, Decode(Ring(core, line)))
  BY <1>1, <1>2, <1>4, SuffixMeans DEF RingIsRecent
<1>6. core.nfilled = 0 => Decode(Ring(core, line)) = <<>>
  BY EmptyRing
<1>7. ASSUME core.state = "ARMED", core.nfilled > 0
      PROVE  RingWhole(core, line) /\ before # <<>> /\ Last(before) = core.prev
  <2>1. /\ core.wp < core.pre_lines /\ core.nfilled <= core.pre_lines /\ core.head < core.pre_lines
        /\ IF Full THEN core.head = RingNext ELSE core.head = 0 /\ core.wp = core.nfilled - 1
        /\ before # <<>> /\ Last(before) = core.prev
    BY <1>7 DEF RingInStep
  <2>2. Geometry(core)
    BY <1>2, <1>7, <2>1, RegisterTypes DEF Geometry, After, Full, RingNext
  <2>3. PICK s \in 1..core.nfilled :
          /\ RingLines[s] = Sample(core.prev)
          /\ core.run_sample = (core.head + s - 1) % core.pre_lines
          /\ \A i \in s + 1..core.nfilled : RingLines[i].repeat
          /\ core.counting = (s < core.nfilled)
          /\ core.counting => RingLines[core.nfilled] = Repeat(core.count)
    BY <1>7 DEF RingInStep
  <2>4. RunFrom(core, line, s)
    BY <1>1, <2>3 DEF RunFrom, Address
  <2> QED
    BY <1>2, <1>3, <2>1, <2>2, <2>4 DEF RingWhole
<1>8. core.nfilled <= core.pre_lines /\ (core.nfilled > 0 => core.head < core.pre_lines)
  BY DEF RingInStep
<1> QED
  BY <1>1, <1>3, <1>4, <1>5, <1>6, <1>7, <1>8 DEF RingFacts

LEMMA RingKeeps ==
  ASSUME TypeOK', RingFacts(core', line', before')
  PROVE  RingInStep' /\ RingIsRecent' /\ RingLines' = Ring(core', line')
<1>1. RingLines' = Ring(core', line')
  BY DEF RingLines, Ring, Address
<1>2. core' \in Registers /\ line' \in [Lines -> Held] /\ before' \in Seq(Values)
  BY DEF TypeOK, Held
<1>3. core'.nfilled \in Nat /\ core'.pre_lines \in Nat
  BY <1>2, RegisterTypes
<1>4. \A i \in 1..core'.nfilled : Ring(core', line')[i] \in Encoded
  BY <1>3 DEF RingFacts
<1>5. RingIsRecent'
  BY <1>1, <1>2, SuffixMeans DEF RingIsRecent, RingFacts
<1>6. ASSUME core'.state = "ARMED", core'.nfilled > 0
      PROVE  /\ core'.wp < core'.pre_lines
             /\ IF Full' THEN core'.head = RingNext' ELSE core'.head = 0 /\ core'.wp = core'.nfilled - 1
             /\ before' # <<>> /\ Last(before') = core'.prev
             /\ \E s \in 1..core'.nfilled :
                  /\ RingLines'[s] = Sample(core'.prev)
                  /\ core'.run_sample = (core'.head + s - 1) % core'.pre_lines
                  /\ \A i \in s + 1..core'.nfilled : RingLines'[i].repeat
                  /\ core'.counting = (s < core'.nfilled)
                  /\ core'.counting => RingLines'[core'.nfilled] = Repeat(core'.count)
  <2>1. RingWhole(core', line') /\ before' # <<>> /\ Last(before') = core'.prev
    BY <1>6 DEF RingFacts
  <2>2. PICK s : RunFrom(core', line', s)
    BY <2>1 DEF RingWhole
  <2>3. /\ s \in 1..core'.nfilled
        /\ RingLines'[s] = Sample(core'.prev)
        /\ core'.run_sample = (core'.head + s - 1) % core'.pre_lines
        /\ \A i \in s + 1..core'.nfilled : RingLines'[i].repeat
        /\ core'.counting = (s < core'.nfilled)
        /\ core'.counting => RingLines'[core'.nfilled] = Repeat(core'.count)
    BY <1>1, <2>2 DEF RunFrom, Address
  <2>4. /\ core'.wp < core'.pre_lines
        /\ IF Full' THEN core'.head = RingNext' ELSE core'.head = 0 /\ core'.wp = core'.nfilled - 1
    BY <2>1 DEF RingWhole, Geometry, After, Full, RingNext
  <2> QED
    BY <2>1, <2>3, <2>4
<1>7. core'.nfilled <= core'.pre_lines /\ (core'.nfilled > 0 => core'.head < core'.pre_lines)
  BY DEF RingFacts
<1>8. RingInStep'
  BY <1>1, <1>4, <1>6, <1>7 DEF RingInStep
<1> QED
  BY <1>1, <1>5, <1>8

LEMMA FollowsFacts ==
  ASSUME NEW c \in Registers, NEW d \in Registers, NEW l, NEW m, NEW b \in Seq(Values),
         NEW v \in Values, RingFacts(c, l, b), c.nfilled > 0, Follows(c, l, d, m, v)
  PROVE  /\ RingFacts(d, m, Latest(Append(b, v))) /\ Latest(Append(b, v)) \in Seq(Values)
         /\ d.nfilled > 0
<1>1. /\ Geometry(d) /\ m \in [Lines -> Held] /\ RingWhole(d, m) /\ d.prev = v
      /\ \A i \in 1..d.nfilled : Ring(d, m)[i] \in Encoded
      /\ EndsIn(Append(Decode(Ring(c, l)), v), Decode(Ring(d, m)))
  BY DEF Follows, RingWhole
<1>2. /\ Ring(d, m) \in Seq(Encoded) /\ Ring(d, m) # <<>> /\ Len(Ring(d, m)) = d.nfilled
      /\ d.nfilled \in Nat /\ d.nfilled > 0 /\ d.nfilled <= d.pre_lines
      /\ d.nfilled < Depth /\ Depth >= 2
      /\ Decode(Ring(d, m)) \in Seq(Values)
  BY <1>1, RingDecodes
<1>3. Decode(Ring(d, m)) # <<>>
  BY <1>1, WholeDecodes
<1>4. Len(Decode(Ring(d, m))) <= RingSamples /\ RingSamples \in Int
  BY <1>2, RingBound
<1>5. Decode(Ring(c, l)) \in Seq(Values) /\ EndsIn(b, Decode(Ring(c, l)))
  BY DEF RingFacts
<1>6. EndsIn(Latest(Append(b, v)), Decode(Ring(d, m)))
  BY <1>1, <1>2, <1>4, <1>5, RecentStep
<1>7. /\ Latest(Append(b, v)) \in Seq(Values) /\ Latest(Append(b, v)) # <<>>
      /\ Last(Latest(Append(b, v))) = v
  BY <1>2, LatestMeans
<1>8. d.head < d.pre_lines
  BY <1>1 DEF Geometry
<1> QED
  BY <1>1, <1>2, <1>3, <1>6, <1>7, <1>8 DEF RingFacts

(* What a clock of an armed core does, whichever it is.                    *)
ArmedOutcome(c, l, b, d, m, e, v) ==
  /\ d \in Registers /\ m \in [Lines -> Held] /\ e \in Seq(Values)
  /\ d.state = "ARMED" /\ d.triggered = c.triggered /\ d.pre_lines = c.pre_lines
  /\ RingFacts(d, m, e)
  /\ d.nfilled > 0 => d.prev = v
  /\ \/ d.nfilled = 0
     \/ c.nfilled = 0 /\ c.nfilled < c.pre_lines
     \/ c.nfilled > 0 /\ EndsIn(Append(Decode(Ring(c, l)), v), Decode(Ring(d, m)))
     \/ /\ c.nfilled > 0 /\ v = c.prev
        /\ \A i \in 1..Len(Decode(Ring(d, m))) : Decode(Ring(d, m))[i] = v

LEMMA FollowsOutcome ==
  ASSUME NEW c \in Registers, NEW d \in Registers, NEW l, NEW m, NEW b \in Seq(Values),
         NEW v \in Values, RingFacts(c, l, b), c.nfilled > 0, Follows(c, l, d, m, v),
         m \in [Lines -> Held], d.state = "ARMED", d.triggered = c.triggered,
         d.pre_lines = c.pre_lines
  PROVE  ArmedOutcome(c, l, b, d, m, Latest(Append(b, v)), v)
<1>1. /\ RingFacts(d, m, Latest(Append(b, v))) /\ Latest(Append(b, v)) \in Seq(Values)
      /\ d.nfilled > 0
  BY FollowsFacts
<1>2. d.prev = v /\ EndsIn(Append(Decode(Ring(c, l)), v), Decode(Ring(d, m)))
  BY DEF Follows
<1> QED
  BY <1>1, <1>2 DEF ArmedOutcome

LEMMA RunIsLast ==
  ASSUME NEW c, NEW l, NEW b \in Seq(Values), RingFacts(c, l, b), c.state = "ARMED", c.nfilled > 0
  PROVE  RingWhole(c, l) /\ Geometry(c) /\ Last(Decode(Ring(c, l))) = c.prev
<1>1. /\ RingWhole(c, l) /\ Decode(Ring(c, l)) \in Seq(Values) /\ Decode(Ring(c, l)) # <<>>
      /\ EndsIn(b, Decode(Ring(c, l))) /\ Last(b) = c.prev
  BY DEF RingFacts
<1> QED
  BY <1>1, EndsLast DEF RingWhole

(* Samples the ring is given, in an armed clock.                           *)
LEMMA ArmedTrack ==
  ASSUME NEW v, TrackSamples(v), core.state = "ARMED", core'.state = "ARMED"
  PROVE  /\ after' = after
         /\ before' = IF core.pre_lines = 0 \/ Frozen(abort_s, trigger, v)
                      THEN before ELSE Latest(Append(before, v))
BY DEF TrackSamples

LEMMA ArmedFacts ==
  ASSUME TypeOK
  PROVE  core \in Registers /\ line \in [Lines -> Held] /\ before \in Seq(Values) /\ after \in Seq(Values)
BY DEF TypeOK, Held

LEMMA NoRingOutcome ==
  ASSUME TypeOK, RingFacts(core, line, before), NEW v \in Values,
         NoRing(abort_s, trigger), TrackSamples(v)
  PROVE  ArmedOutcome(core, line, before, core', line', before', v) /\ after' = after
<1>1. core' = core /\ line' = line /\ core.state = "ARMED" /\ core.pre_lines = 0
  BY DEF NoRing, Waiting
<1>2. before' = before /\ after' = after
  BY <1>1, ArmedTrack
<1>3. core.nfilled = 0
  BY <1>1, ArmedFacts, RegisterTypes DEF RingFacts
<1> QED
  BY <1>1, <1>2, <1>3, ArmedFacts DEF ArmedOutcome

LEMMA FirstOutcome ==
  ASSUME TypeOK, RingFacts(core, line, before), NEW v \in Values,
         First(abort_s, trigger, v), TrackSamples(v)
  PROVE  ArmedOutcome(core, line, before, core', line', before', v) /\ after' = after
<1>1. /\ core.state = "ARMED" /\ core.pre_lines > 0 /\ core.nfilled = 0
      /\ Written(line, 0, Sample(v), line')
  BY DEF First, Waiting, WriteLine, Written
<1>2. core \in Registers /\ 0 \in Lines /\ core.pre_lines \in Nat /\ core.pre_lines < Depth
      /\ 1 \in Lines
  BY <1>1, ArmedFacts, RegisterTypes, RleDepthAssumption DEF Lines
<1>3. /\ core' \in Registers /\ core'.state = "ARMED" /\ core'.triggered = core.triggered
      /\ core'.pre_lines = core.pre_lines /\ core'.nfilled = 1 /\ core'.head = 0 /\ core'.wp = 0
      /\ core'.run_sample = 0 /\ core'.prev = v /\ NoCount(core')
  BY <1>1, <1>2 DEF First, Registers, HasCount, NoCount
<1>4. /\ RingWhole(core', line') /\ line' \in [Lines -> Held]
      /\ Decode(Ring(core', line')) = <<v>>
  <2>1. core'.pre_lines \in Lines /\ core'.pre_lines > 0
    BY <1>1, <1>3, RegisterTypes
  <2>2. line \in [Lines -> Held]
    BY ArmedFacts
  <2> QED
    BY <1>1, <1>3, <2>1, <2>2, RingFirst
<1>5. before' = Latest(Append(before, v)) /\ after' = after
  BY <1>1, <1>3, ArmedTrack DEF Frozen, Spilling, Filling
<1>6. /\ Ring(core', line') \in Seq(Encoded) /\ Ring(core', line') # <<>>
      /\ Len(Ring(core', line')) < Depth /\ Depth >= 2
      /\ \A i \in 1..core'.nfilled : Ring(core', line')[i] \in Encoded
  BY <1>4, RingDecodes DEF RingWhole
<1>7. Len(Decode(Ring(core', line'))) <= RingSamples /\ RingSamples \in Int
  BY <1>6, RingBound
<1>8. /\ before' \in Seq(Values) /\ before' # <<>> /\ Last(before') = v
  BY <1>5, <1>6, ArmedFacts, LatestMeans
<1>9. EndsIn(before', <<v>>)
  <2>1. <<>> \in Seq(Values) /\ <<v>> \in Seq(Values) /\ Append(<<>>, v) = <<v>>
    OBVIOUS
  <2>2. EndsIn(before, <<>>) /\ EndsIn(Append(<<>>, v), <<v>>)
    BY <2>1, ArmedFacts DEF EndsIn
  <2> QED
    BY <1>4, <1>5, <1>7, <2>1, <2>2, ArmedFacts, RecentStep
<1>10. RingFacts(core', line', before')
  BY <1>1, <1>2, <1>3, <1>4, <1>6, <1>8, <1>9 DEF RingFacts
<1> QED
  BY <1>1, <1>3, <1>4, <1>5, <1>8, <1>10 DEF ArmedOutcome

LEMMA ExtendOutcome ==
  ASSUME TypeOK, RingFacts(core, line, before), NEW v \in Values,
         Extend(abort_s, trigger, v), TrackSamples(v)
  PROVE  ArmedOutcome(core, line, before, core', line', before', v) /\ after' = after
<1>1. /\ core.state = "ARMED" /\ core.pre_lines > 0 /\ core.nfilled > 0 /\ v = core.prev
      /\ core.counting /\ core.count # CountMax
      /\ Written(line, core.wp, Repeat(CountNext), line')
      /\ core' = [core EXCEPT !.count = CountNext]
      /\ ~Frozen(abort_s, trigger, v)
  BY DEF Extend, Filling, Waiting, WriteLine, Written, Frozen, Spilling
<1>2. CountNext = core.count + 1 /\ core.count + 1 \in 0..CountMax
  <2>1. core.count \in Nat /\ core.count < CountMax /\ CountMax \in Nat
    BY <1>1, ArmedFacts, RegisterTypes, CountMaxAssumption
  <2>2. \A n, p \in Nat : n < p => n % p = n
    BY Wraps
  <2>3. core.count + 1 \in Nat /\ CountMax + 1 \in Nat /\ core.count + 1 < CountMax + 1
    BY <2>1
  <2> QED
    BY <2>1, <2>2, <2>3 DEF CountNext
<1>3. /\ core' \in Registers /\ core'.state = "ARMED" /\ core'.triggered = core.triggered
      /\ core'.pre_lines = core.pre_lines /\ core'.head = core.head /\ core'.nfilled = core.nfilled
      /\ core'.wp = core.wp /\ core'.prev = core.prev /\ core'.run_sample = core.run_sample
      /\ core'.counting = core.counting /\ core'.count = core.count + 1
  BY <1>1, <1>2, ArmedFacts DEF Registers
<1>4. RingWhole(core, line) /\ Last(Decode(Ring(core, line))) = core.prev
  BY <1>1, ArmedFacts, RunIsLast
<1>5. Follows(core, line, core', line', v) /\ line' \in [Lines -> Held]
  BY <1>1, <1>2, <1>3, <1>4, RingExtends
<1>6. before' = Latest(Append(before, v)) /\ after' = after
  BY <1>1, <1>3, ArmedTrack
<1> QED
  BY <1>1, <1>3, <1>5, <1>6, ArmedFacts, FollowsOutcome

(* The window moves on.                                                    *)
LEMMA RingAdvanceIs ==
  ASSUME core \in Registers, Geometry(core)
  PROVE  \E n \in Lines, h \in Lines :
           /\ RingAdvance = [core EXCEPT !.wp = After(core), !.nfilled = n, !.head = h]
           /\ n = IF core.nfilled >= core.pre_lines THEN core.nfilled ELSE core.nfilled + 1
           /\ h = IF core.nfilled < core.pre_lines THEN core.head
                  ELSE IF core.head = core.pre_lines - 1 THEN 0 ELSE core.head + 1
<1> DEFINE n == IF core.nfilled >= core.pre_lines THEN core.nfilled ELSE core.nfilled + 1
           h == IF core.nfilled < core.pre_lines THEN core.head
                ELSE IF core.head = core.pre_lines - 1 THEN 0 ELSE core.head + 1
<1>1. /\ core.pre_lines \in Nat /\ core.pre_lines < Depth /\ core.nfilled \in Nat
      /\ core.nfilled <= core.pre_lines /\ core.head \in Nat /\ core.head < core.pre_lines
  BY RegisterTypes DEF Geometry
<1>2. n \in Lines /\ h \in Lines
  BY <1>1, RleDepthAssumption DEF Lines
<1>3. (~Full) = (core.nfilled < core.pre_lines) /\ Full = (core.nfilled >= core.pre_lines)
  BY <1>1 DEF Full
<1>4. RingAdvance = [core EXCEPT !.wp = After(core), !.nfilled = n, !.head = h]
  BY <1>3 DEF RingAdvance, RingNext, After
<1> HIDE DEF n, h
<1>5. /\ n = IF core.nfilled >= core.pre_lines THEN core.nfilled ELSE core.nfilled + 1
      /\ h = IF core.nfilled < core.pre_lines THEN core.head
             ELSE IF core.head = core.pre_lines - 1 THEN 0 ELSE core.head + 1
  BY DEF n, h
<1> QED
  BY <1>2, <1>4, <1>5

LEMMA SpillOutcome ==
  ASSUME TypeOK, RingFacts(core, line, before), NEW v \in Values,
         Spill(abort_s, trigger, v), TrackSamples(v)
  PROVE  ArmedOutcome(core, line, before, core', line', before', v) /\ after' = after
<1>1. /\ core.state = "ARMED" /\ core.pre_lines > 0 /\ core.nfilled > 0 /\ v = core.prev
      /\ After(core) # core.run_sample
      /\ Written(line, After(core), Repeat(1), line')
      /\ core' = [RingAdvance EXCEPT !.counting = TRUE, !.count = 1]
      /\ ~Frozen(abort_s, trigger, v)
  BY DEF Spill, Spilling, Filling, Waiting, WriteLine, Written, Frozen, NoRoom, RingNext, After
<1>2. RingWhole(core, line) /\ Geometry(core) /\ Last(Decode(Ring(core, line))) = core.prev
  BY <1>1, ArmedFacts, RunIsLast
<1>3. PICK n \in Lines, h \in Lines :
           /\ RingAdvance = [core EXCEPT !.wp = After(core), !.nfilled = n, !.head = h]
           /\ n = IF core.nfilled >= core.pre_lines THEN core.nfilled ELSE core.nfilled + 1
           /\ h = IF core.nfilled < core.pre_lines THEN core.head
                  ELSE IF core.head = core.pre_lines - 1 THEN 0 ELSE core.head + 1
  BY <1>2, ArmedFacts, RingAdvanceIs
<1>4. /\ core' \in Registers
      /\ core'.state = core.state /\ core'.triggered = core.triggered /\ core'.pre_lines = core.pre_lines
      /\ core'.prev = core.prev /\ core'.run_sample = core.run_sample
      /\ core'.wp = After(core) /\ core'.nfilled = n /\ core'.head = h
      /\ HasCount(core') /\ core'.count = 1
  <2>1. After(core) \in Lines /\ 1 \in 0..CountMax
    BY <1>2, Addresses, CountMaxAssumption
  <2>2. Spilled(core, After(core), n, h, 1, core')
    BY <1>1, <1>3 DEF Spilled
  <2>3. core \in Registers /\ n \in Lines /\ h \in Lines
    BY <1>3, ArmedFacts
  <2> QED
    BY <2>1, <2>2, <2>3, SpillRegisters
<1>5. Advanced(core, core')
  BY <1>3, <1>4 DEF Advanced
<1>6. Follows(core, line, core', line', v) /\ line' \in [Lines -> Held]
  BY <1>1, <1>2, <1>4, <1>5, RingSpills
<1>7. before' = Latest(Append(before, v)) /\ after' = after
  BY <1>1, <1>4, ArmedTrack
<1> QED
  BY <1>1, <1>4, <1>6, <1>7, ArmedFacts, FollowsOutcome

LEMMA DistinctOutcome ==
  ASSUME TypeOK, RingFacts(core, line, before), NEW v \in Values,
         Distinct(abort_s, trigger, v), TrackSamples(v)
  PROVE  ArmedOutcome(core, line, before, core', line', before', v) /\ after' = after
<1>1. /\ core.state = "ARMED" /\ core.pre_lines > 0 /\ core.nfilled > 0 /\ v # core.prev
      /\ Written(line, After(core), Sample(v), line')
      /\ core' = [RingAdvance EXCEPT !.prev = v, !.counting = FALSE, !.run_sample = After(core)]
      /\ ~Frozen(abort_s, trigger, v)
  BY DEF Distinct, Spilling, Filling, Waiting, WriteLine, Written, Frozen, RingNext, After
<1>2. RingWhole(core, line) /\ Geometry(core)
  BY <1>1, ArmedFacts, RunIsLast
<1>3. PICK n \in Lines, h \in Lines :
           /\ RingAdvance = [core EXCEPT !.wp = After(core), !.nfilled = n, !.head = h]
           /\ n = IF core.nfilled >= core.pre_lines THEN core.nfilled ELSE core.nfilled + 1
           /\ h = IF core.nfilled < core.pre_lines THEN core.head
                  ELSE IF core.head = core.pre_lines - 1 THEN 0 ELSE core.head + 1
  BY <1>2, ArmedFacts, RingAdvanceIs
<1>4. /\ core' \in Registers
      /\ core'.state = core.state /\ core'.triggered = core.triggered /\ core'.pre_lines = core.pre_lines
      /\ core'.prev = v /\ core'.run_sample = After(core)
      /\ core'.wp = After(core) /\ core'.nfilled = n /\ core'.head = h
      /\ NoCount(core')
  <2>1. After(core) \in Lines
    BY <1>2, Addresses
  <2>2. Started(core, After(core), n, h, v, core')
    BY <1>1, <1>3 DEF Started
  <2>3. core \in Registers /\ n \in Lines /\ h \in Lines
    BY <1>3, ArmedFacts
  <2> QED
    BY <2>1, <2>2, <2>3, DistinctRegisters
<1>5. Advanced(core, core')
  BY <1>3, <1>4 DEF Advanced
<1>6. Follows(core, line, core', line', v) /\ line' \in [Lines -> Held]
  BY <1>1, <1>2, <1>4, <1>5, RingDistinct
<1>7. before' = Latest(Append(before, v)) /\ after' = after
  BY <1>1, <1>4, ArmedTrack
<1> QED
  BY <1>1, <1>4, <1>6, <1>7, ArmedFacts, FollowsOutcome

(* A frozen run has filled the ring: it is all there is in it.             *)
LEMMA FreezeOutcome ==
  ASSUME TypeOK, RingFacts(core, line, before), NEW v \in Values,
         Freeze(abort_s, trigger, v), TrackSamples(v)
  PROVE  ArmedOutcome(core, line, before, core', line', before', v) /\ after' = after
<1>1. /\ core.state = "ARMED" /\ core.pre_lines > 0 /\ core.nfilled > 0 /\ v = core.prev
      /\ After(core) = core.run_sample /\ core' = core /\ line' = line
      /\ Frozen(abort_s, trigger, v)
  BY DEF Freeze, Spilling, Filling, Waiting, Frozen, NoRoom, RingNext, After
<1>2. RingWhole(core, line) /\ Geometry(core)
  BY <1>1, ArmedFacts, RunIsLast
<1>3. before' = before /\ after' = after
  BY <1>1, ArmedTrack
<1>4. PICK s : RunFrom(core, line, s)
  BY <1>2 DEF RingWhole
<1>5. s = 1
  <2>1. s \in 1..core.nfilled /\ core.run_sample = Address(core, s)
    BY <1>4 DEF RunFrom
  <2>2. core.nfilled \in Nat /\ core.pre_lines \in Nat /\ core.nfilled <= core.pre_lines
    BY <1>2 DEF Geometry
  <2>3. CASE core.nfilled < core.pre_lines
    <3>1. Address(core, s) = Address(core, core.nfilled + 1)
      BY <1>1, <1>2, <2>1, <2>3, Addresses
    <3>2. s \in 1..core.pre_lines /\ core.nfilled + 1 \in 1..core.pre_lines /\ s # core.nfilled + 1
      BY <2>1, <2>2, <2>3
    <3> QED
      BY <1>2, <3>1, <3>2, Addresses
  <2>4. CASE core.nfilled >= core.pre_lines
    <3>1. Address(core, s) = Address(core, 1)
      BY <1>1, <1>2, <2>1, <2>4, Addresses
    <3>2. s \in 1..core.pre_lines /\ 1 \in 1..core.pre_lines
      BY <2>1, <2>2, <2>4
    <3> QED
      BY <1>2, <3>1, <3>2, Addresses
  <2> QED
    BY <2>2, <2>3, <2>4
<1>6. \A i \in 1..Len(Decode(Ring(core, line))) : Decode(Ring(core, line))[i] = v
  <2>1. /\ Ring(core, line) \in Seq(Encoded) /\ Ring(core, line) # <<>>
        /\ Len(Ring(core, line)) = core.nfilled
    BY <1>2, RingDecodes DEF RingWhole
  <2>2. Ring(core, line)[1] = Sample(v) /\ \A i \in 2..core.nfilled : Ring(core, line)[i].repeat
    <3>1. s + 1 = 2
      BY <1>5
    <3> QED
      BY <1>1, <1>4, <1>5, <3>1 DEF RunFrom
  <2> QED
    BY <2>1, <2>2, DecodeRun
<1> QED
  BY <1>1, <1>3, <1>6, ArmedFacts DEF ArmedOutcome
-----------------------------------------------------------------------------
(* The core, clock by clock, from the trigger on.                          *)

PostFacts(c, l, a) ==
  c.triggered =>
    /\ c.state # "ARMED" /\ Filled(c, l) /\ a # <<>> /\ Last(a) = c.prev
    /\ ~l[c.pre_lines].repeat
    /\ c.counting => l[c.wp] = Repeat(c.count) /\ c.pre_lines < c.wp
    /\ Decode(Post(c, l)) = a

LEMMA PostHas ==
  ASSUME TypeOK, PostInStep, PostIsComplete
  PROVE  PostFacts(core, line, after)
<1>1. PostLines = Post(core, line)
  <2>1. core \in Registers
    BY ArmedFacts
  <2> QED
    BY <2>1, RegisterTypes DEF PostLines, Post, EndPtr
<1>2. core.triggered => Filled(core, line)
  BY ArmedFacts, RegisterTypes DEF PostInStep, Filled
<1> QED
  BY <1>1, <1>2 DEF PostFacts, PostInStep, PostIsComplete

LEMMA PostKeeps ==
  ASSUME core' \in Registers, PostFacts(core', line', after')
  PROVE  PostInStep' /\ PostIsComplete'
<1>1. PostLines' = Post(core', line')
  BY RegisterTypes DEF PostLines, Post, EndPtr
<1>2. PostInStep'
  BY DEF PostFacts, PostInStep, Filled
<1>3. PostIsComplete'
  BY <1>1 DEF PostFacts, PostIsComplete
<1> QED
  BY <1>2, <1>3

AfterOutcome(c, l, a, d, m, e, v) ==
  /\ d \in Registers /\ m \in [Lines -> Held] /\ e = Append(a, v)
  /\ d.state = "CAPTURING" /\ d.triggered /\ PostFacts(d, m, e)
  /\ d.pre_lines = c.pre_lines /\ d.nfilled = c.nfilled /\ d.head = c.head
  /\ Ring(d, m) = Ring(c, l)

LEMMA WrittenAfterRing ==
  ASSUME NEW c \in Registers, NEW d, NEW l \in [Lines -> Held], NEW i \in Lines, NEW x \in Held,
         NEW m, Written(l, i, x, m), c.pre_lines <= i, c.nfilled <= c.pre_lines,
         d.pre_lines = c.pre_lines, d.head = c.head, d.nfilled = c.nfilled
  PROVE  Ring(d, m) = Ring(c, l)
<1>1. /\ c.pre_lines \in Nat /\ c.pre_lines < Depth /\ c.head \in Nat /\ c.nfilled \in Nat
  BY RegisterTypes
<1>2. i \in Nat /\ Lines = 0..Depth-1 /\ Depth \in Nat
  BY RleDepthAssumption DEF Lines
<1>3. ASSUME NEW a \in Nat, a < c.pre_lines PROVE m[a] = l[a]
  <2>1. a \in Lines /\ a # i
    BY <1>1, <1>2, <1>3
  <2> QED
    BY <2>1, WrittenMeans
<1> QED
  BY <1>1, <1>3, OutsideRing

LEMMA TriggerOutcome ==
  ASSUME TypeOK, RingFacts(core, line, before), after = <<>>, NEW v \in Values,
         Trigger(abort_s, trigger, v), TrackSamples(v)
  PROVE  /\ AfterOutcome(core, line, after, core', line', after', v) /\ before' = before
         /\ core'.cycles = 1
<1>1. /\ core.state = "ARMED" /\ Written(line, core.pre_lines, Sample(v), line')
  BY DEF Trigger, WriteLine, Written
<1>2. /\ core' \in Registers /\ core'.state = "CAPTURING" /\ core'.triggered
      /\ core'.pre_lines = core.pre_lines /\ core'.nfilled = core.nfilled /\ core'.head = core.head
      /\ core'.prev = v /\ ~core'.counting /\ core'.wp = core.pre_lines /\ core'.cycles = 1
  <2>1. core \in Registers /\ core.pre_lines \in Lines /\ 0 \in 0..CountMax
    BY ArmedFacts, RegisterTypes, CountMaxAssumption
  <2>2. core' = [core EXCEPT !.state = "CAPTURING", !.triggered = TRUE, !.prev = v,
                             !.counting = FALSE, !.count = 0, !.wp = core.pre_lines, !.cycles = 1]
    BY DEF Trigger
  <2> QED
    BY <2>1, <2>2 DEF Registers, States
<1>3. after' = Append(after, v) /\ before' = before
  BY <1>1, <1>2 DEF TrackSamples
<1>4. Sample(v) \in Encoded /\ Sample(v) \in Held /\ ~Sample(v).repeat /\ Sample(v).value = v
  BY SampleMeans DEF Held
<1>5. core.pre_lines \in Lines /\ core.pre_lines <= core.pre_lines /\ core.nfilled <= core.pre_lines
  BY ArmedFacts, RegisterTypes DEF RingFacts
<1>6. line' \in [Lines -> Held] /\ line'[core.pre_lines] = Sample(v)
  BY <1>1, <1>4, <1>5, ArmedFacts, WrittenMeans
<1>7. Ring(core', line') = Ring(core, line)
  BY <1>1, <1>2, <1>4, <1>5, ArmedFacts, WrittenAfterRing
<1>8. Post(core', line') = <<Sample(v)>> /\ Filled(core', line')
  <2>1. core'.pre_lines \in Lines /\ core'.wp = core'.pre_lines /\ line'[core'.pre_lines] = Sample(v)
    BY <1>2, <1>5, <1>6
  <2> QED
    BY <1>4, <2>1, PostStarts
<1>9. Append(after, v) = <<v>> /\ <<v>> # <<>> /\ Last(<<v>>) = v
  BY DEF Last
<1>10. Decode(<<Sample(v)>>) = <<v>>
  <2>1. <<>> \in Seq(Encoded) /\ <<>> \in Seq(Values) /\ <<Sample(v)>> = Append(<<>>, Sample(v))
        /\ Append(<<>>, v) = <<v>>
    OBVIOUS
  <2>2. Decode(Append(<<>>, Sample(v))) = DecodeLine(<<>>, Sample(v))
    BY <2>1, DecodeAppend, DecodeEmpty
  <2>3. DecodeLine(<<>>, Sample(v)) = Append(<<>>, v)
    BY <1>4, <2>1, LineSample
  <2> QED
    BY <2>1, <2>2, <2>3
<1>11. PostFacts(core', line', after')
  BY <1>2, <1>3, <1>4, <1>6, <1>8, <1>9, <1>10 DEF PostFacts
<1> QED
  BY <1>2, <1>3, <1>6, <1>7, <1>11 DEF AfterOutcome

LEMMA AfterTrack ==
  ASSUME NEW v, TrackSamples(v), core.state = "CAPTURING", core'.state = "CAPTURING", core' # core
  PROVE  after' = Append(after, v) /\ before' = before
BY DEF TrackSamples

(* One more of the run: its count, a line written again.                   *)
LEMMA ExtendAfterOutcome ==
  ASSUME TypeOK, RingFacts(core, line, before), PostFacts(core, line, after), NEW v \in Values,
         core.triggered, RepeatAfter(abort_s, plan.max_cycles, v), ExtendsRun(v), TrackSamples(v)
  PROVE  /\ AfterOutcome(core, line, after, core', line', after', v) /\ before' = before
         /\ core'.cycles = core.cycles + 1
<1>1. /\ core.state = "CAPTURING" /\ v = core.prev /\ core.counting /\ core.count # CountMax
      /\ Written(line, core.wp, Repeat(CountNext), line')
      /\ core' = [core EXCEPT !.counting = TRUE, !.count = CountNext, !.wp = core.wp, !.cycles = @ + 1]
  BY DEF RepeatAfter, ExtendsRun, NextLine, WriteLine, Written
<1>2. /\ Filled(core, line) /\ after # <<>> /\ Last(after) = core.prev
      /\ ~line[core.pre_lines].repeat
      /\ line[core.wp] = Repeat(core.count) /\ core.pre_lines < core.wp
      /\ Decode(Post(core, line)) = after
  BY <1>1 DEF PostFacts
<1>3. /\ core \in Registers /\ line \in [Lines -> Held] /\ after \in Seq(Values)
      /\ core.wp \in Lines /\ core.wp \in Nat /\ core.pre_lines \in Nat /\ core.cycles \in Nat
  BY ArmedFacts, RegisterTypes
<1>4. core.count \in 1..CountMax /\ core.count < CountMax /\ core.count + 1 \in 1..CountMax
  <2>1. Repeat(core.count) \in Encoded
    BY <1>2, <1>3 DEF Filled
  <2>2. core.count \in 1..CountMax
    BY <2>1, RepeatMeans, EncodedMeans
  <2> QED
    BY <1>1, <2>2, CountMaxAssumption
<1>5. CountNext = core.count + 1 /\ core.count + 1 \in 0..CountMax
  <2>1. \A n, p \in Nat : n < p => n % p = n
    BY Wraps
  <2>2. core.count + 1 \in Nat /\ CountMax + 1 \in Nat /\ core.count + 1 < CountMax + 1
    BY <1>4, CountMaxAssumption
  <2> QED
    BY <1>4, <2>1, <2>2 DEF CountNext
<1> DEFINE x == Repeat(core.count + 1)
<1>6. x \in Encoded /\ x \in Held
  BY <1>4, RepeatMeans DEF Held
<1>7. /\ core' \in Registers /\ core'.state = "CAPTURING" /\ core'.triggered
      /\ core'.pre_lines = core.pre_lines /\ core'.nfilled = core.nfilled /\ core'.head = core.head
      /\ core'.prev = v /\ core'.count = core.count + 1 /\ core'.wp = core.wp
      /\ core'.cycles = core.cycles + 1
  <2>1. core.cycles + 1 \in Nat
    BY <1>3
  <2>2. core' = [core EXCEPT !.counting = TRUE, !.count = core.count + 1, !.wp = core.wp,
                             !.cycles = core.cycles + 1]
    BY <1>1, <1>5
  <2>3. /\ core' \in Registers /\ core'.state = core.state /\ core'.triggered = core.triggered
        /\ core'.pre_lines = core.pre_lines /\ core'.nfilled = core.nfilled /\ core'.head = core.head
        /\ core'.prev = core.prev /\ core'.count = core.count + 1 /\ core'.wp = core.wp
        /\ core'.cycles = core.cycles + 1
    BY <1>3, <1>5, <2>1, <2>2 DEF Registers
  <2> QED
    BY <1>1, <2>3
<1>8. after' = Append(after, v) /\ before' = before
  <2>1. core' # core
    BY <1>3, <1>7
  <2> QED
    BY <1>1, <1>7, <2>1, AfterTrack
<1>9. Written(line, core.wp, x, line')
  BY <1>1, <1>5
<1> HIDE DEF x
<1>10. /\ line' \in [Lines -> Held] /\ line'[core.pre_lines] = line[core.pre_lines] /\ line'[core.wp] = x
       /\ Filled(core', line')
       /\ \E f \in Seq(Encoded) : /\ 1 \in 1..Len(f) /\ f[1] = line[core.pre_lines]
                                  /\ Post(core, line) = Append(f, line[core.wp])
                                  /\ Post(core', line') = Append(f, x)
  <2>1. PointsTo(core, core', core.wp)
    BY <1>7 DEF PointsTo
  <2>2. LineReplaced(core, core', line, line', core.wp, x)
    BY <1>2, <1>3, <1>6, <1>9, <2>1, PostOverwritten
  <2> QED
    BY <2>2 DEF LineReplaced
<1>11. Ring(core', line') = Ring(core, line)
  <2>1. core.pre_lines <= core.wp /\ core.nfilled <= core.pre_lines
    BY <1>2, <1>3 DEF RingFacts
  <2> QED
    BY <1>3, <1>6, <1>7, <1>9, <2>1, WrittenAfterRing
<1>12. Decode(Post(core', line')) = Append(after, v)
  <2> PICK f \in Seq(Encoded) : /\ 1 \in 1..Len(f) /\ f[1] = line[core.pre_lines]
                                /\ Post(core, line) = Append(f, line[core.wp])
                                /\ Post(core', line') = Append(f, x)
    BY <1>10
  <2> DEFINE o == Decode(f)
  <2>1. o \in Seq(Values) /\ o # <<>>
    BY <1>2, DecodeType, DecodeSome
  <2>2. after = DecodeLine(o, Repeat(core.count)) /\ Decode(Post(core', line')) = DecodeLine(o, x)
    BY <1>2, DecodeAppend
  <2> HIDE DEF o
  <2>3. /\ DecodeLine(o, x) = Append(DecodeLine(o, Repeat(core.count)), Last(o))
        /\ Last(DecodeLine(o, Repeat(core.count))) = Last(o)
    BY <1>4, <2>1, CountGrows DEF x
  <2> QED
    BY <1>1, <1>2, <2>2, <2>3
<1>13. Append(after, v) # <<>> /\ Last(Append(after, v)) = v
  BY <1>3 DEF Last
<1>14. PostFacts(core', line', after')
  <2>1. line'[core'.wp] = Repeat(core'.count) /\ core'.pre_lines < core'.wp
    BY <1>2, <1>7, <1>10 DEF x
  <2> QED
    BY <1>2, <1>7, <1>8, <1>10, <1>12, <1>13, <2>1 DEF PostFacts
<1> QED
  BY <1>7, <1>8, <1>10, <1>11, <1>14 DEF AfterOutcome

(* A line of its own: a sample, or a count of one of the sample before it. *)
LEMMA LineAfterOutcome ==
  ASSUME TypeOK, RingFacts(core, line, before), PostFacts(core, line, after), NEW v \in Values,
         core.triggered, core.state = "CAPTURING", TrackSamples(v), NEW x \in Encoded,
         Written(line, core.wp + 1, x, line'), core.wp + 1 < Depth,
         core' \in Registers, core'.state = "CAPTURING", core'.triggered,
         core'.pre_lines = core.pre_lines, core'.nfilled = core.nfilled, core'.head = core.head,
         core'.prev = v, core'.wp = core.wp + 1, core'.cycles = core.cycles + 1,
         core'.counting => x = Repeat(core'.count),
         DecodeLine(after, x) = Append(after, v)
  PROVE  AfterOutcome(core, line, after, core', line', after', v) /\ before' = before
<1>1. /\ Filled(core, line) /\ after # <<>> /\ Last(after) = core.prev
      /\ ~line[core.pre_lines].repeat /\ Decode(Post(core, line)) = after
  BY DEF PostFacts
<1>2. /\ core \in Registers /\ line \in [Lines -> Held] /\ after \in Seq(Values)
      /\ core.wp \in Nat /\ core.pre_lines \in Nat /\ core.cycles \in Nat
      /\ core.pre_lines <= core.wp
  BY <1>1, ArmedFacts, RegisterTypes DEF Filled
<1>3. core.wp + 1 \in Lines /\ x \in Held
  BY <1>2, RleDepthAssumption DEF Lines, Held
<1>4. after' = Append(after, v) /\ before' = before
  <2>1. core' # core
    BY <1>2
  <2> QED
    BY <2>1, AfterTrack
<1> DEFINE i == core.wp + 1
<1>5. /\ line' \in [Lines -> Held] /\ line'[core.pre_lines] = line[core.pre_lines] /\ line'[i] = x
      /\ Filled(core', line')
      /\ Post(core', line') = Append(Post(core, line), x)
  <2>1. Written(line, i, x, line') /\ i \in Lines /\ i = core.wp + 1 /\ PointsTo(core, core', i)
    BY <1>3 DEF PointsTo
  <2>2. LineAdded(core, core', line, line', i, x)
    <3> HIDE DEF i
    <3> QED
      BY <1>1, <1>2, <2>1, PostAppends
  <2> QED
    BY <2>2 DEF LineAdded
<1>6. Ring(core', line') = Ring(core, line)
  <2>1. core.pre_lines <= core.wp + 1 /\ core.nfilled <= core.pre_lines
    BY <1>2 DEF RingFacts
  <2> QED
    BY <1>2, <1>3, <2>1, WrittenAfterRing
<1>7. Decode(Post(core', line')) = Append(after, v)
  <2>1. Post(core, line) \in Seq(Encoded)
    BY <1>1, PostType
  <2>2. Decode(Post(core', line')) = DecodeLine(Decode(Post(core, line)), x)
    BY <1>5, <2>1, DecodeAppend
  <2> QED
    BY <1>1, <2>2
<1>8. Append(after, v) # <<>> /\ Last(Append(after, v)) = v
  BY <1>2 DEF Last
<1>9. PostFacts(core', line', after')
  <2>1. core'.counting => line'[core'.wp] = Repeat(core'.count) /\ core'.pre_lines < core'.wp
    BY <1>2, <1>5
  <2> QED
    BY <1>1, <1>4, <1>5, <1>7, <1>8, <2>1 DEF PostFacts
<1> QED
  BY <1>4, <1>5, <1>6, <1>9 DEF AfterOutcome

LEMMA RepeatAfterOutcome ==
  ASSUME TypeOK, RingFacts(core, line, before), PostFacts(core, line, after), NEW v \in Values,
         core.triggered, RepeatAfter(abort_s, plan.max_cycles, v), TrackSamples(v)
  PROVE  /\ AfterOutcome(core, line, after, core', line', after', v) /\ before' = before
         /\ core'.cycles = core.cycles + 1
<1>1. CASE ExtendsRun(v)
  BY <1>1, ExtendAfterOutcome
<1>2. CASE ~ExtendsRun(v)
  <2>1. /\ core.state = "CAPTURING" /\ v = core.prev /\ ~(core.wp + 1 >= Depth)
        /\ Written(line, core.wp + 1, Repeat(1), line')
        /\ core' = [core EXCEPT !.counting = TRUE, !.count = 1, !.wp = core.wp + 1, !.cycles = @ + 1]
    BY <1>2 DEF RepeatAfter, Stopping, NextLine, WriteLine, Written
  <2>2. /\ core \in Registers /\ after \in Seq(Values) /\ core.wp \in Nat /\ core.cycles \in Nat
    BY ArmedFacts, RegisterTypes
  <2>3. core.wp + 1 < Depth /\ core.wp + 1 \in Lines /\ 1 \in 0..CountMax /\ 1 \in 1..CountMax
    BY <2>1, <2>2, RleDepthAssumption, CountMaxAssumption DEF Lines
  <2>4. /\ core' \in Registers /\ core'.state = "CAPTURING" /\ core'.triggered
        /\ core'.pre_lines = core.pre_lines /\ core'.nfilled = core.nfilled /\ core'.head = core.head
        /\ core'.prev = v /\ core'.count = 1 /\ core'.wp = core.wp + 1
        /\ core'.cycles = core.cycles + 1
    <3>1. core.cycles + 1 \in Nat
      BY <2>2
    <3>2. core' = [core EXCEPT !.counting = TRUE, !.count = 1, !.wp = core.wp + 1,
                               !.cycles = core.cycles + 1]
      BY <2>1
    <3>3. /\ core' \in Registers /\ core'.state = core.state /\ core'.triggered = core.triggered
          /\ core'.pre_lines = core.pre_lines /\ core'.nfilled = core.nfilled /\ core'.head = core.head
          /\ core'.prev = core.prev /\ core'.count = 1 /\ core'.wp = core.wp + 1
          /\ core'.cycles = core.cycles + 1
      BY <2>2, <2>3, <3>1, <3>2 DEF Registers
    <3> QED
      BY <2>1, <3>3
  <2>5. Repeat(1) \in Encoded
    BY <2>3, RepeatMeans
  <2>6. DecodeLine(after, Repeat(1)) = Append(after, v)
    <3>1. after # <<>> /\ Last(after) = core.prev
      BY DEF PostFacts
    <3> QED
      BY <2>1, <2>2, <2>3, <3>1, CountGrows
  <2>7. core'.counting => Repeat(1) = Repeat(core'.count)
    BY <2>4
  <2> QED
    BY <2>1, <2>3, <2>4, <2>5, <2>6, <2>7, LineAfterOutcome
<1> QED
  BY <1>1, <1>2

LEMMA DistinctAfterOutcome ==
  ASSUME TypeOK, RingFacts(core, line, before), PostFacts(core, line, after), NEW v \in Values,
         core.triggered, DistinctAfter(abort_s, plan.max_cycles, v), TrackSamples(v)
  PROVE  /\ AfterOutcome(core, line, after, core', line', after', v) /\ before' = before
         /\ core'.cycles = core.cycles + 1
<1>1. /\ core.state = "CAPTURING" /\ ~(core.wp + 1 >= Depth)
      /\ Written(line, core.wp + 1, Sample(v), line')
      /\ core' = [core EXCEPT !.prev = v, !.counting = FALSE, !.count = 0,
                              !.wp = core.wp + 1, !.cycles = @ + 1]
  BY DEF DistinctAfter, Stopping, NextLine, ExtendsRun, WriteLine, Written
<1>2. /\ core \in Registers /\ after \in Seq(Values) /\ core.wp \in Nat /\ core.cycles \in Nat
  BY ArmedFacts, RegisterTypes
<1>3. core.wp + 1 < Depth /\ core.wp + 1 \in Lines /\ 0 \in 0..CountMax
  BY <1>1, <1>2, RleDepthAssumption, CountMaxAssumption DEF Lines
<1>4. /\ core' \in Registers /\ core'.state = "CAPTURING" /\ core'.triggered
      /\ core'.pre_lines = core.pre_lines /\ core'.nfilled = core.nfilled /\ core'.head = core.head
      /\ core'.prev = v /\ ~core'.counting /\ core'.wp = core.wp + 1
      /\ core'.cycles = core.cycles + 1
  <2>1. core.cycles + 1 \in Nat
    BY <1>2
  <2>2. core' = [core EXCEPT !.prev = v, !.counting = FALSE, !.count = 0,
                             !.wp = core.wp + 1, !.cycles = core.cycles + 1]
    BY <1>1
  <2>3. /\ core' \in Registers /\ core'.state = core.state /\ core'.triggered = core.triggered
        /\ core'.pre_lines = core.pre_lines /\ core'.nfilled = core.nfilled /\ core'.head = core.head
        /\ core'.prev = v /\ ~core'.counting /\ core'.wp = core.wp + 1
        /\ core'.cycles = core.cycles + 1
    BY <1>2, <1>3, <2>1, <2>2 DEF Registers
  <2> QED
    BY <1>1, <2>3
<1>5. Sample(v) \in Encoded /\ DecodeLine(after, Sample(v)) = Append(after, v)
  BY <1>2, SampleMeans, LineSample
<1>6. core'.counting => Sample(v) = Repeat(core'.count)
  BY <1>4
<1> QED
  BY <1>1, <1>3, <1>4, <1>5, <1>6, LineAfterOutcome
-----------------------------------------------------------------------------
(* One clock of the whole cluster.                                         *)

(* The host asks for one thing, and arms and configures an idle control.   *)
ControlStep ==
  /\ arm_s' \in BOOLEAN /\ abort_s' \in BOOLEAN
  /\ arm_s' => HostMayArm /\ plan' \in Plans
  /\ plan' = plan \/ (HostMayArm /\ plan' \in Plans)
  /\ cycles' = IF arm_s THEN 0
               ELSE IF core.state = "CAPTURING" THEN (cycles + 1) % CycleWrap
               ELSE cycles

ClockStep(v) ==
  /\ CoreStep(arm_s, abort_s, trigger, plan, v)
  /\ Match(Edge, Ready, v \in TriggerOn)
  /\ ControlStep
  /\ TrackSamples(v)

LEMMA EveryClock ==
  ASSUME Next
  PROVE  \E v \in Values : ClockStep(v)
<1>1. CASE Run
  <2>1. PICK v \in Values : Clock([op |-> "none"], v)
    BY <1>1 DEF Run
  <2>2. ControlStep
    BY <2>1 DEF Clock, ControlStep
  <2>3. ClockStep(v)
    BY <2>1, <2>2 DEF Clock, ClockStep
  <2> QED
    BY <2>3
<1>2. CASE Configure
  <2>1. PICK v \in Values, p \in Plans : HostMayArm /\ Clock([op |-> "config", value |-> p], v)
    BY <1>2 DEF Configure
  <2>2. ControlStep
    BY <2>1 DEF Clock, ControlStep
  <2>3. ClockStep(v)
    BY <2>1, <2>2 DEF Clock, ClockStep
  <2> QED
    BY <2>3
<1>3. CASE HostArm
  <2>1. PICK v \in Values : HostMayArm /\ plan \in Plans /\ Clock([op |-> "arm"], v)
    BY <1>3 DEF HostArm
  <2>2. ControlStep
    BY <2>1 DEF Clock, ControlStep
  <2>3. ClockStep(v)
    BY <2>1, <2>2 DEF Clock, ClockStep
  <2> QED
    BY <2>3
<1>4. CASE HostAbort
  <2>1. PICK v \in Values : Clock([op |-> "abort"], v)
    BY <1>4 DEF HostAbort
  <2>2. ControlStep
    BY <2>1 DEF Clock, ControlStep
  <2>3. ClockStep(v)
    BY <2>1, <2>2 DEF Clock, ClockStep
  <2> QED
    BY <2>3
<1> QED
  BY <1>1, <1>2, <1>3, <1>4 DEF Next

(* What becomes of the core and of what it has recorded.                   *)
Idles ==
  /\ core' = [core EXCEPT !.state = "IDLE"]
  /\ line' = line /\ before' = before /\ after' = after
Rearms ==
  /\ core.state = "IDLE" /\ core'.state = "ARMED" /\ ~core'.triggered /\ core'.nfilled = 0
  /\ before' = <<>> /\ after' = <<>>
Waits(v) ==
  /\ core.state = "ARMED"
  /\ ArmedOutcome(core, line, before, core', line', before', v) /\ after' = after
Triggers(v) ==
  /\ core.state = "ARMED" /\ trigger /\ core'.cycles = 1
  /\ AfterOutcome(core, line, after, core', line', after', v) /\ before' = before
Records(v) ==
  /\ core.state = "CAPTURING" /\ core'.cycles = core.cycles + 1
  /\ ~CapReached(plan.max_cycles)
  /\ AfterOutcome(core, line, after, core', line', after', v) /\ before' = before

(* The state the registers and the recorded samples are in.                *)
Kept ==
  /\ core \in Registers /\ line \in [Lines -> Held] /\ before \in Seq(Values) /\ after \in Seq(Values)
  /\ RingFacts(core, line, before) /\ PostFacts(core, line, after)

LEMMA IdlesKept ==
  ASSUME Kept, Idles
  PROVE  /\ core' \in Registers /\ core'.state = "IDLE" /\ core'.triggered = core.triggered
         /\ core'.pre_lines = core.pre_lines /\ core'.prev = core.prev
         /\ Ring(core', line') = Ring(core, line)
         /\ line' \in [Lines -> Held] /\ before' \in Seq(Values) /\ after' \in Seq(Values)
         /\ RingFacts(core', line', before') /\ PostFacts(core', line', after')
<1>1. /\ core' \in Registers /\ core'.state = "IDLE" /\ core'.triggered = core.triggered
      /\ core'.pre_lines = core.pre_lines /\ core'.prev = core.prev /\ core'.counting = core.counting
      /\ core'.count = core.count /\ core'.wp = core.wp /\ core'.head = core.head
      /\ core'.nfilled = core.nfilled
  BY DEF Kept, Idles, Registers, States
<1>2. line' = line /\ before' = before /\ after' = after
  BY DEF Idles
<1>3. Ring(core', line') = Ring(core, line) /\ Post(core', line') = Post(core, line)
  BY <1>1, <1>2 DEF Ring, Address, Post
<1>4. RingFacts(core', line', before')
  BY <1>1, <1>2, <1>3 DEF Kept, RingFacts
<1>5. PostFacts(core', line', after')
  BY <1>1, <1>2, <1>3 DEF Kept, PostFacts, Filled
<1> QED
  BY <1>1, <1>2, <1>3, <1>4, <1>5 DEF Kept

LEMMA RearmsKept ==
  ASSUME Kept, TypeOK, CountersInStep, NEW v, Arm(arm_s, plan.pre_lines), TrackSamples(v)
  PROVE  Rearms /\ Kept'
<1>1. plan.pre_lines \in Lines /\ 0 \in Lines
  BY RleDepthAssumption DEF CountersInStep, Arm, Plans, Lines
<1>2. /\ core' \in Registers /\ core'.state = "ARMED" /\ ~core'.triggered
      /\ core'.nfilled = 0 /\ core'.pre_lines = plan.pre_lines
  <2>1. core' = [core EXCEPT !.state = "ARMED", !.triggered = FALSE,
                             !.pre_lines = plan.pre_lines, !.counting = FALSE,
                             !.wp = 0, !.head = 0, !.nfilled = 0]
    BY DEF Arm
  <2> QED
    BY <1>1, <2>1 DEF Kept, Registers, States
<1>3. before' = <<>> /\ after' = <<>> /\ core.state = "IDLE"
  BY DEF Arm, TrackSamples
<1>4. line' \in [Lines -> Held]
  <2>1. line' = [i \in Lines |-> Stale] /\ Stale \in Held
    BY DEF Arm, Held
  <2> QED
    BY <2>1
<1>5. Decode(Ring(core', line')) = <<>>
  BY <1>2, EmptyRing
<1>6. RingFacts(core', line', before')
  <2>1. 0 <= plan.pre_lines
    BY <1>1, RleDepthAssumption DEF Lines
  <2> QED
    BY <1>2, <1>5, <2>1 DEF RingFacts
<1>7. PostFacts(core', line', after')
  BY <1>2 DEF PostFacts
<1>8. before' \in Seq(Values) /\ after' \in Seq(Values)
  BY <1>3
<1> QED
  BY <1>2, <1>3, <1>4, <1>6, <1>7, <1>8 DEF Kept, Rearms

LEMMA WaitsKept ==
  ASSUME Kept, NEW v \in Values, Waits(v)
  PROVE  Kept'
<1>1. /\ core' \in Registers /\ line' \in [Lines -> Held] /\ before' \in Seq(Values)
      /\ core'.triggered = core.triggered /\ RingFacts(core', line', before')
  BY DEF Waits, ArmedOutcome
<1>2. ~core.triggered
  BY DEF Kept, PostFacts, Waits
<1>3. PostFacts(core', line', after')
  BY <1>1, <1>2 DEF PostFacts
<1> QED
  BY <1>1, <1>3 DEF Kept, Waits

LEMMA AfterKept ==
  ASSUME Kept, NEW v \in Values, before' = before,
         AfterOutcome(core, line, after, core', line', after', v)
  PROVE  Kept'
<1>1. /\ core' \in Registers /\ line' \in [Lines -> Held] /\ after' = Append(after, v)
      /\ core'.state = "CAPTURING" /\ PostFacts(core', line', after')
      /\ core'.pre_lines = core.pre_lines /\ core'.nfilled = core.nfilled /\ core'.head = core.head
      /\ Ring(core', line') = Ring(core, line)
  BY DEF AfterOutcome
<1>2. after' \in Seq(Values)
  BY <1>1 DEF Kept
<1>3. RingFacts(core', line', before')
  BY <1>1 DEF Kept, RingFacts
<1> QED
  BY <1>1, <1>2, <1>3 DEF Kept

LEMMA InvariantKept ==
  ASSUME IInv
  PROVE  Kept /\ RingLines = Ring(core, line)
<1>1. TypeOK /\ RingInStep /\ RingIsRecent /\ PostInStep /\ PostIsComplete
  BY DEF IInv, KeptIsRecent
<1> QED
  BY <1>1, ArmedFacts, RingHas, PostHas DEF Kept

(* Every action of the core has one of these outcomes.                     *)
LEMMA Outcomes ==
  ASSUME IInv, NEW v \in Values, ClockStep(v)
  PROVE  /\ Kept'
         /\ \/ Idles /\ (core.state = "IDLE" => ~arm_s)
            \/ Rearms /\ arm_s
            \/ Waits(v)
            \/ Triggers(v)
            \/ Records(v)
<1>1. /\ TypeOK /\ Kept /\ CountersInStep
      /\ RingFacts(core, line, before) /\ PostFacts(core, line, after)
  BY InvariantKept DEF IInv, KeptIsRecent, Kept
<1>2. TrackSamples(v)
  BY DEF ClockStep
<1> DEFINE Goal == /\ Kept'
                   /\ \/ Idles /\ (core.state = "IDLE" => ~arm_s)
                      \/ Rearms /\ arm_s
                      \/ Waits(v)
                      \/ Triggers(v)
                      \/ Records(v)
<1>3. ASSUME Idles, core.state = "IDLE" => ~arm_s PROVE Goal
  BY <1>1, <1>3, IdlesKept DEF Kept
<1>4. ASSUME core.state = "ARMED", ArmedOutcome(core, line, before, core', line', before', v), after' = after
      PROVE  Goal
  <2>1. Waits(v)
    BY <1>4 DEF Waits
  <2> QED
    BY <1>1, <2>1, WaitsKept
<1>5. ASSUME core.state = "CAPTURING", core'.cycles = core.cycles + 1, ~CapReached(plan.max_cycles),
             AfterOutcome(core, line, after, core', line', after', v), before' = before
      PROVE  Goal
  <2>1. Records(v)
    BY <1>5 DEF Records
  <2> QED
    BY <1>1, <1>5, <2>1, AfterKept
<1>6. CASE Rest(arm_s)
  <2>1. core.state = "IDLE" /\ ~arm_s /\ core' = core /\ line' = line
    BY <1>6 DEF Rest
  <2>2. before' = before /\ after' = after
    BY <1>2, <2>1 DEF TrackSamples
  <2>3. core = [core EXCEPT !.state = "IDLE"]
    BY <1>1, <2>1 DEF Kept, Registers
  <2>4. Idles
    BY <2>1, <2>2, <2>3 DEF Idles
  <2> QED
    BY <1>3, <2>1, <2>4
<1>7. CASE Arm(arm_s, plan.pre_lines)
  <2>1. Rearms /\ Kept'
    BY <1>1, <1>2, <1>7, RearmsKept
  <2>2. arm_s
    BY <1>7 DEF Arm
  <2> QED
    BY <2>1, <2>2
<1>8. CASE AbortArmed(abort_s)
  <2>1. /\ core.state = "ARMED" /\ core' = [core EXCEPT !.state = "IDLE"] /\ line' = line
    BY <1>8 DEF AbortArmed
  <2>2. core'.state = "IDLE"
    BY <1>1, <2>1 DEF Kept, Registers
  <2>3. before' = before /\ after' = after
    BY <1>2, <2>1, <2>2 DEF TrackSamples
  <2>4. Idles
    BY <2>1, <2>3 DEF Idles
  <2> QED
    BY <1>3, <2>1, <2>4
<1>9. CASE Trigger(abort_s, trigger, v)
  <2>1. core.state = "ARMED" /\ trigger
    BY <1>9 DEF Trigger
  <2>2. after = <<>>
    BY <1>1, <2>1 DEF CountersInStep
  <2>3. /\ AfterOutcome(core, line, after, core', line', after', v) /\ before' = before
        /\ core'.cycles = 1
    BY <1>1, <1>2, <1>9, <2>2, TriggerOutcome
  <2>4. Triggers(v) /\ Kept'
    BY <1>1, <2>1, <2>3, AfterKept DEF Triggers
  <2> QED
    BY <2>4
<1>10. CASE NoRing(abort_s, trigger)
  BY <1>1, <1>2, <1>4, <1>10, NoRingOutcome DEF NoRing, Waiting
<1>11. CASE First(abort_s, trigger, v)
  BY <1>1, <1>2, <1>4, <1>11, FirstOutcome DEF First, Waiting
<1>12. CASE Extend(abort_s, trigger, v)
  BY <1>1, <1>2, <1>4, <1>12, ExtendOutcome DEF Extend, Filling, Waiting
<1>13. CASE Freeze(abort_s, trigger, v)
  BY <1>1, <1>2, <1>4, <1>13, FreezeOutcome DEF Freeze, Frozen, Spilling, Filling, Waiting
<1>14. CASE Spill(abort_s, trigger, v)
  BY <1>1, <1>2, <1>4, <1>14, SpillOutcome DEF Spill, Spilling, Filling, Waiting
<1>15. CASE Distinct(abort_s, trigger, v)
  BY <1>1, <1>2, <1>4, <1>15, DistinctOutcome DEF Distinct, Filling, Waiting
<1>16. CASE Stop(abort_s, plan.max_cycles, v)
  <2>1. /\ core.state = "CAPTURING" /\ core' = [core EXCEPT !.state = "IDLE"] /\ line' = line
    BY <1>16 DEF Stop
  <2>2. core'.state = "IDLE"
    BY <1>1, <2>1 DEF Kept, Registers
  <2>3. before' = before /\ after' = after
    BY <1>2, <2>1, <2>2 DEF TrackSamples
  <2>4. Idles
    BY <2>1, <2>3 DEF Idles
  <2> QED
    BY <1>3, <2>1, <2>4
<1>17. CASE RepeatAfter(abort_s, plan.max_cycles, v)
  <2>1. core.state = "CAPTURING" /\ ~CapReached(plan.max_cycles)
    BY <1>17 DEF RepeatAfter, Stopping
  <2>2. core.triggered
    BY <1>1, <2>1 DEF CountersInStep
  <2> QED
    BY <1>1, <1>2, <1>5, <1>17, <2>1, <2>2, RepeatAfterOutcome
<1>18. CASE DistinctAfter(abort_s, plan.max_cycles, v)
  <2>1. core.state = "CAPTURING" /\ ~CapReached(plan.max_cycles)
    BY <1>18 DEF DistinctAfter, Stopping
  <2>2. core.triggered
    BY <1>1, <2>1 DEF CountersInStep
  <2> QED
    BY <1>1, <1>2, <1>5, <1>18, <2>1, <2>2, DistinctAfterOutcome
<1> QED
  <2>1. \/ Rest(arm_s) \/ Arm(arm_s, plan.pre_lines) \/ AbortArmed(abort_s)
        \/ Trigger(abort_s, trigger, v) \/ NoRing(abort_s, trigger) \/ First(abort_s, trigger, v)
        \/ Extend(abort_s, trigger, v) \/ Freeze(abort_s, trigger, v) \/ Spill(abort_s, trigger, v)
        \/ Distinct(abort_s, trigger, v) \/ Stop(abort_s, plan.max_cycles, v)
        \/ RepeatAfter(abort_s, plan.max_cycles, v) \/ DistinctAfter(abort_s, plan.max_cycles, v)
    BY Zenon DEF ClockStep, CoreStep
  <2> QED
    BY <1>6, <1>7, <1>8, <1>9, <1>10, <1>11, <1>12, <1>13, <1>14, <1>15, <1>16, <1>17, <1>18, <2>1
-----------------------------------------------------------------------------
(* The rest of the invariant, clock by clock.                              *)

LEMMA PlanTypes ==
  ASSUME TypeOK
  PROVE  plan.max_cycles \in Nat /\ (plan.max_cycles # 0 => plan.max_cycles >= 1)
<1>1. 0..CycleWrap-1 \subseteq Nat
  BY CycleAssumption
<1>2. plan \in Plans => plan.max_cycles \in Nat
  BY <1>1, CapsAssumption DEF Plans
<1>3. plan = Reset => plan.max_cycles = 0
  BY DEF Reset
<1>4. plan.max_cycles \in Nat
  BY <1>2, <1>3 DEF TypeOK
<1> QED
  BY <1>4

LEMMA TypesKept ==
  ASSUME TypeOK, NEW v \in Values, ClockStep(v), Kept'
  PROVE  TypeOK'
<1>1. core' \in Registers /\ line' \in [Lines -> {Stale} \union Encoded]
      /\ before' \in Seq(Values) /\ after' \in Seq(Values)
  BY DEF Kept, Held
<1>2. arm_s' \in BOOLEAN /\ abort_s' \in BOOLEAN /\ plan' \in Plans \union {Reset}
  BY DEF ClockStep, ControlStep, TypeOK
<1>3. cycles' \in 0..CycleWrap-1
  <2>1. cycles \in Nat /\ CycleWrap \in Nat /\ CycleWrap > 0 /\ cycles <= CycleWrap - 1
    BY CycleAssumption DEF TypeOK
  <2>2. (cycles + 1) % CycleWrap \in 0..CycleWrap-1
    BY <2>1
  <2>3. cycles' = 0 \/ cycles' = (cycles + 1) % CycleWrap \/ cycles' = cycles
    BY DEF ClockStep, ControlStep
  <2> QED
    BY <2>1, <2>2, <2>3
<1>4. trigger' \in BOOLEAN /\ fired' \in BOOLEAN /\ raw' \in BOOLEAN /\ en1' \in BOOLEAN /\ en2' \in BOOLEAN
  <2>1. CASE Edge
    BY <2>1 DEF ClockStep, Match, MatchEdge, Fire, TypeOK, Ready
  <2>2. CASE ~Edge
    BY <2>2 DEF ClockStep, Match, MatchValue, Fire, TypeOK, Ready
  <2> QED
    BY <2>1, <2>2
<1> QED
  BY <1>1, <1>2, <1>3, <1>4 DEF TypeOK

(* An access of the host waits for an idle control, which stays idle.      *)
LEMMA HostWaits ==
  ASSUME NEW v, ClockStep(v)
  PROVE  /\ arm_s' => core.state = "IDLE" /\ ~arm_s /\ plan' \in Plans
         /\ core.state # "IDLE" => plan' = plan
BY DEF ClockStep, ControlStep, HostMayArm

(* A counter that wraps, and the number it counts.                         *)
LEMMA Division ==
  ASSUME NEW a \in Nat, NEW p \in Nat, p > 0
  PROVE  a \div p \in Nat /\ a % p \in Nat /\ a % p < p /\ a = (p * (a \div p)) + (a % p)
OBVIOUS

LEMMA Remainder ==
  ASSUME NEW p \in Nat, NEW q \in Nat, NEW r \in Nat, r < p, NEW a \in Nat, a = (p * q) + r
  PROVE  a % p = r
OBVIOUS

LEMMA NextRemainder ==
  ASSUME NEW a \in Nat, NEW p \in Nat, p > 0
  PROVE  (a + 1) % p = IF (a % p) + 1 = p THEN 0 ELSE (a % p) + 1
<1> DEFINE q == a \div p
           k == a % p
<1>1. q \in Nat /\ k \in Nat /\ k < p /\ a = (p * q) + k
  BY Division
<1> HIDE DEF q, k
<1>2. CASE k + 1 = p
  <2>1. a + 1 = (p * q) + p /\ (p * q) + p = p * (q + 1)
    BY <1>1, <1>2
  <2>2. a + 1 = (p * (q + 1)) + 0 /\ q + 1 \in Nat /\ 0 < p /\ a + 1 \in Nat
    BY <1>1, <2>1
  <2>3. (a + 1) % p = 0
    BY <2>2, Remainder
  <2> QED
    BY <1>2, <2>3 DEF k
<1>3. CASE k + 1 < p
  <2>1. a + 1 = (p * q) + (k + 1) /\ k + 1 \in Nat /\ a + 1 \in Nat
    BY <1>1
  <2>2. (a + 1) % p = k + 1
    BY <1>1, <1>3, <2>1, Remainder
  <2> QED
    BY <1>1, <1>3, <2>2 DEF k
<1> QED
  BY <1>1, <1>2, <1>3

LEMMA Counted ==
  ASSUME NEW n \in Nat, n >= 1, NEW k, k = (n - 1) % CycleWrap
  PROVE  (k + 1) % CycleWrap = n % CycleWrap
<1>1. CycleWrap \in Nat /\ CycleWrap > 0 /\ n - 1 \in Nat /\ (n - 1) + 1 = n
  BY CycleAssumption
<1>2. k \in Nat /\ k < CycleWrap
  BY <1>1, Division
<1>3. n % CycleWrap = IF k + 1 = CycleWrap THEN 0 ELSE k + 1
  BY <1>1, NextRemainder
<1>4. CycleWrap % CycleWrap = 0 /\ (k + 1 < CycleWrap => (k + 1) % CycleWrap = k + 1)
  BY <1>1, <1>2
<1> QED
  BY <1>1, <1>2, <1>3, <1>4

LEMMA CountersKept ==
  ASSUME IInv, NEW v \in Values, ClockStep(v)
  PROVE  CountersInStep' /\ CyclesCountSamples'
<1>1. /\ Kept /\ TypeOK /\ CountersInStep /\ CyclesCountSamples
      /\ core.cycles \in Nat /\ after \in Seq(Values)
  BY InvariantKept, RegisterTypes DEF IInv, KeptIsRecent, Kept
<1>2. /\ cycles' = IF arm_s THEN 0
                   ELSE IF core.state = "CAPTURING" THEN (cycles + 1) % CycleWrap
                   ELSE cycles
  BY DEF ClockStep, ControlStep
<1>3. core.state # "IDLE" => ~arm_s
  BY <1>1 DEF CountersInStep
<1>4. CASE Idles /\ (core.state = "IDLE" => ~arm_s)
  <2>1. core'.state = "IDLE" /\ core'.triggered = core.triggered /\ after' = after
    BY <1>1, <1>4, IdlesKept DEF Idles
  <2>2. CountersInStep'
    BY <2>1, HostWaits DEF CountersInStep
  <2>3. ASSUME core.triggered PROVE cycles' = Len(after) % CycleWrap
    <3>1. core.state # "ARMED" /\ after # <<>>
      BY <1>1, <2>3 DEF Kept, PostFacts
    <3>2. core.state \in States
      BY <1>1, RegisterTypes DEF Kept
    <3>3. CASE core.state = "IDLE"
      BY <1>1, <1>2, <1>4, <2>3, <3>3 DEF CyclesCountSamples
    <3>4. CASE core.state = "CAPTURING"
      <4>1. cycles' = (cycles + 1) % CycleWrap /\ cycles = (Len(after) - 1) % CycleWrap
        BY <1>1, <1>2, <1>3, <3>4 DEF CountersInStep
      <4>2. Len(after) \in Nat /\ Len(after) >= 1
        BY <1>1, <3>1
      <4> QED
        BY <4>1, <4>2, Counted
    <3> QED
      BY <3>1, <3>2, <3>3, <3>4 DEF States
  <2>4. CyclesCountSamples'
    BY <2>1, <2>3 DEF CyclesCountSamples
  <2> QED
    BY <2>2, <2>4
<1>5. CASE Rearms /\ arm_s
  <2>1. core.state = "IDLE" /\ core'.state = "ARMED" /\ ~core'.triggered /\ after' = <<>> /\ arm_s
    BY <1>5 DEF Rearms
  <2>2. cycles' = 0 /\ ~arm_s'
    BY <1>2, <2>1, HostWaits
  <2>3. CountersInStep'
    BY <2>1, <2>2 DEF CountersInStep
  <2>4. CyclesCountSamples'
    BY <2>1 DEF CyclesCountSamples
  <2> QED
    BY <2>3, <2>4
<1>6. CASE Waits(v)
  <2>1. /\ core.state = "ARMED" /\ core'.state = "ARMED" /\ after' = after
        /\ core'.triggered = core.triggered
    BY <1>6 DEF Waits, ArmedOutcome
  <2>2. cycles' = 0 /\ after' = <<>> /\ ~arm_s'
    BY <1>1, <1>2, <1>3, <2>1, HostWaits DEF CountersInStep
  <2>3. ~core'.triggered
    BY <1>1, <2>1 DEF Kept, PostFacts
  <2>4. CountersInStep'
    BY <2>1, <2>2 DEF CountersInStep
  <2>5. CyclesCountSamples'
    BY <2>3 DEF CyclesCountSamples
  <2> QED
    BY <2>4, <2>5
<1>7. CASE Triggers(v)
  <2>1. /\ core.state = "ARMED" /\ core'.state = "CAPTURING" /\ core'.triggered
        /\ after' = Append(after, v) /\ core'.cycles = 1
    BY <1>7 DEF Triggers, AfterOutcome
  <2>2. /\ after = <<>> /\ cycles = 0 /\ ~arm_s
    BY <1>1, <1>3, <2>1 DEF CountersInStep
  <2>3. Len(after') = 1
    BY <2>1, <2>2
  <2>4. cycles' = 0 /\ ~arm_s' /\ plan' = plan
    BY <1>2, <2>1, <2>2, HostWaits
  <2>5. (1 - 1) % CycleWrap = 0
    BY CycleAssumption
  <2>6. CountersInStep'
    BY <2>1, <2>3, <2>4, <2>5 DEF CountersInStep
  <2>7. CyclesCountSamples'
    BY <1>1, <2>1, <2>3, <2>4, PlanTypes DEF CyclesCountSamples
  <2> QED
    BY <2>6, <2>7
<1>8. CASE Records(v)
  <2>1. /\ core.state = "CAPTURING" /\ core'.state = "CAPTURING" /\ core'.triggered
        /\ after' = Append(after, v) /\ core'.cycles = core.cycles + 1
        /\ ~(plan.max_cycles # 0 /\ core.cycles >= plan.max_cycles)
    BY <1>8 DEF Records, AfterOutcome, CapReached
  <2>2. core.triggered /\ core.cycles = Len(after) /\ cycles = (Len(after) - 1) % CycleWrap
    BY <1>1, <2>1 DEF CountersInStep
  <2>3. Len(after) \in Nat /\ Len(after) >= 1 /\ Len(after') = Len(after) + 1
    <3>1. after # <<>>
      BY <1>1, <2>2 DEF Kept, PostFacts
    <3> QED
      BY <1>1, <2>1, <3>1
  <2>4. cycles' = (cycles + 1) % CycleWrap /\ ~arm_s' /\ plan' = plan
    BY <1>2, <1>3, <2>1, HostWaits
  <2>5. cycles' = (Len(after') - 1) % CycleWrap
    <3>1. cycles' = Len(after) % CycleWrap
      BY <2>2, <2>3, <2>4, Counted
    <3>2. Len(after') - 1 = Len(after)
      BY <2>3
    <3> QED
      BY <3>1, <3>2
  <2>6. CountersInStep'
    BY <2>1, <2>2, <2>3, <2>4, <2>5 DEF CountersInStep
  <2>7. ASSUME plan.max_cycles # 0 PROVE Len(after') <= plan.max_cycles
    <3>1. plan.max_cycles \in Nat
      BY <1>1, PlanTypes
    <3> QED
      BY <1>1, <2>1, <2>2, <2>3, <2>7, <3>1
  <2>8. CyclesCountSamples'
    BY <2>1, <2>4, <2>7 DEF CyclesCountSamples
  <2> QED
    BY <2>6, <2>8
<1> QED
  BY <1>4, <1>5, <1>6, <1>7, <1>8, Outcomes
-----------------------------------------------------------------------------
(* The sample the trigger matched.                                         *)

RingOf(c, l) == Decode(Ring(c, l))

LEMMA LastIsEnd ==
  ASSUME NEW s \in Seq(Values), s # <<>>
  PROVE  Len(s) \in Nat /\ Len(s) >= 1 /\ s[Len(s)] = Last(s)
BY DEF Last

(* After a clock that leaves the core armed, the ring ends in its sample.  *)
LEMMA WaitsEnd ==
  ASSUME NEW v \in Values, Waits(v), core'.nfilled > 0
  PROVE  /\ RingOf(core', line') \in Seq(Values) /\ RingOf(core', line') # <<>>
         /\ Last(RingOf(core', line')) = v /\ core'.prev = v
<1>1. RingFacts(core', line', before') /\ core'.prev = v /\ core'.state = "ARMED" /\ before' \in Seq(Values)
  BY DEF Waits, ArmedOutcome
<1>2. /\ RingOf(core', line') \in Seq(Values) /\ RingOf(core', line') # <<>>
      /\ EndsIn(before', RingOf(core', line')) /\ Last(before') = v
  BY <1>1 DEF RingFacts, RingOf
<1> QED
  BY <1>1, <1>2, EndsLast

LEMMA MatchMeans ==
  ASSUME NEW v, ClockStep(v)
  PROVE  /\ Edge => /\ trigger' => Ready /\ raw /\ en1
                    /\ raw' => v \in TriggerOn
         /\ ~Edge /\ trigger' => v \in TriggerOn
         /\ trigger' => Ready
<1>1. CASE Edge
  BY <1>1 DEF ClockStep, Match, MatchEdge, Fire
<1>2. CASE ~Edge
  BY <1>2 DEF ClockStep, Match, MatchValue, Fire
<1> QED
  BY <1>1, <1>2

LEMMA LatencyMeans == /\ Edge => Latency = 2
                      /\ ~Edge => Latency = 1
BY DEF Latency, BlockLatency

OnMatch(s) == Len(s) >= Latency => s[Len(s) - Latency + 1] \in TriggerOn

LEMMA MatchHas ==
  ASSUME MatchInStep, RingLines = Ring(core, line)
  PROVE  /\ core.state = "ARMED" /\ trigger => OnMatch(RingOf(core, line))
         /\ core.triggered => OnMatch(RingOf(core, line))
         /\ core.state = "ARMED" /\ Edge /\ raw /\ en1 /\ core.nfilled > 0 => core.prev \in TriggerOn
BY DEF MatchInStep, OnMatch, RingOf

LEMMA MatchKeeps ==
  ASSUME RingLines' = Ring(core', line'),
         core'.state = "ARMED" /\ trigger' => OnMatch(RingOf(core', line')),
         core'.triggered => OnMatch(RingOf(core', line')),
         core'.state = "ARMED" /\ Edge /\ raw' /\ en1' /\ core'.nfilled > 0 => core'.prev \in TriggerOn
  PROVE  MatchInStep'
BY DEF MatchInStep, OnMatch, RingOf, Latency

LEMMA NothingMatches == OnMatch(<<>>)
<1>1. Len(<<>>) = 0
  OBVIOUS
<1> QED
  BY <1>1, LatencyMeans DEF OnMatch

LEMMA MatchKept ==
  ASSUME IInv, NEW v \in Values, ClockStep(v), RingLines' = Ring(core', line')
  PROVE  MatchInStep'
<1>1. /\ Kept /\ RingLines = Ring(core, line) /\ MatchInStep /\ CountersInStep
      /\ core \in Registers /\ RingFacts(core, line, before)
  BY InvariantKept DEF IInv, KeptIsRecent, Kept
<1> DEFINE s == RingOf(core, line)
           t == RingOf(core', line')
<1> HIDE DEF s, t
<1>2. /\ core.state = "ARMED" /\ trigger => OnMatch(s)
      /\ core.triggered => OnMatch(s)
      /\ core.state = "ARMED" /\ Edge /\ raw /\ en1 /\ core.nfilled > 0 => core.prev \in TriggerOn
  BY <1>1, MatchHas DEF s
<1>3. SUFFICES /\ core'.state = "ARMED" /\ trigger' => OnMatch(t)
               /\ core'.triggered => OnMatch(t)
               /\ core'.state = "ARMED" /\ Edge /\ raw' /\ en1' /\ core'.nfilled > 0
                    => core'.prev \in TriggerOn
  BY MatchKeeps DEF t
<1>4. CASE Idles
  <2>1. core'.state = "IDLE" /\ core'.triggered = core.triggered /\ t = s
    BY <1>1, <1>4, IdlesKept DEF s, t, RingOf
  <2> QED
    BY <1>2, <2>1
<1>5. CASE Rearms
  <2>1. core'.nfilled = 0 /\ t = <<>>
    BY <1>5, EmptyRing DEF Rearms, t, RingOf
  <2>2. ~(core'.nfilled > 0)
    BY <2>1
  <2> QED
    BY <2>1, <2>2, NothingMatches
<1>6. CASE Waits(v)
  <2>1. /\ core.state = "ARMED" /\ core'.triggered = core.triggered /\ core' \in Registers
        /\ \/ core'.nfilled = 0
           \/ core.nfilled = 0 /\ core.nfilled < core.pre_lines
           \/ core.nfilled > 0 /\ EndsIn(Append(s, v), t)
           \/ /\ core.nfilled > 0 /\ v = core.prev
              /\ \A i \in 1..Len(t) : t[i] = v
    BY <1>6 DEF Waits, ArmedOutcome, s, t, RingOf
  <2>2. ~core'.triggered
    BY <1>1, <2>1 DEF Kept, PostFacts
  <2>3. core'.nfilled \in Nat /\ core.nfilled \in Nat /\ core.pre_lines \in Nat
    BY <1>1, <2>1, RegisterTypes
  <2>4. CASE core'.nfilled = 0
    <3>1. t = <<>>
      BY <2>4, EmptyRing DEF t, RingOf
    <3>2. ~(core'.nfilled > 0)
      BY <2>4
    <3> QED
      BY <2>2, <3>1, <3>2, NothingMatches
  <2>5. CASE core'.nfilled > 0
    <3>1. t \in Seq(Values) /\ t # <<>> /\ Last(t) = v /\ core'.prev = v
      BY <1>6, <2>5, WaitsEnd DEF t
    <3>2. Len(t) \in Nat /\ Len(t) >= 1 /\ t[Len(t)] = v
      BY <3>1, LastIsEnd
    <3>3. Edge /\ raw' => core'.prev \in TriggerOn
      BY <3>1, MatchMeans
    <3>4. ASSUME ~Edge, trigger' PROVE OnMatch(t)
      <4>1. v \in TriggerOn /\ Latency = 1
        BY <3>4, MatchMeans, LatencyMeans
      <4>2. Len(t) - Latency + 1 = Len(t)
        BY <3>2, <4>1
      <4> QED
        BY <3>2, <4>1, <4>2 DEF OnMatch
    <3>5. ASSUME Edge, trigger', Len(t) >= 2 PROVE t[Len(t) - 1] \in TriggerOn
      <4>1. raw /\ en1 /\ core.nfilled >= core.pre_lines
        BY <3>5, MatchMeans DEF Ready
      <4>2. core.nfilled > 0
        BY <2>1, <2>3, <2>5, <4>1
      <4>3. core.prev \in TriggerOn
        BY <1>2, <2>1, <3>5, <4>1, <4>2
      <4>4. CASE EndsIn(Append(s, v), t)
        <5>1. /\ s \in Seq(Values) /\ s # <<>> /\ Last(s) = core.prev
          <6>1. RingFacts(core, line, before) /\ before \in Seq(Values) /\ core.state = "ARMED"
            BY <1>1, <2>1 DEF Kept
          <6>2. Last(s) = core.prev
            BY <4>2, <6>1, RunIsLast DEF s, RingOf
          <6>3. s \in Seq(Values) /\ s # <<>>
            BY <4>2, <6>1 DEF RingFacts, s, RingOf
          <6> QED
            BY <6>2, <6>3
        <5>2. Len(s) \in Nat /\ Len(s) >= 1 /\ s[Len(s)] = core.prev
          BY <5>1, LastIsEnd
        <5>3. Append(s, v) \in Seq(Values) /\ Len(Append(s, v)) = Len(s) + 1
              /\ Append(s, v)[Len(s)] = s[Len(s)]
          BY <5>1, <5>2
        <5>4. t[Len(t) - 1] = Append(s, v)[Len(s) + 1 - Len(t) + (Len(t) - 1)]
          BY <3>2, <3>5, <4>4, <5>2, <5>3 DEF EndsIn
        <5>5. Len(s) + 1 - Len(t) + (Len(t) - 1) = Len(s)
          BY <3>2, <5>2
        <5> QED
          BY <4>3, <5>2, <5>3, <5>4, <5>5
      <4>5. CASE v = core.prev /\ \A i \in 1..Len(t) : t[i] = v
        <5>1. Len(t) - 1 \in 1..Len(t)
          BY <3>2, <3>5
        <5> QED
          BY <4>3, <4>5, <5>1
      <4> QED
        BY <2>1, <2>3, <2>5, <4>2, <4>4, <4>5
    <3>6. ASSUME Edge, trigger' PROVE OnMatch(t)
      <4>1. Latency = 2
        BY <3>6, LatencyMeans
      <4>2. Len(t) - Latency + 1 = Len(t) - 1
        BY <3>2, <4>1
      <4> QED
        BY <3>5, <3>6, <4>1, <4>2 DEF OnMatch
    <3> QED
      BY <2>2, <3>3, <3>4, <3>6
  <2> QED
    BY <2>3, <2>4, <2>5
<1>7. CASE Triggers(v)
  <2>1. core.state = "ARMED" /\ trigger /\ core'.state = "CAPTURING" /\ t = s
    BY <1>7 DEF Triggers, AfterOutcome, s, t, RingOf
  <2> QED
    BY <1>2, <2>1
<1>8. CASE Records(v)
  <2>1. core.state = "CAPTURING" /\ core'.state = "CAPTURING" /\ t = s
    BY <1>8 DEF Records, AfterOutcome, s, t, RingOf
  <2>2. core.triggered
    BY <1>1, <2>1 DEF CountersInStep
  <2> QED
    BY <1>2, <2>1, <2>2
<1> QED
  BY <1>4, <1>5, <1>6, <1>7, <1>8, Outcomes
-----------------------------------------------------------------------------
(* The invariant, and what it implies.                                     *)

LEMMA InvariantInit ==
  ASSUME Init
  PROVE  IInv
<1>1. PICK v \in Values : CoreInit(v)
  BY DEF Init
<1>2. 0 \in Lines /\ 0 \in 0..CountMax /\ 0 \in Nat /\ 0 \in 0..CycleWrap-1
  BY RleDepthAssumption, CountMaxAssumption, CycleAssumption DEF Lines
<1>3. /\ core \in Registers /\ core.state = "IDLE" /\ ~core.triggered /\ core.nfilled = 0
      /\ core.pre_lines = 0
  BY <1>1, <1>2 DEF CoreInit, Registers, States
<1>4. line \in [Lines -> {Stale} \union Encoded]
  BY <1>1 DEF CoreInit
<1>5. /\ ~arm_s /\ arm_s \in BOOLEAN /\ abort_s \in BOOLEAN /\ plan = Reset /\ cycles = 0
      /\ before = <<>> /\ after = <<>>
  BY DEF Init
<1>6. trigger \in BOOLEAN /\ fired \in BOOLEAN /\ raw \in BOOLEAN /\ en1 \in BOOLEAN /\ en2 \in BOOLEAN
  BY DEF Init, TriggerInit
<1>7. TypeOK
  BY <1>2, <1>3, <1>4, <1>5, <1>6 DEF TypeOK
<1>8. ~(core.nfilled > 0) /\ core.nfilled <= core.pre_lines /\ 1..core.nfilled = {}
  BY <1>3
<1>9. RingInStep /\ RingIsRecent
  BY <1>3, <1>8 DEF RingInStep, RingIsRecent
<1>10. PostInStep /\ PostIsComplete /\ CyclesCountSamples
  BY <1>3 DEF PostInStep, PostIsComplete, CyclesCountSamples
<1>11. CountersInStep /\ MatchInStep
  BY <1>3, <1>5 DEF CountersInStep, MatchInStep
<1> QED
  BY <1>7, <1>9, <1>10, <1>11 DEF IInv, KeptIsRecent

LEMMA InvariantStep ==
  ASSUME IInv, [Next]_rleVars
  PROVE  IInv'
<1>1. CASE UNCHANGED rleVars
  <2>1. /\ core' = core /\ line' = line /\ arm_s' = arm_s /\ abort_s' = abort_s /\ plan' = plan
        /\ cycles' = cycles /\ before' = before /\ after' = after
        /\ trigger' = trigger /\ fired' = fired /\ raw' = raw /\ en1' = en1 /\ en2' = en2
    BY <1>1 DEF rleVars, triggerVars
  <2>2. RingLines' = RingLines /\ PostLines' = PostLines
    BY <2>1 DEF RingLines, PostLines, EndPtr
  <2>3. TypeOK'
    BY <2>1 DEF IInv, KeptIsRecent, TypeOK
  <2>4. RingInStep'
    BY <2>1, <2>2 DEF IInv, KeptIsRecent, RingInStep, Full, RingNext
  <2>5. RingIsRecent' /\ PostIsComplete'
    BY <2>1, <2>2 DEF IInv, KeptIsRecent, RingIsRecent, PostIsComplete
  <2>6. PostInStep'
    BY <2>1 DEF IInv, KeptIsRecent, PostInStep
  <2>7. CountersInStep' /\ CyclesCountSamples'
    BY <2>1 DEF IInv, KeptIsRecent, CountersInStep, CyclesCountSamples
  <2>8. MatchInStep'
    BY <2>1, <2>2 DEF IInv, KeptIsRecent, MatchInStep, Latency
  <2> QED
    BY <2>3, <2>4, <2>5, <2>6, <2>7, <2>8 DEF IInv, KeptIsRecent
<1>2. CASE Next
  <2>1. PICK v \in Values : ClockStep(v)
    BY <1>2, EveryClock
  <2>2. Kept'
    BY <2>1, Outcomes
  <2>3. TypeOK'
    BY <2>1, <2>2, TypesKept DEF IInv, KeptIsRecent
  <2>4. RingFacts(core', line', before') /\ PostFacts(core', line', after') /\ core' \in Registers
    BY <2>2 DEF Kept
  <2>5. RingInStep' /\ RingIsRecent' /\ RingLines' = Ring(core', line')
    BY <2>3, <2>4, RingKeeps
  <2>6. PostInStep' /\ PostIsComplete'
    BY <2>4, PostKeeps
  <2>7. CountersInStep' /\ CyclesCountSamples'
    BY <2>1, CountersKept
  <2>8. MatchInStep'
    BY <2>1, <2>5, MatchKept
  <2> QED
    BY <2>3, <2>5, <2>6, <2>7, <2>8 DEF IInv, KeptIsRecent
<1> QED
  BY <1>1, <1>2

(* What the registers, the ring, the lines after it and the counters say   *)
(* of each other holds in every state the cluster reaches.                 *)
THEOREM InvariantHolds == Spec => []IInv
<1>1. Init => IInv
  BY InvariantInit
<1>2. IInv /\ [Next]_rleVars => IInv'
  BY InvariantStep
<1> QED
  BY <1>1, <1>2, PTL DEF Spec

(* Whatever the samples, the plan, the depth and the width of a count: the *)
(* ring, wrapped and evicting its own runs, decodes to the latest samples  *)
(* it was given, in order, without a gap and never to nothing              *)
(* (capture_core_rle.vhd), and CYCLES is the number of samples from the    *)
(* trigger's on, which max_cycles bounds.                                  *)
THEOREM KeptIsRecentHolds == Spec => []KeptIsRecent
<1>1. IInv => KeptIsRecent
  BY DEF IInv, KeptIsRecent
<1> QED
  BY <1>1, InvariantHolds, PTL

(* The lines from the trigger's on decode to the sample of every clock:    *)
(* however long a run, and however often its count line is written again,  *)
(* the region loses none and repeats none (capture_core_rle.vhd).          *)
THEOREM PostIsCompleteHolds == Spec => []PostIsComplete
<1>1. IInv => PostIsComplete
  BY DEF IInv, KeptIsRecent
<1> QED
  BY <1>1, InvariantHolds, PTL

(* The marker the host puts on the trace of a finished capture is a sample *)
(* that met the trigger condition, one clock old with the value block and  *)
(* two with the edge block, whenever the ring decodes to that many.        *)
THEOREM MarkerOnMatchHolds == Spec => []MarkerOnMatch
<1>1. IInv => MarkerOnMatch
  <2> SUFFICES ASSUME IInv, core.triggered, Len(Decode(RingLines)) >= Latency
               PROVE  Trace[Marker + 1] \in TriggerOn
    BY DEF MarkerOnMatch
  <2> DEFINE s == Decode(RingLines)
             t == Decode(PostLines)
  <2>1. Kept /\ RingLines = Ring(core, line) /\ PostLines = Post(core, line)
    <3>1. Kept /\ RingLines = Ring(core, line)
      BY InvariantKept
    <3>2. core \in Registers
      BY <3>1 DEF Kept
    <3> QED
      BY <3>1, <3>2, RegisterTypes DEF PostLines, Post, EndPtr
  <2>2. s \in Seq(Values)
    <3>1. core.nfilled \in Nat /\ RingFacts(core, line, before)
      BY <2>1, RegisterTypes DEF Kept
    <3>2. CASE core.nfilled > 0
      BY <2>1, <3>1, <3>2 DEF RingFacts
    <3>3. CASE core.nfilled = 0
      <4>1. Decode(RingLines) = <<>>
        BY <2>1, <3>3, EmptyRing
      <4> QED
        BY <4>1
    <3> QED
      BY <3>1, <3>2, <3>3
  <2>3. t \in Seq(Values)
    BY <2>1 DEF Kept, PostFacts
  <2>4. s[Len(s) - Latency + 1] \in TriggerOn
    BY DEF IInv, KeptIsRecent, MatchInStep
  <2>5. Latency \in 1..2
    BY LatencyMeans
  <2>6. Len(s) - Latency \in Nat /\ Len(s) - Latency + 1 \in 1..Len(s)
    BY <2>2, <2>5
  <2>7. Marker = Len(s) - Latency
    BY <2>6 DEF Marker
  <2>8. Trace = s \o t
    BY DEF Trace
  <2> HIDE DEF s, t
  <2>9. (s \o t)[Len(s) - Latency + 1] = s[Len(s) - Latency + 1]
    BY <2>2, <2>3, <2>6
  <2> QED
    BY <2>4, <2>7, <2>8, <2>9
<1> QED
  BY <1>1, InvariantHolds, PTL
=============================================================================
