------------------------- MODULE SubPattern_proofs -------------------------
(***************************************************************************)
(* Index arithmetic of the split, for patterns of every length: where the  *)
(* two halves lie, and why comparing the other half with the skipped bytes *)
(* decides whether the whole pattern stands in the text.                   *)
(***************************************************************************)
EXTENDS SubPattern, TLAPS, WellFoundedInduction

(* start and indexEnd, computed by case distinction in                     *)
(* acsmAddPatternWithOddEven, in closed form: start leads back from two    *)
(* bytes past the matched half to the beginning of the pattern, indexEnd   *)
(* is the last index of the other half.                                    *)
LEMMA SplitArithmetic ==
    ASSUME NEW m \in Nat, m >= 2, NEW f \in 0 .. 1
    PROVE  /\ HalfLength(m, f) \in Nat /\ HalfLength(m, f) >= 1
           /\ Start(m, f) = 2 * HalfLength(m, f) + f
           /\ Start(m, f) \in m .. m + 1
           /\ IndexEnd(m, f) = 2 * HalfLength(m, 1 - f) - 1 - f
           /\ IndexEnd(m, f) \in m - 2 .. m - 1
           /\ Start(m, f) = m + 1 <=> IndexEnd(m, f) = m - 2
  BY DEF HalfLength, Start, IndexEnd, Same

(* Every index of the pattern belongs to the matched half or to the        *)
(* indices the full match visits.                                          *)
LEMMA HalvesCover ==
    ASSUME NEW m \in Nat, m >= 2, NEW f \in 0 .. 1, NEW i \in 0 .. m - 1
    PROVE  (\E j \in 1 .. HalfLength(m, f) : i = 2 * j - 2 + f)
           \/ i \in RestIndices(IndexEnd(m, f))
<1>1. CASE i % 2 = f
  <2>1. (i - f) \div 2 + 1 \in 1 .. HalfLength(m, f)
    BY <1>1 DEF HalfLength
  <2>2. i = 2 * ((i - f) \div 2 + 1) - 2 + f
    BY <1>1
  <2>3. QED BY <2>1, <2>2
<1>2. CASE i % 2 # f
  <2>1. IndexEnd(m, f) = 2 * HalfLength(m, 1 - f) - 1 - f
    BY SplitArithmetic
  <2>2. i <= IndexEnd(m, f) /\ (IndexEnd(m, f) - i) % 2 = 0
    BY <1>2, <2>1 DEF HalfLength
  <2>3. QED BY <2>2, SplitArithmetic DEF RestIndices
<1>3. QED BY <1>1, <1>2

LEMMA HalfType ==
    ASSUME NEW C, NEW p \in Seq(C), Len(p) >= 2, NEW f \in 0 .. 1
    PROVE  /\ Half(p, f) \in Seq(C)
           /\ Len(Half(p, f)) = HalfLength(Len(p), f)
           /\ \A j \in 1 .. HalfLength(Len(p), f) : Half(p, f)[j] = At(p, 2 * j - 2 + f)
<1>0. Len(p) \in Nat
  OBVIOUS
<1>1. HalfLength(Len(p), f) \in Nat
  BY <1>0, SplitArithmetic
<1>2. \A j \in 1 .. HalfLength(Len(p), f) : 2 * j - 1 + f \in 1 .. Len(p)
  BY <1>0 DEF HalfLength
<1>3. Half(p, f) \in [1 .. HalfLength(Len(p), f) -> C]
  BY <1>1, <1>2 DEF Half
<1>4. \A j \in 1 .. HalfLength(Len(p), f) : Half(p, f)[j] = At(p, 2 * j - 2 + f)
  BY <1>1, <1>2 DEF Half, At
<1>5. QED BY <1>1, <1>3, <1>4

(* h bytes of p, from f on by two, stand in t and end two bytes before x.  *)
HalfStands(p, t, f, h, x) ==
    \A j \in 1 .. h : At(p, 2 * j - 2 + f) = At(t, x - 2 - 2 * (h - j))

(* The bytes of p that the full match visits stand in t at offset s.       *)
OtherHalfStands(p, t, ie, s) == \A i \in RestIndices(ie) : At(p, i) = At(t, s + i)

(* m bytes of p stand in t at offset s.                                    *)
AllStands(p, t, m, s) == \A i \in 0 .. m - 1 : At(p, i) = At(t, s + i)

(* The matched half and the visited indices are all the indices.           *)
Cover(m, f, h, ie) ==
    \A i \in 0 .. m - 1 : (\E j \in 1 .. h : i = 2 * j - 2 + f) \/ i \in RestIndices(ie)

(* The half of p that the automaton matched ends two bytes before x. *)
HalfEndsAt(p, f, t, x) ==
    /\ 2 * HalfLength(Len(p), f) <= x
    /\ HalfStands(p, t, f, HalfLength(Len(p), f), x)

(* The decision of fullMatchOrigin, method_odd_even_snort.c:751-769. *)
RestStands(p, f, t, x) ==
    LET start == x - Start(Len(p), f) IN
    /\ start >= 0
    /\ start + IndexEnd(Len(p), f) < Len(t)
    /\ OtherHalfStands(p, t, IndexEnd(Len(p), f), start)

(* Both bounds, for plain numbers: m stands for the length of the pattern, *)
(* h for HalfLength, st for Start, ie for IndexEnd, L for the length of    *)
(* the text.                                                               *)
LEMMA SameByte ==
    ASSUME NEW f \in 0 .. 1, NEW h \in Nat, NEW j \in Nat, NEW x \in Int
    PROVE  x - 2 - 2 * (h - j) = (x - (2 * h + f)) + (2 * j - 2 + f)
  OBVIOUS

LEMMA BoundsAgree ==
    ASSUME NEW m \in Nat, NEW st \in m .. m + 1, NEW ie \in m - 2 .. m - 1,
           (st = m + 1) <=> (ie = m - 2),
           NEW L \in Nat, NEW x \in Nat, x % 2 = 0, x <= L + 1
    PROVE  (x - st) + ie < L <=> (x - st) + m <= L
<1>1. CASE st = m + 1 /\ ie = m - 2
  BY <1>1
<1>2. CASE st = m /\ ie = m - 1
  BY <1>2
<1>3. QED BY <1>1, <1>2

(* Equal bytes, for plain numbers.                                         *)
LEMMA BytesAgree ==
    ASSUME NEW p, NEW t, NEW f \in 0 .. 1, NEW m \in Nat, NEW h \in Nat,
           NEW ie \in m - 2 .. m - 1, NEW x \in Nat,
           HalfStands(p, t, f, h, x), Cover(m, f, h, ie)
    PROVE  OtherHalfStands(p, t, ie, x - (2 * h + f)) <=> AllStands(p, t, m, x - (2 * h + f))
<1> DEFINE s == x - (2 * h + f)
<1>1. ASSUME OtherHalfStands(p, t, ie, s), NEW i \in 0 .. m - 1
      PROVE  At(p, i) = At(t, s + i)
  <2>1. CASE \E j \in 1 .. h : i = 2 * j - 2 + f
    <3>1. PICK j \in 1 .. h : i = 2 * j - 2 + f
      BY <2>1
    <3>2. x - 2 - 2 * (h - j) = s + i
      BY <3>1, SameByte
    <3>3. QED BY <3>1, <3>2 DEF HalfStands
  <2>2. CASE i \in RestIndices(ie)
    BY <2>2, <1>1 DEF OtherHalfStands
  <2>3. QED BY <2>1, <2>2 DEF Cover
<1>2. RestIndices(ie) \subseteq 0 .. m - 1
  BY DEF RestIndices
<1>3. QED BY <1>1, <1>2 DEF OtherHalfStands, AllStands

(* The two-phase idea: once a half has matched, the pattern stands in the  *)
(* text exactly when the full match of the other half succeeds, the bounds *)
(* checks at both ends of the text included.                               *)
THEOREM TwoPhaseMatch ==
    ASSUME NEW C, NEW p \in Seq(C), Len(p) >= 2, NEW f \in 0 .. 1,
           NEW t \in Seq(C), NEW x \in Nat, x % 2 = 0, x <= Len(t) + 1,
           HalfEndsAt(p, f, t, x)
    PROVE  RestStands(p, f, t, x) <=> OccursAt(p, t, x - Start(Len(p), f))
<1> DEFINE m == Len(p)
           L == Len(t)
           h == HalfLength(m, f)
           st == Start(m, f)
           ie == IndexEnd(m, f)
<1>1. m \in Nat /\ L \in Nat /\ m >= 2 /\ x <= L + 1
  OBVIOUS
<1>2. /\ h \in Nat /\ st = 2 * h + f
      /\ st \in m .. m + 1 /\ ie \in m - 2 .. m - 1
      /\ (st = m + 1) <=> (ie = m - 2)
  BY <1>1, SplitArithmetic
<1>3. Cover(m, f, h, ie)
  BY <1>1, HalvesCover DEF Cover
<1>4. HalfStands(p, t, f, h, x)
  BY DEF HalfEndsAt
<1>5. (x - st) + ie < L <=> (x - st) + m <= L
  <2> HIDE DEF m, L, h, st, ie
  <2> QED BY <1>1, <1>2, BoundsAgree
<1>6. OtherHalfStands(p, t, ie, x - st) <=> AllStands(p, t, m, x - st)
  <2> HIDE DEF m, L, h, st, ie
  <2> QED BY <1>1, <1>2, <1>3, <1>4, BytesAgree
<1>7. QED BY <1>5, <1>6 DEF RestStands, OccursAt, AllStands

LEMMA ParityAligns ==
    ASSUME NEW o \in Nat, NEW h \in Nat, NEW f \in 0 .. 1, f = o % 2,
           NEW m \in Nat, NEW st \in m .. m + 1, NEW L \in Nat, st = 2 * h + f, o + m <= L
    PROVE  /\ o + st \in Nat /\ (o + st) % 2 = 0 /\ o + st <= L + 1
           /\ 2 * h <= o + st
  OBVIOUS

LEMMA AllBytesAgree ==
    ASSUME NEW p, NEW t, NEW o \in Nat, NEW m \in Nat, NEW h \in Nat, NEW f \in 0 .. 1,
           2 * h + f \in m .. m + 1, AllStands(p, t, m, o)
    PROVE  HalfStands(p, t, f, h, o + (2 * h + f))
<1>1. ASSUME NEW j \in 1 .. h
      PROVE  At(p, 2 * j - 2 + f) = At(t, (o + (2 * h + f)) - 2 - 2 * (h - j))
  <2>1. 2 * j - 2 + f \in 0 .. m - 1
    OBVIOUS
  <2>2. (o + (2 * h + f)) - 2 - 2 * (h - j) = o + (2 * j - 2 + f)
    OBVIOUS
  <2>3. QED BY <2>1, <2>2 DEF AllStands
<1>2. QED BY <1>1 DEF HalfStands

(* The other direction: where a pattern of two bytes or more stands, the   *)
(* half whose flag is the parity of the offset ends on a byte the          *)
(* automaton reads, and while the text is being read.                      *)
LEMMA OccurrenceSeen ==
    ASSUME NEW C, NEW p \in Seq(C), Len(p) >= 2, NEW t \in Seq(C),
           NEW o \in Nat, OccursAt(p, t, o)
    PROVE  LET f == o % 2
               x == o + Start(Len(p), f)
           IN  /\ f \in 0 .. 1
               /\ x \in Nat /\ x % 2 = 0 /\ x <= Len(t) + 1
               /\ HalfEndsAt(p, f, t, x)
<1>1. Len(p) \in Nat /\ Len(t) \in Nat /\ o % 2 \in 0 .. 1
  OBVIOUS
<1>2. /\ HalfLength(Len(p), o % 2) \in Nat
      /\ Start(Len(p), o % 2) = 2 * HalfLength(Len(p), o % 2) + (o % 2)
      /\ Start(Len(p), o % 2) \in Len(p) .. Len(p) + 1
  BY <1>1, SplitArithmetic
<1>3. o + Len(p) <= Len(t) /\ AllStands(p, t, Len(p), o)
  BY DEF OccursAt, AllStands
<1> DEFINE m == Len(p)
           L == Len(t)
           f == o % 2
           h == HalfLength(m, f)
           st == Start(m, f)
<1>4. /\ f \in 0 .. 1 /\ f = o % 2 /\ m \in Nat /\ L \in Nat /\ h \in Nat /\ st \in m .. m + 1
      /\ st = 2 * h + f /\ o + m <= L
      /\ AllStands(p, t, m, o)
  BY <1>1, <1>2, <1>3
<1>5. /\ o + st \in Nat /\ (o + st) % 2 = 0 /\ o + st <= L + 1
      /\ 2 * h <= o + st
      /\ HalfStands(p, t, f, h, o + st)
  <2> HIDE DEF m, L, f, h, st
  <2>1. HalfStands(p, t, f, h, o + st)
    BY <1>4, AllBytesAgree
  <2>2. QED BY <1>4, <2>1, ParityAligns
<1>6. QED BY <1>1, <1>5 DEF HalfEndsAt

LEMMA StartType ==
    ASSUME NEW m \in Nat, m >= 2, NEW f \in 0 .. 1
    PROVE  Start(m, f) \in Nat
<1>1. Start(m, f) = 2 * HalfLength(m, f) + f /\ HalfLength(m, f) \in Nat
  BY SplitArithmetic
<1>2. QED BY <1>1

(* The text pointer at which an occurrence is decided tells its parity. *)
LEMMA StartParity ==
    ASSUME NEW m \in Nat, m >= 2, NEW f \in 0 .. 1, NEW x \in Nat, x % 2 = 0
    PROVE  Start(m, f) \in Nat /\ (x - Start(m, f)) % 2 = f
<1>1. Start(m, f) = 2 * HalfLength(m, f) + f /\ HalfLength(m, f) \in Nat
  BY SplitArithmetic
<1>2. QED BY <1>1

-----------------------------------------------------------------------------
(* An automaton that reads a text.                                         *)

(* The first x elements of t end with w. *)
PrefixEndsWith(t, x, w) ==
    /\ Len(w) <= x
    /\ \A k \in 1 .. Len(w) : w[k] = t[x - Len(w) + k]

LEMMA PrefixSuffix ==
    ASSUME NEW C, NEW t \in Seq(C), NEW x \in 0 .. Len(t), NEW w, Len(w) \in Nat
    PROVE  EndsWith(SubSeq(t, 1, x), w) <=> PrefixEndsWith(t, x, w)
<1>1. Len(SubSeq(t, 1, x)) = x /\ \A k \in 1 .. x : SubSeq(t, 1, x)[k] = t[k]
  OBVIOUS
<1>2. ASSUME Len(w) <= x, NEW k \in 1 .. Len(w)
      PROVE  SubSeq(t, 1, x)[x - Len(w) + k] = t[x - Len(w) + k]
  BY <1>1, <1>2
<1>3. QED BY <1>1, <1>2 DEF EndsWith, PrefixEndsWith

LEMMA SuffixOfPrefix ==
    ASSUME NEW t, NEW x \in Nat, NEW v, Len(v) \in Nat, NEW w, Len(w) \in Nat,
           PrefixEndsWith(t, x, v), EndsWith(v, w)
    PROVE  PrefixEndsWith(t, x, w)
<1>1. Len(w) <= Len(v) /\ Len(v) <= x
  BY DEF PrefixEndsWith, EndsWith
<1>2. ASSUME NEW k \in 1 .. Len(w)
      PROVE  w[k] = t[x - Len(w) + k]
  <2>1. w[k] = v[Len(v) - Len(w) + k] /\ Len(v) - Len(w) + k \in 1 .. Len(v)
    BY <1>1 DEF EndsWith
  <2>2. v[Len(v) - Len(w) + k] = t[x - Len(v) + (Len(v) - Len(w) + k)]
    BY <2>1 DEF PrefixEndsWith
  <2>3. x - Len(v) + (Len(v) - Len(w) + k) = x - Len(w) + k
    OBVIOUS
  <2>4. QED BY <2>1, <2>2, <2>3
<1>3. QED BY <1>1, <1>2 DEF PrefixEndsWith

LEMMA ShorterOfPrefix ==
    ASSUME NEW t, NEW x \in Nat, NEW v, Len(v) \in Nat, NEW w, Len(w) \in Nat,
           PrefixEndsWith(t, x, v), PrefixEndsWith(t, x, w), Len(w) <= Len(v)
    PROVE  EndsWith(v, w)
<1>1. ASSUME NEW k \in 1 .. Len(w)
      PROVE  w[k] = v[Len(v) - Len(w) + k]
  <2>1. w[k] = t[x - Len(w) + k] /\ Len(v) - Len(w) + k \in 1 .. Len(v)
    BY DEF PrefixEndsWith
  <2>2. v[Len(v) - Len(w) + k] = t[x - Len(v) + (Len(v) - Len(w) + k)]
    BY <2>1 DEF PrefixEndsWith
  <2>3. x - Len(v) + (Len(v) - Len(w) + k) = x - Len(w) + k
    OBVIOUS
  <2>4. QED BY <2>1, <2>2, <2>3
<1>2. QED BY <1>1 DEF EndsWith

LEMMA PrefixGrows ==
    ASSUME NEW C, NEW t, NEW x \in Nat, NEW w \in Seq(C), PrefixEndsWith(t, x, w),
           At(t, x) \in C
    PROVE  PrefixEndsWith(t, x + 1, Append(w, At(t, x)))
<1> DEFINE v == Append(w, At(t, x))
<1>1. /\ Len(w) \in Nat /\ Len(v) = Len(w) + 1 /\ v[Len(v)] = t[x + 1]
      /\ \A k \in 1 .. Len(w) : v[k] = w[k]
  BY DEF At
<1>2. ASSUME NEW k \in 1 .. Len(v)
      PROVE  v[k] = t[(x + 1) - Len(v) + k]
  <2>1. CASE k = Len(v)
    <3>1. (x + 1) - Len(v) + k = x + 1
      BY <2>1, <1>1
    <3>2. QED BY <3>1, <2>1, <1>1
  <2>2. CASE k \in 1 .. Len(w)
    <3>1. v[k] = t[x - Len(w) + k]
      BY <2>2, <1>1 DEF PrefixEndsWith
    <3>2. (x + 1) - Len(v) + k = x - Len(w) + k
      BY <1>1
    <3>3. QED BY <3>1, <3>2
  <2>3. QED BY <2>1, <2>2, <1>1
<1>3. Len(v) <= x + 1
  BY <1>1 DEF PrefixEndsWith
<1>4. QED BY <1>2, <1>3 DEF PrefixEndsWith

LEMMA FrontOfPrefix ==
    ASSUME NEW t, NEW x \in Nat, NEW w, Len(w) \in Nat, NEW u, Len(u) \in Nat,
           PrefixEndsWith(t, x + 1, w), IsFrontOf(u, w)
    PROVE  PrefixEndsWith(t, x, u)
<1>1. Len(u) = Len(w) - 1 /\ Len(w) <= x + 1
  BY DEF PrefixEndsWith, IsFrontOf
<1>2. ASSUME NEW k \in 1 .. Len(u)
      PROVE  u[k] = t[x - Len(u) + k]
  <2>1. u[k] = w[k] /\ k \in 1 .. Len(w)
    BY <1>1 DEF IsFrontOf
  <2>2. w[k] = t[(x + 1) - Len(w) + k]
    BY <2>1 DEF PrefixEndsWith
  <2>3. (x + 1) - Len(w) + k = x - Len(u) + k
    BY <1>1
  <2>4. QED BY <2>1, <2>2, <2>3
<1>3. QED BY <1>1, <1>2 DEF PrefixEndsWith

(* A pattern ends at x exactly if it stands in the text Len(p) bytes before. *)
LEMMA EndsWhereItStands ==
    ASSUME NEW C, NEW t \in Seq(C), NEW x \in 0 .. Len(t), NEW p \in Seq(C)
    PROVE  PrefixEndsWith(t, x, p) <=> OccursAt(p, t, x - Len(p))
<1>1. Len(p) \in Nat /\ Len(t) \in Nat
  OBVIOUS
<1>2. ASSUME PrefixEndsWith(t, x, p) PROVE OccursAt(p, t, x - Len(p))
  <2>1. Len(p) <= x
    BY <1>2 DEF PrefixEndsWith
  <2>2. ASSUME NEW i \in 0 .. Len(p) - 1
        PROVE  At(p, i) = At(t, (x - Len(p)) + i)
    <3>1. i + 1 \in 1 .. Len(p)
      BY <1>1
    <3>2. p[i + 1] = t[x - Len(p) + (i + 1)]
      BY <1>2, <3>1 DEF PrefixEndsWith
    <3>3. x - Len(p) + (i + 1) = (x - Len(p)) + i + 1
      BY <1>1
    <3>4. QED BY <3>2, <3>3 DEF At
  <2>3. QED BY <1>1, <2>1, <2>2 DEF OccursAt
<1>3. ASSUME OccursAt(p, t, x - Len(p)) PROVE PrefixEndsWith(t, x, p)
  <2>1. Len(p) <= x
    BY <1>1, <1>3 DEF OccursAt
  <2>2. ASSUME NEW k \in 1 .. Len(p)
        PROVE  p[k] = t[x - Len(p) + k]
    <3>1. k - 1 \in 0 .. Len(p) - 1
      BY <1>1
    <3>2. At(p, k - 1) = At(t, (x - Len(p)) + (k - 1))
      BY <1>3, <3>1 DEF OccursAt
    <3>3. (k - 1) + 1 = k /\ ((x - Len(p)) + (k - 1)) + 1 = x - Len(p) + k
      BY <1>1
    <3>4. QED BY <3>2, <3>3 DEF At
  <2>3. QED BY <2>1, <2>2 DEF PrefixEndsWith
<1>4. QED BY <1>2, <1>3

(* State s is where an automaton whose states stand for the strings label  *)
(* must be once it has read the first x elements of t.                     *)
Reads(label, t, x, s) ==
    /\ PrefixEndsWith(t, x, label[s])
    /\ \A q \in DOMAIN label :
        PrefixEndsWith(t, x, label[q]) => Len(label[q]) <= Len(label[s])

LEMMA ReadsStart ==
    ASSUME NEW label, \A q \in DOMAIN label : Len(label[q]) \in Nat,
           label[0] = << >>, NEW t
    PROVE  Reads(label, t, 0, 0)
<1>1. Len(<< >>) = 0
  OBVIOUS
<1>2. QED BY <1>1 DEF Reads, PrefixEndsWith

(* One transition: the longest string of the trie that the text read ends  *)
(* with stays the longest.                                                 *)
LEMMA ReadsNext ==
    ASSUME NEW C, NEW S, NEW label \in [S -> Seq(C)],
           \A q \in S : label[q] # << >> => \E r \in S : IsFrontOf(label[r], label[q]),
           NEW t, NEW x \in Nat, At(t, x) \in C,
           NEW s \in S, NEW n \in S, Reads(label, t, x, s),
           IsLongestSuffix(label, n, Append(label[s], At(t, x)))
    PROVE  Reads(label, t, x + 1, n)
<1> DEFINE v == Append(label[s], At(t, x))
<1>1. \A q \in S : label[q] \in Seq(C) /\ Len(label[q]) \in Nat
  OBVIOUS
<1>2. v \in Seq(C) /\ Len(v) = Len(label[s]) + 1 /\ Len(v) \in Nat
  BY <1>1
<1>3. PrefixEndsWith(t, x + 1, v)
  BY <1>1, PrefixGrows DEF Reads
<1>4. IsLongestSuffix(label, n, v) /\ DOMAIN label = S
  OBVIOUS
<1> HIDE DEF v
<1>5. PrefixEndsWith(t, x + 1, label[n])
  <2>1. EndsWith(v, label[n])
    BY <1>4 DEF IsLongestSuffix
  <2>2. QED BY <2>1, <1>1, <1>2, <1>3, SuffixOfPrefix
<1>6. ASSUME NEW q \in S, PrefixEndsWith(t, x + 1, label[q])
      PROVE  Len(label[q]) <= Len(label[n])
  <2>1. CASE label[q] = << >>
    BY <2>1, <1>1
  <2>2. CASE label[q] # << >>
    <3>1. PICK u \in S : IsFrontOf(label[u], label[q])
      BY <2>2
    <3>2. PrefixEndsWith(t, x, label[u])
      BY <3>1, <1>1, <1>6, FrontOfPrefix
    <3>3. Len(label[u]) <= Len(label[s])
      BY <3>2, <1>4 DEF Reads
    <3>4. Len(label[q]) <= Len(v)
      BY <3>1, <3>3, <1>1, <1>2 DEF IsFrontOf
    <3>5. EndsWith(v, label[q])
      BY <1>1, <1>2, <1>3, <1>6, <3>4, ShorterOfPrefix
    <3>6. QED BY <3>5, <1>4 DEF IsLongestSuffix
  <2>3. QED BY <2>1, <2>2
<1>7. QED BY <1>4, <1>5, <1>6 DEF Reads

(* A string of the trie: the state ends with it exactly if what has been   *)
(* read does.                                                              *)
LEMMA ReadsLists ==
    ASSUME NEW S, NEW label, DOMAIN label = S, \A q \in S : Len(label[q]) \in Nat,
           NEW t, NEW x \in Nat, NEW s \in S, Reads(label, t, x, s),
           NEW r \in S
    PROVE  EndsWith(label[s], label[r]) <=> PrefixEndsWith(t, x, label[r])
<1>1. ASSUME EndsWith(label[s], label[r]) PROVE PrefixEndsWith(t, x, label[r])
  BY <1>1, SuffixOfPrefix DEF Reads
<1>2. ASSUME PrefixEndsWith(t, x, label[r]) PROVE EndsWith(label[s], label[r])
  <2>1. Len(label[r]) <= Len(label[s]) /\ PrefixEndsWith(t, x, label[s])
    BY <1>2 DEF Reads
  <2>2. QED BY <1>2, <2>1, ShorterOfPrefix
<1>3. QED BY <1>1, <1>2

-----------------------------------------------------------------------------
(* Every non-empty set of numbers has a smallest one.                      *)
LEMMA SmallestNumber ==
    ASSUME NEW S, S \subseteq Nat, S # {}
    PROVE  \E x \in S : \A y \in S : x <= y
<1> DEFINE R == OpToRel(<, Nat)
<1>1. PICK x \in S : \A y \in S : ~(<<y, x>> \in R)
  <2> HIDE DEF R
  <2>1. IsWellFoundedOn(R, Nat)
    BY NatLessThanWellFounded DEF R
  <2>2. QED BY <2>1, WFMin
<1>2. \A y \in S : ~(y < x)
  BY <1>1 DEF OpToRel
<1>3. QED BY <1>2

(* The longest pattern of a list exists: every non-empty set of numbers    *)
(* below a bound has a largest one.                                        *)
LEMMA LargestNumber ==
    ASSUME NEW S, S \subseteq Nat, S # {}, NEW n \in Nat, \A x \in S : x <= n
    PROVE  \E x \in S : \A y \in S : y <= x
<1> DEFINE D == {n - x : x \in S}
<1>1. D \subseteq Nat /\ D # {}
  <2>1. \A x \in S : n - x \in Nat
    OBVIOUS
  <2>2. QED BY <2>1 DEF D
<1>2. PICK d \in D : \A y \in D : d <= y
  BY <1>1, SmallestNumber
<1>3. PICK x \in S : d = n - x
  OBVIOUS
<1>4. ASSUME NEW y \in S PROVE y <= x
  <2>1. n - x <= n - y
    BY <1>2, <1>3
  <2>2. x \in Nat /\ y \in Nat
    OBVIOUS
  <2>3. QED BY <2>1, <2>2
<1>5. QED BY <1>4

=============================================================================
