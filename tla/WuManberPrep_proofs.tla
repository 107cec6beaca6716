------------------------ MODULE WuManberPrep_proofs ------------------------
(***************************************************************************)
(* The preparation of a Wu-Manber group, proved for every alphabet and     *)
(* every pattern file whose indices fit into the entries of the hash       *)
(* tables (IndicesFit): what mwmPrepPatterns delivers is what the searches *)
(* assume.                                                                 *)
(***************************************************************************)
EXTENDS WuManberPrep, TLAPS, FiniteSetTheorems, NaturalsInduction, WellFoundedInduction

(* The indices of the patterns are the same after the conversion to        *)
(* HASH_TYPE (a signed short): up to 32,768 patterns.                      *)
IndicesFit == \A f \in Files : \A k \in 0 .. Len(f) - 1 : Short(k) = k

-----------------------------------------------------------------------------
(* Numbers. *)

LEMMA SmallestNumber ==
    ASSUME NEW S, S \subseteq Nat, S # {}
    PROVE  Smallest(S) \in S /\ \A y \in S : Smallest(S) <= y
<1> DEFINE R == OpToRel(<, Nat)
<1>1. PICK x \in S : \A y \in S : ~(<<y, x>> \in R)
  <2> HIDE DEF R
  <2>1. IsWellFoundedOn(R, Nat)
    BY NatLessThanWellFounded DEF R
  <2>2. QED BY <2>1, WFMin
<1>2. \A y \in S : ~(y < x)
  BY <1>1 DEF OpToRel
<1>3. \A y \in S : x <= y
  <2>1. ASSUME NEW y \in S PROVE x <= y
    <3>1. ~(y < x) /\ x \in Nat /\ y \in Nat
      BY <1>2
    <3>2. QED BY <3>1
  <2>2. QED BY <2>1
<1>4. QED BY <1>3 DEF Smallest

(* What holds from one index to the next holds from each to all later ones. *)
LEMMA Onwards ==
    ASSUME NEW m \in Nat, NEW n \in Nat, NEW S, m \in S,
           \A k \in m .. n - 1 : k \in S => k + 1 \in S
    PROVE  \A k \in m .. n : k \in S
<1> DEFINE D == {k \in m .. n : k \notin S}
<1>1. SUFFICES ASSUME D # {} PROVE FALSE
  BY DEF D
<1>2. D \subseteq Nat
  BY DEF D
<1>3. PICK d : d = Smallest(D)
  OBVIOUS
<1>4. d \in D /\ \A k \in D : d <= k
  <2> HIDE DEF D
  <2>1. QED BY <1>1, <1>2, <1>3, SmallestNumber
<1>5. d \in m .. n /\ d \notin S
  BY <1>4 DEF D
<1>6. d - 1 \in m .. n - 1 /\ (d - 1) + 1 = d
  BY <1>5
<1>7. d - 1 \notin S
  BY <1>5, <1>6
<1>8. d - 1 \in D
  BY <1>6, <1>7 DEF D
<1>9. QED BY <1>4, <1>5, <1>8

-----------------------------------------------------------------------------
(* The order of sortcmp, as far as the hashes tell patterns apart: by the  *)
(* first byte, patterns of one byte first, by the second byte.             *)
InHashOrder(a, b) ==
    \/ a[1] < b[1]
    \/ a[1] = b[1] /\ (Len(a) = 1 \/ (Len(b) > 1 /\ a[2] <= b[2]))

LEMMA OneOrMore ==
    ASSUME NEW n \in Nat, n > 0
    PROVE  n = 1 \/ n > 1
  OBVIOUS

LEMMA Bytes ==
    ASSUME NEW a \in Seq(Char), Len(a) > 0
    PROVE  /\ Len(a) \in Nat
           /\ a[1] \in Nat
           /\ Len(a) > 1 => a[2] \in Nat
           /\ Len(a) = 1 \/ Len(a) > 1
<1>1. Len(a) \in Nat /\ \A k \in 1 .. Len(a) : a[k] \in Char
  OBVIOUS
<1>2. 1 \in 1 .. Len(a)
  BY <1>1
<1>3. Len(a) > 1 => 2 \in 1 .. Len(a)
  BY <1>1
<1>4. Len(a) = 1 \/ Len(a) > 1
  BY <1>1, OneOrMore
<1>5. QED BY <1>1, <1>2, <1>3, <1>4, CharAssumption

LEMMA SortedByHash ==
    ASSUME NEW a \in Seq(Char), NEW b \in Seq(Char), Len(a) > 0, Len(b) > 0,
           NotAfter(a, b)
    PROVE  InHashOrder(a, b)
<1>1. /\ Len(a) \in Nat /\ a[1] \in Nat /\ (Len(a) > 1 => a[2] \in Nat)
      /\ Len(b) \in Nat /\ b[1] \in Nat /\ (Len(b) > 1 => b[2] \in Nat)
  BY Bytes
<1>2. CASE \E k \in 1 .. Len(a) :
             k <= Len(b) /\ a[k] < b[k] /\ \A j \in 1 .. k - 1 : a[j] = b[j]
  <2>1. PICK k \in 1 .. Len(a) :
               k <= Len(b) /\ a[k] < b[k] /\ \A j \in 1 .. k - 1 : a[j] = b[j]
    BY <1>2
  <2>2. CASE k = 1
    BY <2>1, <2>2 DEF InHashOrder
  <2>3. CASE k = 2
    <3>1. a[1] = b[1] /\ a[2] < b[2] /\ Len(a) > 1 /\ Len(b) > 1
      BY <1>1, <2>1, <2>3
    <3>2. a[2] <= b[2]
      BY <1>1, <3>1
    <3>3. QED BY <3>1, <3>2 DEF InHashOrder
  <2>4. CASE k > 2
    <3>1. 1 \in 1 .. k - 1 /\ 2 \in 1 .. k - 1 /\ Len(a) > 1 /\ Len(b) > 1
      BY <1>1, <2>1, <2>4
    <3>2. a[1] = b[1] /\ a[2] = b[2]
      BY <2>1, <3>1
    <3>3. a[2] <= b[2]
      BY <1>1, <3>1, <3>2
    <3>4. QED BY <3>1, <3>2, <3>3 DEF InHashOrder
  <2>5. QED BY <2>2, <2>3, <2>4
<1>3. CASE Len(a) <= Len(b) /\ \A j \in 1 .. Len(a) : a[j] = b[j]
  <2>1. a[1] = b[1]
    BY <1>1, <1>3
  <2>2. CASE Len(a) = 1
    BY <2>1, <2>2 DEF InHashOrder
  <2>3. CASE Len(a) > 1
    <3>1. a[2] = b[2] /\ Len(b) > 1
      BY <1>1, <1>3, <2>3
    <3>2. a[2] <= b[2]
      BY <1>1, <2>3, <3>1
    <3>3. QED BY <2>1, <3>1, <3>2 DEF InHashOrder
  <2>4. Len(a) = 1 \/ Len(a) > 1
    BY Bytes
  <2>5. QED BY <2>2, <2>3, <2>4
<1>4. QED BY <1>2, <1>3 DEF NotAfter

LEMMA HashOrderTransitive ==
    ASSUME NEW a \in Seq(Char), NEW b \in Seq(Char), NEW c \in Seq(Char),
           Len(a) > 0, Len(b) > 0, Len(c) > 0,
           InHashOrder(a, b), InHashOrder(b, c)
    PROVE  InHashOrder(a, c)
<1>1. /\ Len(a) \in Nat /\ a[1] \in Nat /\ (Len(a) > 1 => a[2] \in Nat)
      /\ Len(b) \in Nat /\ b[1] \in Nat /\ (Len(b) > 1 => b[2] \in Nat)
      /\ Len(c) \in Nat /\ c[1] \in Nat /\ (Len(c) > 1 => c[2] \in Nat)
  BY Bytes
<1>2. CASE a[1] < c[1]
  BY <1>2 DEF InHashOrder
<1>3. CASE a[1] = b[1] /\ b[1] = c[1]
  <2>1. Len(a) = 1 \/ (Len(b) > 1 /\ a[2] <= b[2])
    BY <1>1, <1>3 DEF InHashOrder
  <2>2. Len(b) = 1 \/ (Len(c) > 1 /\ b[2] <= c[2])
    BY <1>1, <1>3 DEF InHashOrder
  <2>3. CASE Len(a) = 1
    BY <1>3, <2>3 DEF InHashOrder
  <2>4. CASE Len(a) # 1
    <3>1. Len(b) > 1 /\ a[2] <= b[2]
      BY <2>1, <2>4
    <3>2. Len(a) > 1
      BY <2>4, Bytes
    <3>4. Len(b) # 1
      BY <1>1, <3>1
    <3>5. Len(c) > 1 /\ b[2] <= c[2]
      BY <2>2, <3>4
    <3>3. a[2] <= c[2]
      BY <1>1, <3>1, <3>2, <3>5
    <3>6. QED BY <1>3, <3>1, <3>5, <3>3 DEF InHashOrder
  <2>5. QED BY <2>3, <2>4
<1>4. a[1] <= b[1] /\ b[1] <= c[1]
  BY <1>1 DEF InHashOrder
<1>5. QED BY <1>1, <1>2, <1>3, <1>4

LEMMA HashOrderReflexive ==
    ASSUME NEW a \in Seq(Char), Len(a) > 0
    PROVE  InHashOrder(a, a)
  BY Bytes DEF InHashOrder

-----------------------------------------------------------------------------
(* The invariant.                                                          *)

Patterns == [psPat : Seq(Char), psPatCase : Seq(Char), psNoCase : Nat, psIID : Nat]

(* The sorted copy of the patterns holds each pattern of the file f once.  *)
ArrayHolds(f, g) ==
    \A n \in DOMAIN f :
        /\ Cardinality({k \in Indices(g) : g.msPatArray[k].psIID = n - 1}) = 1
        /\ \E k \in Indices(g) : g.msPatArray[k] = PatternStruct(f[n], n - 1)

Sorted(g) ==
    \A k \in Indices(g) :
        k > 0 => InHashOrder(g.msPatArray[k - 1].psPat, g.msPatArray[k].psPat)

ArrayCorrect(f, g) ==
    /\ g.msNumPatterns \in Nat
    /\ g.msPatArray \in [Indices(g) -> Patterns]
    /\ \A k \in Indices(g) :
        /\ PatLen(g, k) > 0
        /\ g.msPatArray[k].psPat = ToUpper(g.msPatArray[k].psPatCase)
    /\ ArrayHolds(f, g)
    /\ Sorted(g)

SamePrefix(g, k, l) ==
    /\ PatLen(g, k) > 1 /\ PatLen(g, l) > 1
    /\ PatByte(g, k, 0) = PatByte(g, l, 0)
    /\ PatByte(g, k, 1) = PatByte(g, l, 1)

SameByte(g, k, l) ==
    /\ PatLen(g, k) = 1 /\ PatLen(g, l) = 1
    /\ PatByte(g, k, 0) = PatByte(g, l, 0)

(* The patterns before n are hashed, and n is in none of their groups.     *)
HashedUpTo(g, n) ==
    /\ n \in 0 .. g.msNumPatterns
    /\ g.msNumArray \in [Indices(g) -> Nat]
    /\ g.msHash \in [Char \X Char -> (0 .. n - 1) \cup {-1}]
    /\ g.msHash1 \in [Char -> (0 .. n - 1) \cup {-1}]
    /\ \A w \in Char \X Char :
        GroupAt(g, g.msHash[w]) =
            {k \in 0 .. n - 1 : PatLen(g, k) > 1 /\ w = <<PatByte(g, k, 0), PatByte(g, k, 1)>>}
    /\ \A c \in Char :
        GroupAt(g, g.msHash1[c]) =
            {k \in 0 .. n - 1 : PatLen(g, k) = 1 /\ c = PatByte(g, k, 0)}
    /\ n \in Indices(g) /\ n > 0 => ~SamePrefix(g, n - 1, n) /\ ~SameByte(g, n - 1, n)

(* The shifts are safe for the patterns before n, and none is shorter than *)
(* some pattern asks for.                                                  *)
CharShiftsUpTo(g, n) ==
    /\ n \in 0 .. g.msNumPatterns
    /\ g.msShiftLen \in Nat \ {0}
    /\ \A k \in Indices(g) : g.msShiftLen <= PatLen(g, k)
    /\ g.msShift \in [Char -> 0 .. g.msShiftLen]
    /\ \A k \in 0 .. n - 1, j \in 0 .. g.msShiftLen - 1 :
        g.msShift[PatByte(g, k, j)] <= g.msShiftLen - 1 - j
    /\ \A c \in Char :
        \/ g.msShift[c] = g.msShiftLen
        \/ \E k \in Indices(g) :
            g.msShift[c] < g.msShiftLen
            /\ PatByte(g, k, g.msShiftLen - 1 - g.msShift[c]) = c

WordShiftsUpTo(g, n) ==
    /\ n \in 0 .. g.msNumPatterns
    /\ g.msShift2 \in [Char \X Char -> 0 .. g.msShiftLen - 1]
    /\ \A k \in 0 .. n - 1, j \in 0 .. g.msShiftLen - 2 :
        g.msShift2[<<PatByte(g, k, j), PatByte(g, k, j + 1)>>] <= g.msShiftLen - 2 - j

BmhUpTo(g, n) ==
    /\ n \in 0 .. g.msNumPatterns
    /\ DOMAIN g.psBmh = Indices(g)
    /\ \A k \in 0 .. n - 1 :
        /\ g.psBmh[k] \in [Char -> 0 .. PatLen(g, k)]
        /\ \A j \in 0 .. PatLen(g, k) - 1 :
            g.psBmh[k][PatByte(g, k, j)] <= PatLen(g, k) - 1 - j

Fields ==
    {"msNumPatterns", "msPatArray", "msHash", "msHash1", "msNumArray", "msShiftLen",
     "msShift", "msShift2", "msMethod", "search", "psBmh"}

(* Before the sort, the list holds the first patterns of the file. *)
ListInv ==
    /\ plist \in Seq(Patterns)
    /\ Len(plist) <= Len(file)
    /\ \A n \in 1 .. Len(plist) : plist[n] = PatternStruct(file[n], n - 1)
    /\ ps.msNumPatterns = Len(plist)

PrepInv ==
    /\ IndicesFit
    /\ file \in Files /\ msLargeShifts \in {0, 1}
    /\ DOMAIN ps = Fields
    /\ pc \in {"add", "hash", "shift", "shift2", "bmh", "ready"}
    /\ pc = "add" => ListInv
    /\ pc # "add" =>
        /\ ps.msNumPatterns = Len(file)
        /\ ArrayCorrect(file, ps)
        /\ HashedUpTo(ps, IF pc = "hash" THEN i ELSE ps.msNumPatterns)
    /\ pc \in {"shift", "shift2"} =>
        /\ ps.msMethod = "MTH_MWM"
        /\ CharShiftsUpTo(ps, IF pc = "shift" THEN i ELSE ps.msNumPatterns)
    /\ pc = "shift2" => WantsBadWord /\ WordShiftsUpTo(ps, i)
    /\ pc = "bmh" => ps.msMethod = "MTH_BM" /\ BmhUpTo(ps, i)
    /\ PreparedCorrect

-----------------------------------------------------------------------------
(* The parts look at some fields only. *)

LEMMA ArraySame ==
    ASSUME NEW f, NEW g, NEW h, ArrayCorrect(f, g),
           h.msNumPatterns = g.msNumPatterns, h.msPatArray = g.msPatArray
    PROVE  ArrayCorrect(f, h)
<1>1. Indices(h) = Indices(g)
  BY DEF Indices
<1>2. \A k : PatLen(h, k) = PatLen(g, k)
  BY DEF PatLen
<1>3. ArrayHolds(f, h)
  BY <1>1 DEF ArrayCorrect, ArrayHolds
<1>4. Sorted(h)
  BY <1>1 DEF ArrayCorrect, Sorted
<1>5. QED BY <1>1, <1>2, <1>3, <1>4 DEF ArrayCorrect

LEMMA HashedSame ==
    ASSUME NEW n, NEW g, NEW h, HashedUpTo(g, n),
           h.msNumPatterns = g.msNumPatterns, h.msPatArray = g.msPatArray,
           h.msNumArray = g.msNumArray, h.msHash = g.msHash, h.msHash1 = g.msHash1
    PROVE  HashedUpTo(h, n)
<1>1. Indices(h) = Indices(g)
  BY DEF Indices
<1>2. \A k : PatLen(h, k) = PatLen(g, k)
  BY DEF PatLen
<1>3. \A k, j : PatByte(h, k, j) = PatByte(g, k, j)
  BY DEF PatByte
<1>4. \A x : GroupAt(h, x) = GroupAt(g, x)
  BY DEF GroupAt
<1>5. \A k, l : SamePrefix(h, k, l) = SamePrefix(g, k, l) /\ SameByte(h, k, l) = SameByte(g, k, l)
  BY <1>2, <1>3 DEF SamePrefix, SameByte
<1>6. QED BY <1>1, <1>2, <1>3, <1>4, <1>5 DEF HashedUpTo

LEMMA CharShiftsSame ==
    ASSUME NEW n, NEW g, NEW h, CharShiftsUpTo(g, n),
           h.msNumPatterns = g.msNumPatterns, h.msPatArray = g.msPatArray,
           h.msShiftLen = g.msShiftLen, h.msShift = g.msShift
    PROVE  CharShiftsUpTo(h, n)
<1>1. Indices(h) = Indices(g)
  BY DEF Indices
<1>2. \A k : PatLen(h, k) = PatLen(g, k)
  BY DEF PatLen
<1>3. \A k, j : PatByte(h, k, j) = PatByte(g, k, j)
  BY DEF PatByte
<1>4. QED BY <1>1, <1>2, <1>3 DEF CharShiftsUpTo

-----------------------------------------------------------------------------
(* Reading and sorting the file. *)

LEMMA SeqFacts ==
    ASSUME NEW C, NEW w \in Seq(C)
    PROVE  Len(w) \in Nat /\ DOMAIN w = 1 .. Len(w) /\ \A n \in 1 .. Len(w) : w[n] \in C
  OBVIOUS

LEMMA FileFacts ==
    ASSUME NEW f \in Files
    PROVE  /\ Len(f) \in Nat /\ DOMAIN f = 1 .. Len(f)
           /\ \A n \in 1 .. Len(f) :
                f[n].pat \in Seq(Char) \ {<< >>} /\ f[n].noCase \in {0, 1}
<1>1. f \in Seq([pat : Seq(Char) \ {<< >>}, noCase : {0, 1}])
  BY FilesAssumption
<1>2. /\ Len(f) \in Nat /\ DOMAIN f = 1 .. Len(f)
      /\ \A n \in 1 .. Len(f) : f[n] \in [pat : Seq(Char) \ {<< >>}, noCase : {0, 1}]
  <2> DEFINE C == [pat : Seq(Char) \ {<< >>}, noCase : {0, 1}]
  <2>1. f \in Seq(C)
    BY <1>1
  <2> HIDE DEF C
  <2>2. Len(f) \in Nat /\ DOMAIN f = 1 .. Len(f) /\ \A n \in 1 .. Len(f) : f[n] \in C
    BY <2>1, SeqFacts
  <2>3. QED BY <2>2 DEF C
<1>3. QED BY <1>2

LEMMA UpperFacts ==
    ASSUME NEW p \in Seq(Char), p # << >>
    PROVE  /\ ToUpper(p) \in Seq(Char)
           /\ Len(ToUpper(p)) = Len(p)
           /\ Len(p) > 0
<1>1. Len(p) \in Nat /\ DOMAIN p = 1 .. Len(p) /\ \A k \in 1 .. Len(p) : p[k] \in Char
  OBVIOUS
<1>2. Len(p) > 0
  OBVIOUS
<1>3. \A k \in 1 .. Len(p) : Upper[p[k]] \in Char
  BY <1>1, UpperAssumption
<1>4. ToUpper(p) = [k \in 1 .. Len(p) |-> Upper[p[k]]]
  BY <1>1 DEF ToUpper
<1>5. QED BY <1>1, <1>2, <1>3, <1>4

LEMMA StructFacts ==
    ASSUME NEW f \in Files, NEW n \in 1 .. Len(f)
    PROVE  /\ PatternStruct(f[n], n - 1) \in Patterns
           /\ Len(PatternStruct(f[n], n - 1).psPat) > 0
           /\ PatternStruct(f[n], n - 1).psPat =
                ToUpper(PatternStruct(f[n], n - 1).psPatCase)
           /\ PatternStruct(f[n], n - 1).psIID = n - 1
<1>1. f[n].pat \in Seq(Char) /\ f[n].pat # << >> /\ f[n].noCase \in Nat
  BY FileFacts
<1>2. ToUpper(f[n].pat) \in Seq(Char) /\ Len(ToUpper(f[n].pat)) > 0
  BY <1>1, UpperFacts
<1>3. n - 1 \in Nat
  BY FileFacts
<1>4. QED BY <1>1, <1>2, <1>3 DEF PatternStruct, Patterns

LEMMA PrepInit == IndicesFit /\ Init => PrepInv
<1> SUFFICES ASSUME IndicesFit, Init PROVE PrepInv
  OBVIOUS
<1>1. file \in Files /\ msLargeShifts \in {0, 1} /\ pc = "add"
  BY FilesAssumption DEF Init
<1>2. DOMAIN ps = Fields /\ ps.msNumPatterns = 0
  BY DEF Init, Fields
<1>3. plist = << >> /\ Len(plist) = 0 /\ plist \in Seq(Patterns)
  BY DEF Init
<1>4. ListInv
  BY <1>1, <1>2, <1>3, FileFacts DEF ListInv
<1>5. QED BY <1>1, <1>2, <1>4 DEF PrepInv, PreparedCorrect

LEMMA PrepAdd ==
    ASSUME PrepInv, mwmAddPatternEx
    PROVE  PrepInv'
<1>1. /\ pc = "add" /\ pc' = "add" /\ Len(plist) < Len(file)
      /\ plist' = Append(plist, PatternStruct(file[Len(plist) + 1], Len(plist)))
      /\ ps' = [ps EXCEPT !.msNumPatterns = @ + 1]
      /\ file' = file /\ msLargeShifts' = msLargeShifts
  BY DEF mwmAddPatternEx
<1>2. ListInv /\ file \in Files /\ DOMAIN ps = Fields /\ IndicesFit /\ msLargeShifts \in {0, 1}
  BY <1>1 DEF PrepInv
<1>3. PICK m \in Nat : m = Len(plist)
  BY <1>2 DEF ListInv
<1>4. m + 1 \in 1 .. Len(file) /\ (m + 1) - 1 = m
  BY <1>1, <1>2, <1>3, FileFacts
<1>5. PICK p : p = PatternStruct(file[m + 1], m)
  OBVIOUS
<1>6. p \in Patterns
  BY <1>2, <1>4, <1>5, StructFacts
<1>7. /\ plist' \in Seq(Patterns) /\ Len(plist') = m + 1
      /\ plist'[m + 1] = p /\ \A n \in 1 .. m : plist'[n] = plist[n]
  BY <1>1, <1>2, <1>3, <1>5, <1>6 DEF ListInv
<1>8. \A n \in 1 .. m + 1 : plist'[n] = PatternStruct(file[n], n - 1)
  <2>1. \A n \in 1 .. m : plist[n] = PatternStruct(file[n], n - 1)
    BY <1>2, <1>3 DEF ListInv
  <2>2. plist'[m + 1] = PatternStruct(file[m + 1], (m + 1) - 1)
    BY <1>4, <1>5, <1>7
  <2>3. \A n \in 1 .. m + 1 : n \in 1 .. m \/ n = m + 1
    OBVIOUS
  <2>4. QED BY <1>7, <2>1, <2>2, <2>3
<1>9. ps'.msNumPatterns = m + 1 /\ DOMAIN ps' = Fields
  BY <1>1, <1>2, <1>3 DEF ListInv, Fields
<1>10. ListInv'
  BY <1>1, <1>4, <1>7, <1>8, <1>9 DEF ListInv
<1>11. QED BY <1>1, <1>2, <1>9, <1>10 DEF PrepInv, PreparedCorrect

(* An order in which qsort may leave the list is a permutation. *)
LEMMA SortingFacts ==
    ASSUME NEW list, Len(list) \in Nat, NEW f \in Sortings(list)
    PROVE  /\ f \in [0 .. Len(list) - 1 -> 1 .. Len(list)]
           /\ \A k, l \in 0 .. Len(list) - 1 : f[k] = f[l] => k = l
           /\ \A n \in 1 .. Len(list) : \E k \in 0 .. Len(list) - 1 : f[k] = n
           /\ \A k \in 0 .. Len(list) - 1 :
                k > 0 => NotAfter(list[f[k - 1]].psPat, list[f[k]].psPat)
<1> DEFINE D == 0 .. Len(list) - 1
           R == 1 .. Len(list)
<1>1. /\ f \in [D -> R]
      /\ \A k, l \in D : f[k] = f[l] => k = l
      /\ \A k \in D : k > 0 => NotAfter(list[f[k - 1]].psPat, list[f[k]].psPat)
  BY DEF Sortings
<1>2. IsFiniteSet(R) /\ IsFiniteSet(D) /\ Cardinality(D) = Cardinality(R)
  <2>1. PICK n \in Nat : n = Len(list)
    OBVIOUS
  <2>2. IsFiniteSet(1 .. n) /\ Cardinality(1 .. n) = n
    <3>1. n \in Int /\ 1 \in Int
      OBVIOUS
    <3>2. IsFiniteSet(1 .. n) /\ Cardinality(1 .. n) = IF 1 > n THEN 0 ELSE n - 1 + 1
      BY <3>1, FS_Interval
    <3>3. QED BY <3>2
  <2>3. IsFiniteSet(0 .. n - 1) /\ Cardinality(0 .. n - 1) = n
    <3>1. n - 1 \in Int /\ 0 \in Int
      OBVIOUS
    <3>2. /\ IsFiniteSet(0 .. n - 1)
          /\ Cardinality(0 .. n - 1) = IF 0 > n - 1 THEN 0 ELSE (n - 1) - 0 + 1
      BY <3>1, FS_Interval
    <3>3. QED BY <3>2
  <2>4. QED BY <2>1, <2>2, <2>3
<1> HIDE DEF D, R
<1>3. f \in Injection(D, R)
  <2>1. IsInjective(f)
    BY <1>1 DEF IsInjective
  <2>2. QED BY <1>1, <2>1 DEF Injection
<1>4. f \in Surjection(D, R)
  BY <1>2, <1>3, FS_Injection
<1>5. \A n \in R : \E k \in D : f[k] = n
  BY <1>4 DEF Surjection
<1>6. QED BY <1>1, <1>5 DEF D, R

(* mwmPrepPatterns sorts: nothing is lost, nothing doubled.                *)
LEMMA PrepSort ==
    ASSUME PrepInv, PrepPatterns
    PROVE  PrepInv'
<1>1. /\ pc = "add" /\ pc' = "hash" /\ Len(plist) = Len(file) /\ i' = 0
      /\ file' = file /\ msLargeShifts' = msLargeShifts /\ plist' = plist
  BY DEF PrepPatterns
<1>2. PICK f \in Sortings(plist) :
        ps' = [ps EXCEPT !.msPatArray = [k \in DOMAIN f |-> plist[f[k]]],
                         !.msNumArray = [k \in DOMAIN f |-> 0],
                         !.msHash     = [w \in Char \X Char |-> -1],
                         !.msHash1    = [c \in Char |-> -1]]
  BY DEF PrepPatterns
<1>3. ListInv /\ file \in Files /\ DOMAIN ps = Fields /\ IndicesFit /\ msLargeShifts \in {0, 1}
  BY <1>1 DEF PrepInv
<1>4. PICK m \in Nat : m = Len(plist) /\ m = Len(file)
  BY <1>1, <1>3, FileFacts
<1>5. /\ f \in [0 .. m - 1 -> 1 .. m]
      /\ \A k, l \in 0 .. m - 1 : f[k] = f[l] => k = l
      /\ \A n \in 1 .. m : \E k \in 0 .. m - 1 : f[k] = n
      /\ \A k \in 0 .. m - 1 : k > 0 => NotAfter(plist[f[k - 1]].psPat, plist[f[k]].psPat)
  <2>1. Len(plist) \in Nat
    BY <1>4
  <2>2. \A n \in 1 .. Len(plist) : \E k \in 0 .. Len(plist) - 1 : f[k] = n
    BY <1>2, <2>1, SortingFacts
  <2>3. /\ f \in [0 .. Len(plist) - 1 -> 1 .. Len(plist)]
        /\ \A k, l \in 0 .. Len(plist) - 1 : f[k] = f[l] => k = l
        /\ \A k \in 0 .. Len(plist) - 1 : k > 0 => NotAfter(plist[f[k - 1]].psPat, plist[f[k]].psPat)
    BY <1>2 DEF Sortings
  <2>4. QED BY <1>4, <2>2, <2>3
<1>6. PICK g : g = ps'
  OBVIOUS
<1>7. /\ DOMAIN g = Fields /\ g.msNumPatterns = m
      /\ g.msPatArray = [k \in 0 .. m - 1 |-> plist[f[k]]]
      /\ g.msNumArray = [k \in 0 .. m - 1 |-> 0]
      /\ g.msHash = [w \in Char \X Char |-> -1]
      /\ g.msHash1 = [c \in Char |-> -1]
  <2>1. DOMAIN f = 0 .. m - 1
    BY <1>5
  <2>2. ps.msNumPatterns = m
    BY <1>3, <1>4 DEF ListInv
  <2>3. QED BY <1>2, <1>3, <1>6, <2>1, <2>2 DEF Fields
<1>8. Indices(g) = 0 .. m - 1
  BY <1>7 DEF Indices
<1>9. \A k \in Indices(g) :
        /\ f[k] \in 1 .. m
        /\ g.msPatArray[k] = PatternStruct(file[f[k]], f[k] - 1)
        /\ g.msPatArray[k] = plist[f[k]]
  <2>1. \A n \in 1 .. m : plist[n] = PatternStruct(file[n], n - 1)
    BY <1>3, <1>4 DEF ListInv
  <2>2. SUFFICES ASSUME NEW k \in 0 .. m - 1
                 PROVE  /\ f[k] \in 1 .. m
                        /\ g.msPatArray[k] = PatternStruct(file[f[k]], f[k] - 1)
                        /\ g.msPatArray[k] = plist[f[k]]
    BY <1>8
  <2>3. f[k] \in 1 .. m
    BY <1>5
  <2>4. g.msPatArray[k] = plist[f[k]]
    BY <1>7
  <2>5. QED BY <2>1, <2>3, <2>4
<1>10. \A k \in Indices(g) :
        /\ g.msPatArray[k] \in Patterns
        /\ Len(g.msPatArray[k].psPat) > 0
        /\ g.msPatArray[k].psPat = ToUpper(g.msPatArray[k].psPatCase)
        /\ g.msPatArray[k].psIID = f[k] - 1
  BY <1>3, <1>4, <1>9, StructFacts
<1>11. g.msPatArray \in [Indices(g) -> Patterns]
  BY <1>7, <1>8, <1>10
<1>12. ArrayHolds(file, g)
  <2>1. SUFFICES ASSUME NEW n \in 1 .. m
                 PROVE  /\ Cardinality({k \in Indices(g) : g.msPatArray[k].psIID = n - 1}) = 1
                        /\ \E k \in Indices(g) : g.msPatArray[k] = PatternStruct(file[n], n - 1)
    BY <1>3, <1>4, FileFacts DEF ArrayHolds
  <2>2. PICK l \in 0 .. m - 1 : f[l] = n
    BY <1>5
  <2>3. {k \in Indices(g) : g.msPatArray[k].psIID = n - 1} = {l}
    <3>1. \A k \in Indices(g) : g.msPatArray[k].psIID = n - 1 <=> f[k] = n
      BY <1>9, <1>10
    <3>2. \A k \in Indices(g) : f[k] = n <=> k = l
      BY <1>5, <1>8, <2>2
    <3>3. QED BY <1>8, <3>1, <3>2
  <2>4. Cardinality({l}) = 1
    BY FS_Singleton
  <2>5. QED BY <1>8, <1>9, <2>2, <2>3, <2>4
<1>13. Sorted(g)
  <2>1. SUFFICES ASSUME NEW k \in Indices(g), k > 0
                 PROVE  InHashOrder(g.msPatArray[k - 1].psPat, g.msPatArray[k].psPat)
    BY DEF Sorted
  <2>2. k - 1 \in Indices(g)
    BY <1>8, <2>1
  <2>3. NotAfter(g.msPatArray[k - 1].psPat, g.msPatArray[k].psPat)
    BY <1>5, <1>8, <1>9, <2>1, <2>2
  <2>4. /\ g.msPatArray[k].psPat \in Seq(Char) /\ Len(g.msPatArray[k].psPat) > 0
        /\ g.msPatArray[k - 1].psPat \in Seq(Char) /\ Len(g.msPatArray[k - 1].psPat) > 0
    BY <1>10, <2>1, <2>2 DEF Patterns
  <2>5. QED BY <2>3, <2>4, SortedByHash
<1>14. ArrayCorrect(file, g)
  BY <1>7, <1>10, <1>11, <1>12, <1>13 DEF ArrayCorrect, PatLen
<1>15. HashedUpTo(g, 0)
  <2>1. \A w \in Char \X Char : GroupAt(g, g.msHash[w]) = {}
    BY <1>7 DEF GroupAt
  <2>2. \A c \in Char : GroupAt(g, g.msHash1[c]) = {}
    BY <1>7 DEF GroupAt
  <2>3. g.msNumArray \in [Indices(g) -> Nat]
    BY <1>7, <1>8
  <2>4. \A k : k \notin 0 .. 0 - 1
    OBVIOUS
  <2>5. 0 \in 0 .. g.msNumPatterns
    BY <1>7
  <2>6. /\ g.msHash \in [Char \X Char -> (0 .. 0 - 1) \cup {-1}]
        /\ g.msHash1 \in [Char -> (0 .. 0 - 1) \cup {-1}]
    BY <1>7
  <2>7. \A w : {k \in 0 .. 0 - 1 : PatLen(g, k) > 1 /\ w = <<PatByte(g, k, 0), PatByte(g, k, 1)>>} = {}
    BY <2>4
  <2>8. \A c : {k \in 0 .. 0 - 1 : PatLen(g, k) = 1 /\ c = PatByte(g, k, 0)} = {}
    BY <2>4
  <2>9. /\ \A w \in Char \X Char :
            GroupAt(g, g.msHash[w]) =
                {k \in 0 .. 0 - 1 : PatLen(g, k) > 1 /\ w = <<PatByte(g, k, 0), PatByte(g, k, 1)>>}
        /\ \A c \in Char :
            GroupAt(g, g.msHash1[c]) =
                {k \in 0 .. 0 - 1 : PatLen(g, k) = 1 /\ c = PatByte(g, k, 0)}
    BY <2>1, <2>2, <2>7, <2>8, Zenon
  <2>10. ~(0 > 0)
    OBVIOUS
  <2>11. QED BY <2>3, <2>5, <2>6, <2>9, <2>10 DEF HashedUpTo
<1>16. QED BY <1>1, <1>3, <1>4, <1>6, <1>7, <1>14, <1>15 DEF PrepInv, PreparedCorrect

-----------------------------------------------------------------------------
(* The groups of patterns with one prefix lie together. *)

LEMMA PatFacts ==
    ASSUME NEW f, NEW g, ArrayCorrect(f, g), NEW k \in Indices(g)
    PROVE  /\ g.msPatArray[k].psPat \in Seq(Char)
           /\ Len(g.msPatArray[k].psPat) = PatLen(g, k)
           /\ PatLen(g, k) \in Nat /\ PatLen(g, k) > 0
           /\ PatLen(g, k) = 1 \/ PatLen(g, k) > 1
           /\ PatByte(g, k, 0) = g.msPatArray[k].psPat[1]
           /\ PatByte(g, k, 1) = g.msPatArray[k].psPat[2]
           /\ \A j \in 0 .. PatLen(g, k) - 1 : PatByte(g, k, j) \in Char
<1>1. g.msPatArray[k] \in Patterns /\ PatLen(g, k) > 0
  BY DEF ArrayCorrect
<1>2. PICK p \in Seq(Char) : p = g.msPatArray[k].psPat
  BY <1>1 DEF Patterns
<1>3. Len(p) \in Nat /\ PatLen(g, k) = Len(p) /\ \A j \in 1 .. Len(p) : p[j] \in Char
  BY <1>2 DEF PatLen
<1>4. \A j : PatByte(g, k, j) = p[j + 1]
  BY <1>2 DEF PatByte, At
<1>5. \A j \in 0 .. Len(p) - 1 : j + 1 \in 1 .. Len(p)
  BY <1>3
<1>6. Len(p) = 1 \/ Len(p) > 1
  BY <1>1, <1>3, OneOrMore
<1>7. PatByte(g, k, 0) = p[1] /\ PatByte(g, k, 1) = p[2]
  <2>1. 0 + 1 = 1 /\ 1 + 1 = 2
    OBVIOUS
  <2>2. QED BY <1>4, <2>1
<1>8. QED BY <1>1, <1>2, <1>3, <1>4, <1>5, <1>6, <1>7

LEMMA IndexFacts ==
    ASSUME NEW f, NEW g, ArrayCorrect(f, g)
    PROVE  /\ g.msNumPatterns \in Nat
           /\ \A k : k \in Indices(g) <=> k \in 0 .. g.msNumPatterns - 1
  BY DEF ArrayCorrect, Indices

LEMMA OrderedPairs ==
    ASSUME NEW f, NEW g, ArrayCorrect(f, g),
           NEW k \in Indices(g), NEW l \in Indices(g), k <= l
    PROVE  InHashOrder(g.msPatArray[k].psPat, g.msPatArray[l].psPat)
<1> DEFINE p(j) == g.msPatArray[j].psPat
           O == {j \in Indices(g) : InHashOrder(p(k), p(j))}
<1>1. \A j \in Indices(g) : p(j) \in Seq(Char) /\ Len(p(j)) > 0
  BY PatFacts
<1>2. \A j \in Indices(g) : j > 0 => InHashOrder(p(j - 1), p(j))
  BY DEF ArrayCorrect, Sorted
<1>3. g.msNumPatterns \in Nat /\ k \in Nat /\ l \in Nat
      /\ \A j : j \in Indices(g) <=> j \in 0 .. g.msNumPatterns - 1
  BY IndexFacts
<1> HIDE DEF p
<1>4. k \in O
  BY <1>1, HashOrderReflexive
<1>5. ASSUME NEW j \in k .. l - 1, j \in O PROVE j + 1 \in O
  <2>1. j + 1 \in Indices(g) /\ j + 1 > 0 /\ (j + 1) - 1 = j /\ j \in Indices(g)
    BY <1>3
  <2>2. InHashOrder(p(j), p(j + 1))
    BY <1>2, <2>1
  <2>3. InHashOrder(p(k), p(j))
    BY <1>5
  <2>4. InHashOrder(p(k), p(j + 1))
    BY <1>1, <2>1, <2>2, <2>3, HashOrderTransitive
  <2>5. QED BY <2>1, <2>4
<1> HIDE DEF O
<1>6. \A j \in k .. l : j \in O
  BY <1>3, <1>4, <1>5, Onwards
<1>7. l \in O
  BY <1>3, <1>6
<1>8. QED BY <1>7 DEF O, p

(* Behind a longer pattern no pattern of one byte begins with its byte. *)
LEMMA OneByteFirst ==
    ASSUME NEW f, NEW g, ArrayCorrect(f, g),
           NEW k \in Indices(g), NEW l \in Indices(g), k <= l,
           PatByte(g, k, 0) = PatByte(g, l, 0), PatLen(g, k) > 1
    PROVE  PatLen(g, l) > 1 /\ PatByte(g, k, 1) <= PatByte(g, l, 1)
<1>1. InHashOrder(g.msPatArray[k].psPat, g.msPatArray[l].psPat)
  BY OrderedPairs
<1>2. PatLen(g, k) \in Nat /\ PatLen(g, k) # 1
  BY PatFacts
<1>3. PatByte(g, k, 0) \in Nat /\ PatByte(g, l, 0) \in Nat
  <2>1. 0 \in 0 .. PatLen(g, k) - 1 /\ 0 \in 0 .. PatLen(g, l) - 1
    BY PatFacts
  <2>2. QED BY <2>1, PatFacts, CharAssumption
<1>4. /\ PatByte(g, k, 0) = g.msPatArray[k].psPat[1]
      /\ PatByte(g, l, 0) = g.msPatArray[l].psPat[1]
      /\ PatByte(g, k, 1) = g.msPatArray[k].psPat[2]
      /\ PatByte(g, l, 1) = g.msPatArray[l].psPat[2]
      /\ Len(g.msPatArray[k].psPat) = PatLen(g, k)
      /\ Len(g.msPatArray[l].psPat) = PatLen(g, l)
  BY PatFacts
<1>5. ~(PatByte(g, k, 0) < PatByte(g, l, 0))
  BY <1>3
<1>6. QED BY <1>1, <1>2, <1>4, <1>5 DEF InHashOrder

(* If some pattern before n is of the group of n, its neighbour is.        *)
LEMMA NeighbourInGroup ==
    ASSUME NEW f, NEW g, ArrayCorrect(f, g),
           NEW n \in Indices(g), NEW k \in 0 .. n - 1
    PROVE  /\ SamePrefix(g, k, n) => SamePrefix(g, n - 1, n)
           /\ SameByte(g, k, n) => SameByte(g, n - 1, n)
<1>1. /\ k \in Indices(g) /\ n - 1 \in Indices(g) /\ k <= n - 1 /\ n - 1 <= n /\ k <= n
      /\ k \in Nat /\ n \in Nat
  BY IndexFacts
<1> DEFINE p(j) == g.msPatArray[j].psPat
<1>2. InHashOrder(p(k), p(n - 1)) /\ InHashOrder(p(n - 1), p(n))
  BY <1>1, OrderedPairs
<1>3. \A j \in Indices(g) :
        /\ PatByte(g, j, 0) = p(j)[1] /\ PatByte(g, j, 1) = p(j)[2]
        /\ Len(p(j)) = PatLen(g, j) /\ PatLen(g, j) \in Nat
        /\ PatLen(g, j) = 1 \/ PatLen(g, j) > 1
  BY PatFacts
<1>4. \A j \in Indices(g) : PatByte(g, j, 0) \in Nat /\ (PatLen(g, j) > 1 => PatByte(g, j, 1) \in Nat)
  <2>1. ASSUME NEW j \in Indices(g)
        PROVE  PatByte(g, j, 0) \in Nat /\ (PatLen(g, j) > 1 => PatByte(g, j, 1) \in Nat)
    <3>1. p(j) \in Seq(Char) /\ Len(p(j)) > 0
      BY PatFacts
    <3>2. p(j)[1] \in Nat /\ (Len(p(j)) > 1 => p(j)[2] \in Nat)
      BY <3>1, Bytes
    <3>3. QED BY <1>3, <3>2
  <2>2. QED BY <2>1
<1>5. PatByte(g, k, 0) <= PatByte(g, n - 1, 0) /\ PatByte(g, n - 1, 0) <= PatByte(g, n, 0)
  <2>1. ASSUME NEW a \in Indices(g), NEW b \in Indices(g), InHashOrder(p(a), p(b))
        PROVE  PatByte(g, a, 0) <= PatByte(g, b, 0)
    <3>1. p(a)[1] < p(b)[1] \/ p(a)[1] = p(b)[1]
      BY <2>1 DEF InHashOrder
    <3>2. p(a)[1] \in Nat /\ p(b)[1] \in Nat
      BY <1>3, <1>4
    <3>3. p(a)[1] <= p(b)[1]
      BY <3>1, <3>2
    <3>4. QED BY <1>3, <3>3
  <2>2. QED BY <1>1, <1>2, <2>1
<1>6. PatByte(g, k, 0) = PatByte(g, n, 0) =>
         PatByte(g, k, 0) = PatByte(g, n - 1, 0) /\ PatByte(g, n - 1, 0) = PatByte(g, n, 0)
  BY <1>1, <1>4, <1>5
<1>7. ASSUME SamePrefix(g, k, n) PROVE SamePrefix(g, n - 1, n)
  <2>1. /\ PatLen(g, k) > 1 /\ PatLen(g, n) > 1
        /\ PatByte(g, k, 0) = PatByte(g, n - 1, 0) /\ PatByte(g, n - 1, 0) = PatByte(g, n, 0)
        /\ PatByte(g, k, 1) = PatByte(g, n, 1)
    BY <1>6, <1>7 DEF SamePrefix
  <2>2. PatLen(g, n - 1) > 1 /\ PatByte(g, k, 1) <= PatByte(g, n - 1, 1)
    BY <1>1, <2>1, OneByteFirst
  <2>3. PatByte(g, n - 1, 1) <= PatByte(g, n, 1)
    BY <1>1, <2>1, <2>2, OneByteFirst
  <2>4. PatByte(g, n - 1, 1) = PatByte(g, n, 1)
    BY <1>1, <1>4, <2>1, <2>2, <2>3
  <2>5. QED BY <2>1, <2>2, <2>4 DEF SamePrefix
<1>8. ASSUME SameByte(g, k, n) PROVE SameByte(g, n - 1, n)
  <2>1. /\ PatLen(g, k) = 1 /\ PatLen(g, n) = 1
        /\ PatByte(g, k, 0) = PatByte(g, n - 1, 0) /\ PatByte(g, n - 1, 0) = PatByte(g, n, 0)
    BY <1>6, <1>8 DEF SameByte
  <2>2. ~(PatLen(g, n - 1) > 1)
    <3>1. ~(PatLen(g, n) > 1)
      BY <2>1
    <3>2. QED BY <1>1, <2>1, <3>1, OneByteFirst
  <2>3. QED BY <1>1, <1>3, <2>1, <2>2 DEF SameByte
<1>9. QED BY <1>7, <1>8

(* The group from n to e - 1 is entered: msHash leads to it. *)
LEMMA PrefixGroupEntered ==
    ASSUME NEW f, NEW g, ArrayCorrect(f, g), NEW n, HashedUpTo(g, n),
           n \in Indices(g), PatLen(g, n) > 1,
           NEW e \in n + 1 .. g.msNumPatterns,
           \A k \in n .. e - 1 : SamePrefix(g, n, k),
           e \in Indices(g) => ~SamePrefix(g, e - 1, e) /\ ~SameByte(g, e - 1, e),
           NEW h, h.msNumPatterns = g.msNumPatterns, h.msPatArray = g.msPatArray,
           h.msHash1 = g.msHash1,
           h.msHash = [g.msHash EXCEPT ![<<PatByte(g, n, 0), PatByte(g, n, 1)>>] = n],
           h.msNumArray = [k \in DOMAIN g.msNumArray |-> IF k = n THEN e - n ELSE g.msNumArray[k]]
    PROVE  HashedUpTo(h, e)
<1> DEFINE key(k) == <<PatByte(g, k, 0), PatByte(g, k, 1)>>
           Longer(k) == PatLen(g, k) > 1
           Single(k) == PatLen(g, k) = 1
           N == g.msNumPatterns
<1>1. /\ N \in Nat /\ n \in 0 .. N - 1 /\ n \in Nat /\ e \in 0 .. N /\ e \in Nat /\ n < e
      /\ \A k : k \in Indices(g) <=> k \in 0 .. N - 1
      /\ \A k : k \in 0 .. e - 1 <=> k \in 0 .. n - 1 \/ k \in n .. e - 1
      /\ \A k : k \in n .. e - 1 => k \in Indices(g)
      /\ \A k : k \in 0 .. n - 1 => k \in Indices(g) /\ k # n
  BY IndexFacts
<1>2. /\ g.msNumArray \in [Indices(g) -> Nat]
      /\ g.msHash \in [Char \X Char -> (0 .. n - 1) \cup {-1}]
      /\ g.msHash1 \in [Char -> (0 .. n - 1) \cup {-1}]
      /\ n > 0 => ~SamePrefix(g, n - 1, n) /\ ~SameByte(g, n - 1, n)
  BY DEF HashedUpTo
<1>3. /\ \A w \in Char \X Char : GroupAt(g, g.msHash[w]) = {k \in 0 .. n - 1 : Longer(k) /\ w = key(k)}
      /\ \A c \in Char : GroupAt(g, g.msHash1[c]) = {k \in 0 .. n - 1 : Single(k) /\ c = PatByte(g, k, 0)}
  BY DEF HashedUpTo
<1>4. \A k \in Indices(g) : Longer(k) => key(k) \in Char \X Char
  <2>1. ASSUME NEW k \in Indices(g), Longer(k) PROVE key(k) \in Char \X Char
    <3>1. PatLen(g, k) \in Nat /\ \A j \in 0 .. PatLen(g, k) - 1 : PatByte(g, k, j) \in Char
      BY PatFacts
    <3>2. 0 \in 0 .. PatLen(g, k) - 1 /\ 1 \in 0 .. PatLen(g, k) - 1
      BY <2>1, <3>1
    <3>3. QED BY <3>1, <3>2
  <2>2. QED BY <2>1
<1>5. \A k \in 0 .. n - 1 : Longer(k) => key(k) # key(n)
  <2>1. ASSUME NEW k \in 0 .. n - 1, Longer(k), key(k) = key(n) PROVE FALSE
    <3>1. SamePrefix(g, k, n)
      BY <2>1 DEF SamePrefix
    <3>2. n > 0
      BY <1>1
    <3>3. SamePrefix(g, n - 1, n)
      BY <3>1, NeighbourInGroup
    <3>4. QED BY <1>2, <3>2, <3>3
  <2>2. QED BY <2>1
<1>6. \A k \in n .. e - 1 : Longer(k) /\ ~Single(k) /\ key(k) = key(n)
  <2>1. ASSUME NEW k \in n .. e - 1 PROVE Longer(k) /\ ~Single(k) /\ key(k) = key(n)
    <3>1. Longer(k) /\ key(k) = key(n)
      BY <2>1 DEF SamePrefix
    <3>2. PatLen(g, k) \in Nat
      BY <1>1, PatFacts
    <3>3. QED BY <3>1, <3>2
  <2>2. QED BY <2>1
<1>7. /\ h.msNumArray \in [Indices(g) -> Nat]
      /\ h.msNumArray[n] = e - n
      /\ \A k \in 0 .. n - 1 : h.msNumArray[k] = g.msNumArray[k]
  BY <1>1, <1>2
<1>8. /\ h.msHash \in [Char \X Char -> (0 .. e - 1) \cup {-1}]
      /\ h.msHash[key(n)] = n
      /\ \A w \in Char \X Char : w # key(n) => h.msHash[w] = g.msHash[w]
  <2>1. key(n) \in Char \X Char
    BY <1>4
  <2>2. h.msHash = [g.msHash EXCEPT ![key(n)] = n]
    OBVIOUS
  <2>3. n \in 0 .. e - 1 /\ 0 .. n - 1 \subseteq 0 .. e - 1
    BY <1>1
  <2> HIDE DEF key
  <2>4. QED BY <1>2, <2>1, <2>2, <2>3
<1>9. h.msHash1 \in [Char -> (0 .. e - 1) \cup {-1}]
  <2>1. 0 .. n - 1 \subseteq 0 .. e - 1
    BY <1>1
  <2>2. QED BY <1>2, <2>1
<1>10. \A x \in (0 .. n - 1) \cup {-1} : GroupAt(h, x) = GroupAt(g, x)
  BY <1>7 DEF GroupAt
<1>11. GroupAt(h, n) = n .. e - 1
  <2>1. n # -1 /\ n + (e - n) - 1 = e - 1
    BY <1>1
  <2>2. QED BY <1>7, <2>1 DEF GroupAt
<1>12. Indices(h) = Indices(g)
  BY DEF Indices
<1>13. \A k : PatLen(h, k) = PatLen(g, k) /\ \A j : PatByte(h, k, j) = PatByte(g, k, j)
  BY DEF PatLen, PatByte
<1>14. \A k, l : SamePrefix(h, k, l) = SamePrefix(g, k, l) /\ SameByte(h, k, l) = SameByte(g, k, l)
  BY <1>13 DEF SamePrefix, SameByte
<1> HIDE DEF key, Longer, Single, N
<1>15. \A w \in Char \X Char : GroupAt(h, h.msHash[w]) = {k \in 0 .. e - 1 : Longer(k) /\ w = key(k)}
  <2>1. ASSUME NEW w \in Char \X Char, w # key(n)
        PROVE  GroupAt(h, h.msHash[w]) = {k \in 0 .. e - 1 : Longer(k) /\ w = key(k)}
    <3>1. GroupAt(h, h.msHash[w]) = {k \in 0 .. n - 1 : Longer(k) /\ w = key(k)}
      BY <1>2, <1>3, <1>8, <1>10, <2>1
    <3>2. \A k : k \in 0 .. e - 1 /\ w = key(k) <=> k \in 0 .. n - 1 /\ w = key(k)
      BY <1>1, <1>6, <2>1
    <3>3. QED BY <3>1, <3>2
  <2>2. GroupAt(h, h.msHash[key(n)]) = {k \in 0 .. e - 1 : Longer(k) /\ key(n) = key(k)}
    <3>1. \A k : k \in n .. e - 1 <=> k \in 0 .. e - 1 /\ Longer(k) /\ key(n) = key(k)
      BY <1>1, <1>5, <1>6
    <3>2. GroupAt(h, h.msHash[key(n)]) = n .. e - 1
      BY <1>8, <1>11
    <3>3. QED BY <3>1, <3>2
  <2>3. QED BY <2>1, <2>2
<1>16. \A c \in Char : GroupAt(h, h.msHash1[c]) = {k \in 0 .. e - 1 : Single(k) /\ c = PatByte(g, k, 0)}
  <2>1. ASSUME NEW c \in Char
        PROVE  GroupAt(h, h.msHash1[c]) = {k \in 0 .. e - 1 : Single(k) /\ c = PatByte(g, k, 0)}
    <3>1. GroupAt(h, h.msHash1[c]) = {k \in 0 .. n - 1 : Single(k) /\ c = PatByte(g, k, 0)}
      BY <1>2, <1>3, <1>10
    <3>2. \A k : k \in 0 .. e - 1 /\ Single(k) <=> k \in 0 .. n - 1 /\ Single(k)
      BY <1>1, <1>6
    <3>3. QED BY <3>1, <3>2
  <2>2. QED BY <2>1
<1>17. QED
  <2>1. e \in 0 .. h.msNumPatterns
    BY <1>1 DEF N
  <2>2. /\ \A w \in Char \X Char :
            GroupAt(h, h.msHash[w]) =
                {k \in 0 .. e - 1 : PatLen(h, k) > 1 /\ w = <<PatByte(h, k, 0), PatByte(h, k, 1)>>}
        /\ \A c \in Char :
            GroupAt(h, h.msHash1[c]) = {k \in 0 .. e - 1 : PatLen(h, k) = 1 /\ c = PatByte(h, k, 0)}
    BY <1>13, <1>15, <1>16 DEF key, Longer, Single
  <2>3. e \in Indices(h) /\ e > 0 => ~SamePrefix(h, e - 1, e) /\ ~SameByte(h, e - 1, e)
    BY <1>12, <1>14
  <2>4. QED BY <1>7, <1>8, <1>9, <1>12, <2>1, <2>2, <2>3 DEF HashedUpTo

(* The group of one byte from n to e - 1 is entered in msHash1. *)
LEMMA ByteGroupEntered ==
    ASSUME NEW f, NEW g, ArrayCorrect(f, g), NEW n, HashedUpTo(g, n),
           n \in Indices(g), PatLen(g, n) = 1,
           NEW e \in n + 1 .. g.msNumPatterns,
           \A k \in n .. e - 1 : SameByte(g, n, k),
           e \in Indices(g) => ~SamePrefix(g, e - 1, e) /\ ~SameByte(g, e - 1, e),
           NEW h, h.msNumPatterns = g.msNumPatterns, h.msPatArray = g.msPatArray,
           h.msHash = g.msHash,
           h.msHash1 = [g.msHash1 EXCEPT ![PatByte(g, n, 0)] = n],
           h.msNumArray = [k \in DOMAIN g.msNumArray |-> IF k = n THEN e - n ELSE g.msNumArray[k]]
    PROVE  HashedUpTo(h, e)
<1> DEFINE key(k) == <<PatByte(g, k, 0), PatByte(g, k, 1)>>
           byte(k) == PatByte(g, k, 0)
           Longer(k) == PatLen(g, k) > 1
           Single(k) == PatLen(g, k) = 1
           N == g.msNumPatterns
<1>1. /\ N \in Nat /\ n \in 0 .. N - 1 /\ n \in Nat /\ e \in 0 .. N /\ e \in Nat /\ n < e
      /\ \A k : k \in Indices(g) <=> k \in 0 .. N - 1
      /\ \A k : k \in 0 .. e - 1 <=> k \in 0 .. n - 1 \/ k \in n .. e - 1
      /\ \A k : k \in n .. e - 1 => k \in Indices(g)
      /\ \A k : k \in 0 .. n - 1 => k \in Indices(g) /\ k # n
  BY IndexFacts
<1>2. /\ g.msNumArray \in [Indices(g) -> Nat]
      /\ g.msHash \in [Char \X Char -> (0 .. n - 1) \cup {-1}]
      /\ g.msHash1 \in [Char -> (0 .. n - 1) \cup {-1}]
      /\ n > 0 => ~SamePrefix(g, n - 1, n) /\ ~SameByte(g, n - 1, n)
  BY DEF HashedUpTo
<1>3. /\ \A w \in Char \X Char : GroupAt(g, g.msHash[w]) = {k \in 0 .. n - 1 : Longer(k) /\ w = key(k)}
      /\ \A c \in Char : GroupAt(g, g.msHash1[c]) = {k \in 0 .. n - 1 : Single(k) /\ c = byte(k)}
  BY DEF HashedUpTo
<1>4. byte(n) \in Char
  <2>1. 0 \in 0 .. PatLen(g, n) - 1
    BY PatFacts
  <2>2. QED BY <2>1, PatFacts
<1>5. \A k \in 0 .. n - 1 : Single(k) => byte(k) # byte(n)
  <2>1. ASSUME NEW k \in 0 .. n - 1, Single(k), byte(k) = byte(n) PROVE FALSE
    <3>1. SameByte(g, k, n)
      BY <2>1 DEF SameByte
    <3>2. n > 0
      BY <1>1
    <3>3. SameByte(g, n - 1, n)
      BY <3>1, NeighbourInGroup
    <3>4. QED BY <1>2, <3>2, <3>3
  <2>2. QED BY <2>1
<1>6. \A k \in n .. e - 1 : Single(k) /\ ~Longer(k) /\ byte(k) = byte(n)
  <2>1. ASSUME NEW k \in n .. e - 1 PROVE Single(k) /\ ~Longer(k) /\ byte(k) = byte(n)
    <3>1. Single(k) /\ byte(k) = byte(n)
      BY <2>1 DEF SameByte
    <3>2. ~(1 > 1)
      OBVIOUS
    <3>3. QED BY <3>1, <3>2
  <2>2. QED BY <2>1
<1>7. /\ h.msNumArray \in [Indices(g) -> Nat]
      /\ h.msNumArray[n] = e - n
      /\ \A k \in 0 .. n - 1 : h.msNumArray[k] = g.msNumArray[k]
  BY <1>1, <1>2
<1>8. /\ h.msHash1 \in [Char -> (0 .. e - 1) \cup {-1}]
      /\ h.msHash1[byte(n)] = n
      /\ \A c \in Char : c # byte(n) => h.msHash1[c] = g.msHash1[c]
  <2>1. h.msHash1 = [g.msHash1 EXCEPT ![byte(n)] = n]
    OBVIOUS
  <2>2. n \in 0 .. e - 1 /\ 0 .. n - 1 \subseteq 0 .. e - 1
    BY <1>1
  <2> HIDE DEF byte
  <2>3. QED BY <1>2, <1>4, <2>1, <2>2
<1>9. h.msHash \in [Char \X Char -> (0 .. e - 1) \cup {-1}]
  <2>1. 0 .. n - 1 \subseteq 0 .. e - 1
    BY <1>1
  <2>2. QED BY <1>2, <2>1
<1>10. \A x \in (0 .. n - 1) \cup {-1} : GroupAt(h, x) = GroupAt(g, x)
  BY <1>7 DEF GroupAt
<1>11. GroupAt(h, n) = n .. e - 1
  <2>1. n # -1 /\ n + (e - n) - 1 = e - 1
    BY <1>1
  <2>2. QED BY <1>7, <2>1 DEF GroupAt
<1>12. Indices(h) = Indices(g)
  BY DEF Indices
<1>13. \A k : PatLen(h, k) = PatLen(g, k) /\ \A j : PatByte(h, k, j) = PatByte(g, k, j)
  BY DEF PatLen, PatByte
<1>14. \A k, l : SamePrefix(h, k, l) = SamePrefix(g, k, l) /\ SameByte(h, k, l) = SameByte(g, k, l)
  BY <1>13 DEF SamePrefix, SameByte
<1> HIDE DEF key, byte, Longer, Single, N
<1>15. \A w \in Char \X Char : GroupAt(h, h.msHash[w]) = {k \in 0 .. e - 1 : Longer(k) /\ w = key(k)}
  <2>1. ASSUME NEW w \in Char \X Char
        PROVE  GroupAt(h, h.msHash[w]) = {k \in 0 .. e - 1 : Longer(k) /\ w = key(k)}
    <3>1. GroupAt(h, h.msHash[w]) = {k \in 0 .. n - 1 : Longer(k) /\ w = key(k)}
      BY <1>2, <1>3, <1>10
    <3>2. \A k : k \in 0 .. e - 1 /\ Longer(k) <=> k \in 0 .. n - 1 /\ Longer(k)
      BY <1>1, <1>6
    <3>3. QED BY <3>1, <3>2
  <2>2. QED BY <2>1
<1>16. \A c \in Char : GroupAt(h, h.msHash1[c]) = {k \in 0 .. e - 1 : Single(k) /\ c = byte(k)}
  <2>1. ASSUME NEW c \in Char, c # byte(n)
        PROVE  GroupAt(h, h.msHash1[c]) = {k \in 0 .. e - 1 : Single(k) /\ c = byte(k)}
    <3>1. GroupAt(h, h.msHash1[c]) = {k \in 0 .. n - 1 : Single(k) /\ c = byte(k)}
      BY <1>2, <1>3, <1>8, <1>10, <2>1
    <3>2. \A k : k \in 0 .. e - 1 /\ c = byte(k) <=> k \in 0 .. n - 1 /\ c = byte(k)
      BY <1>1, <1>6, <2>1
    <3>3. QED BY <3>1, <3>2
  <2>2. GroupAt(h, h.msHash1[byte(n)]) = {k \in 0 .. e - 1 : Single(k) /\ byte(n) = byte(k)}
    <3>1. \A k : k \in n .. e - 1 <=> k \in 0 .. e - 1 /\ Single(k) /\ byte(n) = byte(k)
      BY <1>1, <1>5, <1>6
    <3>2. GroupAt(h, h.msHash1[byte(n)]) = n .. e - 1
      BY <1>8, <1>11
    <3>3. QED BY <3>1, <3>2
  <2>3. QED BY <2>1, <2>2
<1>17. QED
  <2>1. e \in 0 .. h.msNumPatterns
    BY <1>1 DEF N
  <2>2. /\ \A w \in Char \X Char :
            GroupAt(h, h.msHash[w]) =
                {k \in 0 .. e - 1 : PatLen(h, k) > 1 /\ w = <<PatByte(h, k, 0), PatByte(h, k, 1)>>}
        /\ \A c \in Char :
            GroupAt(h, h.msHash1[c]) = {k \in 0 .. e - 1 : PatLen(h, k) = 1 /\ c = PatByte(h, k, 0)}
    BY <1>13, <1>15, <1>16 DEF key, byte, Longer, Single
  <2>3. e \in Indices(h) /\ e > 0 => ~SamePrefix(h, e - 1, e) /\ ~SameByte(h, e - 1, e)
    BY <1>12, <1>14
  <2>4. QED BY <1>7, <1>8, <1>9, <1>12, <2>1, <2>2, <2>3 DEF HashedUpTo

-----------------------------------------------------------------------------
(* Where a run ends: behind it is the end of the array or another group.   *)
LEMMA RunEndFacts ==
    ASSUME NEW n \in Nat, NEW m \in Nat, n < m, NEW B,
           NEW e, e = Smallest({k \in n + 1 .. m : k = m \/ k \in B})
    PROVE  /\ e \in n + 1 .. m
           /\ \A k \in n + 1 .. e - 1 : k \notin B
           /\ e = m \/ e \in B
<1> DEFINE S == {k \in n + 1 .. m : k = m \/ k \in B}
<1>1. S \subseteq Nat /\ m \in S
  OBVIOUS
<1>2. e \in S /\ \A y \in S : e <= y
  <2> HIDE DEF S
  <2>1. QED BY <1>1, SmallestNumber DEF S
<1>3. e \in n + 1 .. m /\ (e = m \/ e \in B)
  BY <1>2
<1>4. ASSUME NEW k \in n + 1 .. e - 1, k \in B PROVE FALSE
  <2>1. k \in S /\ k < e /\ k \in Nat /\ e \in Nat
    BY <1>3, <1>4
  <2>2. e <= k
    BY <1>2, <2>1
  <2>3. QED BY <2>1, <2>2
<1>5. QED BY <1>3, <1>4

LEMMA HashPhase ==
    ASSUME PrepInv, pc = "hash"
    PROVE  /\ file \in Files /\ msLargeShifts \in {0, 1} /\ IndicesFit /\ DOMAIN ps = Fields
           /\ ps.msNumPatterns = Len(file)
           /\ ArrayCorrect(file, ps) /\ HashedUpTo(ps, i)
           /\ ps.msNumPatterns \in Nat /\ i \in 0 .. ps.msNumPatterns
           /\ i < ps.msNumPatterns =>
                i \in Indices(ps) /\ i \in Nat /\ i \in Int /\ Short(i) = i
<1>1. /\ file \in Files /\ msLargeShifts \in {0, 1} /\ IndicesFit /\ DOMAIN ps = Fields
      /\ ps.msNumPatterns = Len(file)
      /\ ArrayCorrect(file, ps) /\ HashedUpTo(ps, i)
  BY DEF PrepInv
<1>2. ps.msNumPatterns \in Nat /\ i \in 0 .. ps.msNumPatterns
  BY <1>1 DEF HashedUpTo, ArrayCorrect
<1>3. ASSUME i < ps.msNumPatterns
      PROVE  i \in Indices(ps) /\ i \in Nat /\ i \in Int /\ Short(i) = i
  <2>1. i \in 0 .. Len(file) - 1 /\ i \in Indices(ps) /\ i \in Nat
    BY <1>1, <1>2, <1>3 DEF Indices
  <2>2. QED BY <1>1, <2>1 DEF IndicesFit
<1>4. QED BY <1>1, <1>2, <1>3

(* One pass of mwmPrepHashedPatternGroups.  The byte behind a pattern of   *)
(* one byte does not matter: behind a longer pattern with the same first   *)
(* byte there is none.                                                     *)
LEMMA PrepPrefixGroup ==
    ASSUME PrepInv, HashPrefixGroup
    PROVE  PrepInv'
<1>1. /\ pc = "hash" /\ pc' = "hash" /\ i < ps.msNumPatterns /\ PatLen(ps, i) > 1
      /\ file' = file /\ msLargeShifts' = msLargeShifts /\ plist' = plist
  BY DEF HashPrefixGroup, EnterGroup
<1>2. /\ file \in Files /\ msLargeShifts \in {0, 1} /\ IndicesFit /\ DOMAIN ps = Fields
      /\ ps.msNumPatterns = Len(file)
      /\ ArrayCorrect(file, ps) /\ HashedUpTo(ps, i)
      /\ ps.msNumPatterns \in Nat
      /\ i \in Indices(ps) /\ i \in Nat /\ Short(i) = i
  BY <1>1, HashPhase
<1>3. PICK behind \in [{k \in Indices(ps) : PatLen(ps, k) = 1} -> Char] :
        /\ i' = Smallest({k \in i + 1 .. ps.msNumPatterns :
                    k = ps.msNumPatterns \/ ~(HASH16(i, behind) = HASH16(k, behind))})
        /\ ps' = [[ps EXCEPT !.msHash[HASH16(i, behind)] = Short(i)] EXCEPT !.msNumArray =
                    [k \in DOMAIN @ |-> IF k = Short(i) THEN i' - i ELSE @[k]]]
  <2>1. \E behind \in [{k \in Indices(ps) : PatLen(ps, k) = 1} -> Char] :
          EnterGroup([ps EXCEPT !.msHash[HASH16(i, behind)] = Short(i)],
                     Smallest({k \in i + 1 .. ps.msNumPatterns :
                        k = ps.msNumPatterns \/ ~(HASH16(i, behind) = HASH16(k, behind))}))
    BY Zenon DEF HashPrefixGroup, RunEnd
  <2>2. QED BY <2>1, ZenonT(60) DEF EnterGroup
<1> DEFINE N == ps.msNumPatterns
           key(k) == <<PatByte(ps, k, 0), PatByte(ps, k, 1)>>
           B == {k \in i + 1 .. N : HASH16(i, behind) # HASH16(k, behind)}
<1>4. \A k : PatLen(ps, k) > 1 => HASH16(k, behind) = key(k)
  BY DEF HASH16
<1>5. \A k : PatByte(ps, i, 0) # PatByte(ps, k, 0) => HASH16(i, behind) # HASH16(k, behind)
  BY DEF HASH16
<1>6. PICK e : e = i'
  OBVIOUS
<1>7. /\ e \in i + 1 .. N
      /\ \A k \in i + 1 .. e - 1 : k \notin B
      /\ e = N \/ e \in B
  <2>1. e = Smallest({k \in i + 1 .. N : k = N \/ k \in B})
    <3>1. {k \in i + 1 .. N : k = N \/ k \in B} =
            {k \in i + 1 .. N : k = N \/ ~(HASH16(i, behind) = HASH16(k, behind))}
      OBVIOUS
    <3>2. QED BY <1>3, <1>6, <3>1
  <2>2. i \in Nat /\ N \in Nat /\ i < N
    BY <1>1, <1>2
  <2>3. PICK n \in Nat, m \in Nat : n = i /\ m = N
    BY <2>2
  <2> HIDE DEF B, N
  <2>4. e = Smallest({k \in n + 1 .. m : k = m \/ k \in B}) /\ n < m
    BY <2>1, <2>2, <2>3
  <2>5. e \in n + 1 .. m /\ (\A k \in n + 1 .. e - 1 : k \notin B) /\ (e = m \/ e \in B)
    BY <2>4, RunEndFacts
  <2>6. QED BY <2>3, <2>5
<1>8. \A k \in i .. e - 1 : SamePrefix(ps, i, k)
  <2>1. ASSUME NEW k \in i .. e - 1, k # i PROVE SamePrefix(ps, i, k)
    <3>1. k \in i + 1 .. e - 1 /\ k \in i + 1 .. N /\ k \in Indices(ps) /\ i <= k
      BY <1>2, <1>7, <2>1 DEF Indices
    <3>2. HASH16(i, behind) = HASH16(k, behind)
      BY <1>7, <3>1
    <3>3. PatByte(ps, i, 0) = PatByte(ps, k, 0)
      BY <1>5, <3>2
    <3>4. PatLen(ps, k) > 1
      BY <1>1, <1>2, <3>1, <3>3, OneByteFirst
    <3>5. key(i) = key(k)
      BY <1>1, <1>4, <3>2, <3>4
    <3>6. QED BY <1>1, <3>4, <3>5 DEF SamePrefix
  <2>2. SamePrefix(ps, i, i)
    BY <1>1 DEF SamePrefix
  <2>3. QED BY <2>1, <2>2
<1>9. ASSUME e \in Indices(ps) PROVE ~SamePrefix(ps, e - 1, e) /\ ~SameByte(ps, e - 1, e)
  <2>1. e # N /\ e - 1 \in i .. e - 1
    BY <1>2, <1>7, <1>9 DEF Indices
  <2>2. SamePrefix(ps, i, e - 1)
    BY <1>8, <2>1
  <2>3. HASH16(i, behind) # HASH16(e, behind)
    BY <1>7, <2>1
  <2>4. ASSUME SamePrefix(ps, e - 1, e) PROVE FALSE
    <3>1. PatLen(ps, e) > 1 /\ key(i) = key(e)
      BY <2>2, <2>4 DEF SamePrefix
    <3>2. QED BY <1>1, <1>4, <2>3, <3>1
  <2>5. PatLen(ps, e - 1) > 1
    BY <2>2 DEF SamePrefix
  <2>6. ~SameByte(ps, e - 1, e)
    <3>1. ~(1 > 1)
      OBVIOUS
    <3>2. QED BY <2>5, <3>1 DEF SameByte
  <2>7. QED BY <2>4, <2>6
<1>10. PICK g, h : g = ps /\ h = ps'
  OBVIOUS
<1>11. /\ DOMAIN h = Fields
       /\ h.msNumPatterns = g.msNumPatterns /\ h.msPatArray = g.msPatArray
       /\ h.msHash1 = g.msHash1
       /\ h.msHash = [g.msHash EXCEPT ![<<PatByte(g, i, 0), PatByte(g, i, 1)>>] = i]
       /\ h.msNumArray = [k \in DOMAIN g.msNumArray |-> IF k = i THEN e - i ELSE g.msNumArray[k]]
  <2>1. HASH16(i, behind) = key(i)
    BY <1>1, <1>4
  <2>2. ps' = [[ps EXCEPT !.msHash[key(i)] = i] EXCEPT !.msNumArray =
                 [k \in DOMAIN @ |-> IF k = i THEN e - i ELSE @[k]]]
    BY <1>2, <1>3, <1>6, <2>1
  <2>3. QED BY <1>2, <1>10, <2>2 DEF Fields
<1>12. ArrayCorrect(file, h)
  BY <1>2, <1>10, <1>11, ArraySame
<1>13. HashedUpTo(h, e)
  <2>1. /\ ArrayCorrect(file, g) /\ HashedUpTo(g, i) /\ i \in Indices(g) /\ PatLen(g, i) > 1
        /\ e \in i + 1 .. g.msNumPatterns
        /\ \A k \in i .. e - 1 : SamePrefix(g, i, k)
        /\ e \in Indices(g) => ~SamePrefix(g, e - 1, e) /\ ~SameByte(g, e - 1, e)
    BY <1>1, <1>2, <1>7, <1>8, <1>9, <1>10
  <2>2. QED BY <1>11, <2>1, PrefixGroupEntered
<1>14. QED BY <1>1, <1>2, <1>6, <1>10, <1>11, <1>12, <1>13 DEF PrepInv, PreparedCorrect

(* The same for the patterns of one byte. *)
LEMMA PrepByteGroup ==
    ASSUME PrepInv, HashOneByteGroup
    PROVE  PrepInv'
<1>1. /\ pc = "hash" /\ pc' = "hash" /\ i < ps.msNumPatterns /\ PatLen(ps, i) = 1
      /\ file' = file /\ msLargeShifts' = msLargeShifts /\ plist' = plist
  BY DEF HashOneByteGroup, EnterGroup
<1>2. /\ file \in Files /\ msLargeShifts \in {0, 1} /\ IndicesFit /\ DOMAIN ps = Fields
      /\ ps.msNumPatterns = Len(file)
      /\ ArrayCorrect(file, ps) /\ HashedUpTo(ps, i)
      /\ ps.msNumPatterns \in Nat
      /\ i \in Indices(ps) /\ i \in Nat /\ Short(i) = i
  BY <1>1, HashPhase
<1>3. /\ i' = Smallest({k \in i + 1 .. ps.msNumPatterns :
                 k = ps.msNumPatterns
                 \/ ~(PatByte(ps, i, 0) = PatByte(ps, k, 0) /\ PatLen(ps, k) = 1)})
      /\ ps' = [[ps EXCEPT !.msHash1[PatByte(ps, i, 0)] = Short(i)] EXCEPT !.msNumArray =
                  [k \in DOMAIN @ |-> IF k = Short(i) THEN i' - i ELSE @[k]]]
  BY DEF HashOneByteGroup, EnterGroup, RunEnd
<1> DEFINE N == ps.msNumPatterns
           B == {k \in i + 1 .. N : ~(PatByte(ps, i, 0) = PatByte(ps, k, 0) /\ PatLen(ps, k) = 1)}
<1>4. PICK e : e = i'
  OBVIOUS
<1>5. /\ e \in i + 1 .. N
      /\ \A k \in i + 1 .. e - 1 : k \notin B
      /\ e = N \/ e \in B
  <2>1. e = Smallest({k \in i + 1 .. N : k = N \/ k \in B})
    <3>1. {k \in i + 1 .. N : k = N \/ k \in B} =
            {k \in i + 1 .. N : k = N
                 \/ ~(PatByte(ps, i, 0) = PatByte(ps, k, 0) /\ PatLen(ps, k) = 1)}
      OBVIOUS
    <3>2. QED BY <1>3, <1>4, <3>1
  <2>2. i \in Nat /\ N \in Nat /\ i < N
    BY <1>1, <1>2
  <2>3. PICK n \in Nat, m \in Nat : n = i /\ m = N
    BY <2>2
  <2> HIDE DEF B, N
  <2>4. e = Smallest({k \in n + 1 .. m : k = m \/ k \in B}) /\ n < m
    BY <2>1, <2>2, <2>3
  <2>5. e \in n + 1 .. m /\ (\A k \in n + 1 .. e - 1 : k \notin B) /\ (e = m \/ e \in B)
    BY <2>4, RunEndFacts
  <2>6. QED BY <2>3, <2>5
<1>6. \A k \in i .. e - 1 : SameByte(ps, i, k)
  <2>1. ASSUME NEW k \in i .. e - 1, k # i PROVE SameByte(ps, i, k)
    <3>1. k \in i + 1 .. e - 1 /\ k \in i + 1 .. N
      BY <1>2, <1>5, <2>1
    <3>2. PatByte(ps, i, 0) = PatByte(ps, k, 0) /\ PatLen(ps, k) = 1
      BY <1>5, <3>1
    <3>3. QED BY <1>1, <3>2 DEF SameByte
  <2>2. SameByte(ps, i, i)
    BY <1>1 DEF SameByte
  <2>3. QED BY <2>1, <2>2
<1>7. ASSUME e \in Indices(ps) PROVE ~SamePrefix(ps, e - 1, e) /\ ~SameByte(ps, e - 1, e)
  <2>1. e # N /\ e - 1 \in i .. e - 1
    BY <1>2, <1>5, <1>7 DEF Indices
  <2>2. SameByte(ps, i, e - 1)
    BY <1>6, <2>1
  <2>3. ~(PatByte(ps, i, 0) = PatByte(ps, e, 0) /\ PatLen(ps, e) = 1)
    BY <1>5, <2>1
  <2>4. ~SameByte(ps, e - 1, e)
    BY <2>2, <2>3 DEF SameByte
  <2>5. ~SamePrefix(ps, e - 1, e)
    <3>1. ~(1 > 1)
      OBVIOUS
    <3>2. QED BY <2>2, <3>1 DEF SameByte, SamePrefix
  <2>6. QED BY <2>4, <2>5
<1>8. PICK g, h : g = ps /\ h = ps'
  OBVIOUS
<1>9. /\ DOMAIN h = Fields
      /\ h.msNumPatterns = g.msNumPatterns /\ h.msPatArray = g.msPatArray
      /\ h.msHash = g.msHash
      /\ h.msHash1 = [g.msHash1 EXCEPT ![PatByte(g, i, 0)] = i]
      /\ h.msNumArray = [k \in DOMAIN g.msNumArray |-> IF k = i THEN e - i ELSE g.msNumArray[k]]
  <2>1. ps' = [[ps EXCEPT !.msHash1[PatByte(ps, i, 0)] = i] EXCEPT !.msNumArray =
                 [k \in DOMAIN @ |-> IF k = i THEN e - i ELSE @[k]]]
    BY <1>2, <1>3, <1>4
  <2>2. QED BY <1>2, <1>8, <2>1 DEF Fields
<1>10. ArrayCorrect(file, h)
  BY <1>2, <1>8, <1>9, ArraySame
<1>11. HashedUpTo(h, e)
  <2>1. /\ ArrayCorrect(file, g) /\ HashedUpTo(g, i) /\ i \in Indices(g) /\ PatLen(g, i) = 1
        /\ e \in i + 1 .. g.msNumPatterns
        /\ \A k \in i .. e - 1 : SameByte(g, i, k)
        /\ e \in Indices(g) => ~SamePrefix(g, e - 1, e) /\ ~SameByte(g, e - 1, e)
    BY <1>1, <1>2, <1>5, <1>6, <1>7, <1>8
  <2>2. QED BY <1>9, <2>1, ByteGroupEntered
<1>12. QED BY <1>1, <1>2, <1>4, <1>8, <1>9, <1>10, <1>11 DEF PrepInv, PreparedCorrect

-----------------------------------------------------------------------------
(* The shift tables. *)

LEMMA ShiftLenFacts ==
    ASSUME ArrayCorrect(file, ps)
    PROVE  /\ ShiftLen \in Nat \ {0}
           /\ \A k \in Indices(ps) : ShiftLen <= PatLen(ps, k)
<1> DEFINE S == {MaxShift} \cup {PatLen(ps, k) : k \in Indices(ps)}
<1>1. \A x \in S : x \in Nat /\ x # 0
  <2>1. MaxShift \in Nat /\ MaxShift # 0
    BY FilesAssumption
  <2>2. \A k \in Indices(ps) : PatLen(ps, k) \in Nat /\ PatLen(ps, k) # 0
    <3>1. \A k \in Indices(ps) : PatLen(ps, k) \in Nat /\ PatLen(ps, k) > 0
      BY PatFacts
    <3>2. ~(0 > 0)
      OBVIOUS
    <3>3. QED BY <3>1, <3>2
  <2>3. QED BY <2>1, <2>2
<1>2. S \subseteq Nat /\ MaxShift \in S /\ \A k \in Indices(ps) : PatLen(ps, k) \in S
  BY <1>1
<1>3. ShiftLen \in S /\ \A y \in S : ShiftLen <= y
  <2>1. ShiftLen = Smallest(S)
    BY DEF ShiftLen
  <2> HIDE DEF S
  <2>2. QED BY <1>2, <2>1, SmallestNumber
<1> HIDE DEF S
<1>4. QED BY <1>1, <1>2, <1>3

(* One row of a table: the smaller of the old entry and what the row asks. *)
LEMMA RowFacts ==
    ASSUME NEW x \in Nat, NEW R, R \subseteq Nat
    PROVE  /\ Smallest({x} \cup R) \in {x} \cup R
           /\ Smallest({x} \cup R) \in Nat
           /\ Smallest({x} \cup R) <= x
           /\ \A y \in R : Smallest({x} \cup R) <= y
<1> DEFINE S == {x} \cup R
<1>1. S \subseteq Nat /\ S # {} /\ x \in S /\ \A y \in R : y \in S
  OBVIOUS
<1>2. Smallest(S) \in S /\ \A y \in S : Smallest(S) <= y
  <2> HIDE DEF S
  <2>1. QED BY <1>1, SmallestNumber
<1>3. QED BY <1>1, <1>2

LEMMA Phases ==
    ASSUME PrepInv, pc \in {"hash", "shift", "shift2", "bmh"}
    PROVE  /\ file \in Files /\ msLargeShifts \in {0, 1} /\ IndicesFit /\ DOMAIN ps = Fields
           /\ ps.msNumPatterns = Len(file) /\ ps.msNumPatterns \in Nat
           /\ ArrayCorrect(file, ps)
           /\ pc # "hash" => HashedUpTo(ps, ps.msNumPatterns)
           /\ pc = "hash" => HashedUpTo(ps, i)
<1>1. QED BY DEF PrepInv, ArrayCorrect

LEMMA PrepChooseWuManber ==
    ASSUME PrepInv, ChooseWuManber
    PROVE  PrepInv'
<1>1. /\ pc = "hash" /\ pc' = "shift" /\ i = ps.msNumPatterns /\ i' = 0
      /\ ps' = [ps EXCEPT !.msMethod   = "MTH_MWM",
                          !.msShiftLen = ShiftLen,
                          !.msShift    = [c \in Char |-> ShiftLen]]
      /\ file' = file /\ msLargeShifts' = msLargeShifts
  BY DEF ChooseWuManber
<1>2. /\ file \in Files /\ msLargeShifts \in {0, 1} /\ IndicesFit /\ DOMAIN ps = Fields
      /\ ps.msNumPatterns = Len(file) /\ ps.msNumPatterns \in Nat
      /\ ArrayCorrect(file, ps) /\ HashedUpTo(ps, ps.msNumPatterns)
  BY <1>1, Phases
<1>3. PICK m : m = ShiftLen
  OBVIOUS
<1>4. m \in Nat \ {0} /\ \A k \in Indices(ps) : m <= PatLen(ps, k)
  BY <1>2, <1>3, ShiftLenFacts
<1>5. PICK g, h : g = ps /\ h = ps'
  OBVIOUS
<1>6. /\ DOMAIN h = Fields
      /\ h.msNumPatterns = g.msNumPatterns /\ h.msPatArray = g.msPatArray
      /\ h.msNumArray = g.msNumArray /\ h.msHash = g.msHash /\ h.msHash1 = g.msHash1
      /\ h.msMethod = "MTH_MWM" /\ h.msShiftLen = m /\ h.msShift = [c \in Char |-> m]
  BY <1>1, <1>2, <1>3, <1>5 DEF Fields
<1>7. ArrayCorrect(file, h) /\ HashedUpTo(h, h.msNumPatterns)
  BY <1>2, <1>5, <1>6, ArraySame, HashedSame
<1>8. CharShiftsUpTo(h, 0)
  <2>1. Indices(h) = Indices(g) /\ \A k : PatLen(h, k) = PatLen(g, k)
    BY <1>6 DEF Indices, PatLen
  <2>2. 0 \in 0 .. h.msNumPatterns /\ m \in 0 .. m
    BY <1>2, <1>4, <1>5, <1>6
  <2>3. h.msShift \in [Char -> 0 .. h.msShiftLen]
    BY <1>6, <2>2
  <2>4. \A k : k \notin 0 .. 0 - 1
    OBVIOUS
  <2>5. \A c \in Char : h.msShift[c] = h.msShiftLen
    BY <1>6
  <2>6. h.msShiftLen \in Nat \ {0} /\ \A k \in Indices(h) : h.msShiftLen <= PatLen(h, k)
    BY <1>4, <1>5, <1>6, <2>1
  <2>7. QED BY <2>2, <2>3, <2>4, <2>5, <2>6 DEF CharShiftsUpTo
<1>9. QED BY <1>1, <1>2, <1>5, <1>6, <1>7, <1>8 DEF PrepInv, PreparedCorrect

(* The shifts pattern n asks for when the byte c is under the end. *)
CharAsks(g, n, c) ==
    {g.msShiftLen - 1 - k : k \in {k \in 0 .. g.msShiftLen - 1 : PatByte(g, n, k) = c}}

(* mwmPrepBadCharTable for pattern n. *)
LEMMA CharRow ==
    ASSUME NEW f, NEW g, ArrayCorrect(f, g), NEW n, CharShiftsUpTo(g, n), n \in Indices(g),
           NEW h, h.msNumPatterns = g.msNumPatterns, h.msPatArray = g.msPatArray,
           h.msShiftLen = g.msShiftLen,
           h.msShift = [c \in Char |-> Smallest({g.msShift[c]} \cup CharAsks(g, n, c))]
    PROVE  CharShiftsUpTo(h, n + 1)
<1> DEFINE R(c) == CharAsks(g, n, c)
           s == g.msShift
           t == h.msShift
<1>0. PICK m : m = g.msShiftLen
  OBVIOUS
<1>1. /\ m \in Nat \ {0} /\ s \in [Char -> 0 .. m]
      /\ \A k \in Indices(g) : m <= PatLen(g, k)
      /\ \A k \in 0 .. n - 1, j \in 0 .. m - 1 : s[PatByte(g, k, j)] <= m - 1 - j
      /\ \A c \in Char : \/ s[c] = m
                         \/ \E k \in Indices(g) : s[c] < m /\ PatByte(g, k, m - 1 - s[c]) = c
  BY <1>0 DEF CharShiftsUpTo
<1>2. Indices(h) = Indices(g) /\ (\A k : PatLen(h, k) = PatLen(g, k))
      /\ \A k, j : PatByte(h, k, j) = PatByte(g, k, j)
  BY DEF Indices, PatLen, PatByte
<1>3. g.msNumPatterns \in Nat /\ n \in 0 .. g.msNumPatterns - 1
  BY IndexFacts
<1>4. \A k \in 0 .. n : k \in Indices(g) /\ (k \in 0 .. n - 1 \/ k = n)
  BY <1>3, IndexFacts
<1>5. \A k \in Indices(g), j \in 0 .. m - 1 : PatByte(g, k, j) \in Char
  <2>1. ASSUME NEW k \in Indices(g), NEW j \in 0 .. m - 1 PROVE PatByte(g, k, j) \in Char
    <3>1. m <= PatLen(g, k) /\ PatLen(g, k) \in Nat
      BY <1>1, PatFacts
    <3>2. j \in 0 .. PatLen(g, k) - 1
      BY <1>1, <3>1
    <3>3. QED BY <3>2, PatFacts
  <2>2. QED BY <2>1
<1>6. \A c \in Char : R(c) \subseteq 0 .. m - 1
  BY <1>0, <1>1 DEF CharAsks
<1>7. \A c \in Char : t[c] = Smallest({s[c]} \cup R(c))
  OBVIOUS
<1>8. \A c \in Char, k \in 0 .. m - 1 : PatByte(g, n, k) = c => m - 1 - k \in R(c)
  BY <1>0 DEF CharAsks
<1>9. \A c \in Char : \A x \in R(c) : \E k \in 0 .. m - 1 : x = m - 1 - k /\ PatByte(g, n, k) = c
  BY <1>0 DEF CharAsks
<1>10. DOMAIN t = Char /\ t = [c \in Char |-> t[c]]
  OBVIOUS
<1> HIDE DEF R, s, t
<1>11. ASSUME NEW c \in Char
       PROVE  /\ t[c] \in {s[c]} \cup R(c) /\ t[c] \in Nat /\ t[c] <= s[c]
              /\ \A y \in R(c) : t[c] <= y
  <2>1. s[c] \in Nat /\ R(c) \subseteq Nat
    <3>1. s[c] \in 0 .. m /\ R(c) \subseteq 0 .. m - 1
      BY <1>1, <1>6
    <3>2. QED BY <1>1, <3>1
  <2>2. PICK x, A : x = s[c] /\ A = R(c) /\ x \in Nat /\ A \subseteq Nat
    BY <2>1
  <2>3. t[c] = Smallest({x} \cup A)
    BY <1>7, <2>2
  <2>4. QED BY <2>2, <2>3, RowFacts
<1>12. t \in [Char -> 0 .. m]
  <2>1. ASSUME NEW c \in Char PROVE t[c] \in 0 .. m
    <3>1. s[c] \in 0 .. m
      BY <1>1
    <3>2. t[c] \in Nat /\ t[c] <= s[c]
      BY <1>11
    <3>3. QED BY <1>1, <3>1, <3>2
  <2>2. QED BY <1>10, <2>1
<1>13. ASSUME NEW k \in 0 .. n, NEW j \in 0 .. m - 1 PROVE t[PatByte(g, k, j)] <= m - 1 - j
  <2>1. PICK c \in Char : c = PatByte(g, k, j)
    BY <1>4, <1>5
  <2>2. CASE k \in 0 .. n - 1
    <3>1. s[c] <= m - 1 - j
      BY <1>1, <2>1, <2>2
    <3>2. t[c] <= s[c] /\ t[c] \in Nat /\ s[c] \in 0 .. m
      BY <1>1, <1>11
    <3>3. t[c] <= m - 1 - j
      BY <1>1, <3>1, <3>2
    <3>4. QED BY <2>1, <3>3
  <2>3. CASE k = n
    <3>1. m - 1 - j \in R(c)
      BY <1>8, <2>1, <2>3
    <3>2. QED BY <1>11, <2>1, <3>1
  <2>4. QED BY <1>4, <2>2, <2>3
<1>14. ASSUME NEW c \in Char
       PROVE  t[c] = m \/ \E k \in Indices(g) : t[c] < m /\ PatByte(g, k, m - 1 - t[c]) = c
  <2>1. CASE t[c] = s[c]
    BY <1>1, <2>1
  <2>2. CASE t[c] \in R(c)
    <3>1. PICK k \in 0 .. m - 1 : t[c] = m - 1 - k /\ PatByte(g, n, k) = c
      BY <1>9, <2>2
    <3>2. t[c] < m /\ m - 1 - t[c] = k
      BY <1>1, <3>1
    <3>3. PatByte(g, n, m - 1 - t[c]) = c
      BY <3>1, <3>2
    <3>4. QED BY <3>2, <3>3
  <2>3. QED BY <1>11, <2>1, <2>2
<1>15. n + 1 \in 0 .. h.msNumPatterns /\ (n + 1) - 1 = n
  BY <1>3
<1>16. /\ h.msShiftLen = m /\ h.msShiftLen \in Nat \ {0}
       /\ \A k \in Indices(h) : h.msShiftLen <= PatLen(h, k)
  BY <1>0, <1>1, <1>2
<1>17. /\ h.msShift \in [Char -> 0 .. h.msShiftLen]
       /\ \A k \in 0 .. (n + 1) - 1, j \in 0 .. h.msShiftLen - 1 :
            h.msShift[PatByte(h, k, j)] <= h.msShiftLen - 1 - j
  <2>1. h.msShift \in [Char -> 0 .. h.msShiftLen]
    BY <1>12, <1>16 DEF t
  <2>2. ASSUME NEW k \in 0 .. (n + 1) - 1, NEW j \in 0 .. h.msShiftLen - 1
        PROVE  h.msShift[PatByte(h, k, j)] <= h.msShiftLen - 1 - j
    <3>1. k \in 0 .. n /\ j \in 0 .. m - 1
      BY <1>15, <1>16
    <3>2. t[PatByte(g, k, j)] <= m - 1 - j
      BY <1>13, <3>1
    <3>3. QED BY <1>2, <1>16, <3>2 DEF t
  <2>3. QED BY <2>1, <2>2
<1>18. \A c \in Char :
          \/ h.msShift[c] = h.msShiftLen
          \/ \E k \in Indices(h) :
               h.msShift[c] < h.msShiftLen
               /\ PatByte(h, k, h.msShiftLen - 1 - h.msShift[c]) = c
  BY <1>2, <1>14, <1>16 DEF t
<1>19. QED BY <1>15, <1>16, <1>17, <1>18 DEF CharShiftsUpTo

LEMMA PrepBadCharRow ==
    ASSUME PrepInv, BadCharRow
    PROVE  PrepInv'
<1>1. /\ pc = "shift" /\ pc' = "shift" /\ i < ps.msNumPatterns /\ i' = i + 1
      /\ file' = file /\ msLargeShifts' = msLargeShifts
      /\ ps' = [ps EXCEPT !.msShift =
                 [c \in Char |->
                   Smallest({@[c]} \cup CharAsks(ps, i, c))]]
  BY DEF BadCharRow, CharAsks
<1>2. /\ file \in Files /\ msLargeShifts \in {0, 1} /\ IndicesFit /\ DOMAIN ps = Fields
      /\ ps.msNumPatterns = Len(file) /\ ps.msNumPatterns \in Nat
      /\ ArrayCorrect(file, ps) /\ HashedUpTo(ps, ps.msNumPatterns)
  BY <1>1, Phases
<1>3. ps.msMethod = "MTH_MWM" /\ CharShiftsUpTo(ps, i)
  BY <1>1 DEF PrepInv
<1>4. i \in Indices(ps)
  <2>1. i \in 0 .. ps.msNumPatterns
    BY <1>3 DEF CharShiftsUpTo
  <2>2. QED BY <1>1, <1>2, <2>1 DEF Indices
<1>5. PICK g, h, n : g = ps /\ h = ps' /\ n = i
  OBVIOUS
<1>6. /\ DOMAIN h = Fields
      /\ h.msNumPatterns = g.msNumPatterns /\ h.msPatArray = g.msPatArray
      /\ h.msNumArray = g.msNumArray /\ h.msHash = g.msHash /\ h.msHash1 = g.msHash1
      /\ h.msMethod = "MTH_MWM" /\ h.msShiftLen = g.msShiftLen
      /\ h.msShift = [c \in Char |-> Smallest({g.msShift[c]} \cup CharAsks(g, n, c))]
  BY <1>1, <1>2, <1>3, <1>5 DEF Fields
<1>7. ArrayCorrect(file, h) /\ HashedUpTo(h, h.msNumPatterns)
  BY <1>2, <1>5, <1>6, ArraySame, HashedSame
<1>8. CharShiftsUpTo(h, n + 1)
  <2>1. ArrayCorrect(file, g) /\ CharShiftsUpTo(g, n) /\ n \in Indices(g)
    BY <1>2, <1>3, <1>4, <1>5
  <2>2. QED BY <1>5, <1>6, <2>1, CharRow
<1>9. QED BY <1>1, <1>2, <1>5, <1>6, <1>7, <1>8 DEF PrepInv, PreparedCorrect

LEMMA WordPhase ==
    ASSUME PrepInv, pc \in {"shift", "shift2"}
    PROVE  /\ ps.msMethod = "MTH_MWM"
           /\ CharShiftsUpTo(ps, IF pc = "shift" THEN i ELSE ps.msNumPatterns)
           /\ pc = "shift2" => WantsBadWord /\ WordShiftsUpTo(ps, i)
  BY DEF PrepInv

LEMMA PrepBeginBadWord ==
    ASSUME PrepInv, BeginBadWord
    PROVE  PrepInv'
<1>1. /\ pc = "shift" /\ pc' = "shift2" /\ i = ps.msNumPatterns /\ i' = 0 /\ WantsBadWord
      /\ file' = file /\ msLargeShifts' = msLargeShifts
      /\ ps' = [ps EXCEPT !.msShift2 = [w \in Char \X Char |-> ps.msShiftLen - 1]]
  BY DEF BeginBadWord
<1>2. /\ file \in Files /\ msLargeShifts \in {0, 1} /\ IndicesFit /\ DOMAIN ps = Fields
      /\ ps.msNumPatterns = Len(file) /\ ps.msNumPatterns \in Nat
      /\ ArrayCorrect(file, ps) /\ HashedUpTo(ps, ps.msNumPatterns)
  BY <1>1, Phases
<1>3. ps.msMethod = "MTH_MWM" /\ CharShiftsUpTo(ps, ps.msNumPatterns)
  BY <1>1, WordPhase
<1>4. PICK g, h : g = ps /\ h = ps'
  OBVIOUS
<1>5. /\ DOMAIN h = Fields
      /\ h.msNumPatterns = g.msNumPatterns /\ h.msPatArray = g.msPatArray
      /\ h.msNumArray = g.msNumArray /\ h.msHash = g.msHash /\ h.msHash1 = g.msHash1
      /\ h.msMethod = "MTH_MWM" /\ h.msShiftLen = g.msShiftLen /\ h.msShift = g.msShift
      /\ h.msShift2 = [w \in Char \X Char |-> g.msShiftLen - 1]
  BY <1>1, <1>2, <1>3, <1>4 DEF Fields
<1>6. ArrayCorrect(file, h) /\ HashedUpTo(h, h.msNumPatterns)
  BY <1>2, <1>4, <1>5, ArraySame, HashedSame
<1>7. CharShiftsUpTo(h, h.msNumPatterns)
  BY <1>3, <1>4, <1>5, CharShiftsSame
<1>8. WordShiftsUpTo(h, 0)
  <2>1. h.msShiftLen \in Nat \ {0}
    BY <1>7 DEF CharShiftsUpTo
  <2>2. h.msShiftLen - 1 \in 0 .. h.msShiftLen - 1 /\ 0 \in 0 .. h.msNumPatterns
    BY <1>2, <1>4, <1>5, <2>1
  <2>3. h.msShift2 \in [Char \X Char -> 0 .. h.msShiftLen - 1]
    BY <1>5, <2>2
  <2>4. \A k : k \notin 0 .. 0 - 1
    OBVIOUS
  <2>5. QED BY <2>2, <2>3, <2>4 DEF WordShiftsUpTo
<1>9. WantsBadWord'
  BY <1>1, <1>4, <1>5 DEF WantsBadWord
<1>10. QED BY <1>1, <1>2, <1>4, <1>5, <1>6, <1>7, <1>8, <1>9 DEF PrepInv, PreparedCorrect

(* The shifts pattern n asks for when the bytes w are under the end. *)
WordAsks(g, n, w) ==
    {g.msShiftLen - 2 - k : k \in {k \in 0 .. g.msShiftLen - 2 :
        w = <<PatByte(g, n, k), PatByte(g, n, k + 1)>>}}

(* mbmPrepBadWordTable for pattern n. *)
LEMMA WordRow ==
    ASSUME NEW f, NEW g, ArrayCorrect(f, g), NEW l, CharShiftsUpTo(g, l),
           NEW n, WordShiftsUpTo(g, n), n \in Indices(g), g.msShiftLen > 1,
           NEW h, h.msNumPatterns = g.msNumPatterns, h.msPatArray = g.msPatArray,
           h.msShiftLen = g.msShiftLen,
           h.msShift2 = [w \in Char \X Char |-> Smallest({g.msShift2[w]} \cup WordAsks(g, n, w))]
    PROVE  WordShiftsUpTo(h, n + 1)
<1> DEFINE R(w) == WordAsks(g, n, w)
           s == g.msShift2
           t == h.msShift2
           W == Char \X Char
           word(k, j) == <<PatByte(g, k, j), PatByte(g, k, j + 1)>>
<1>1. PICK m : m = g.msShiftLen
  OBVIOUS
<1>2. m \in Nat /\ m > 1 /\ \A k \in Indices(g) : m <= PatLen(g, k)
  BY <1>1 DEF CharShiftsUpTo
<1>3. /\ s \in [W -> 0 .. m - 1]
      /\ \A k \in 0 .. n - 1, j \in 0 .. m - 2 : s[word(k, j)] <= m - 2 - j
  BY <1>1 DEF WordShiftsUpTo
<1>4. \A k, j : PatByte(h, k, j) = PatByte(g, k, j)
  BY DEF PatByte
<1>5. g.msNumPatterns \in Nat /\ n \in 0 .. g.msNumPatterns - 1
  BY IndexFacts
<1>6. \A k \in 0 .. n : k \in Indices(g) /\ (k \in 0 .. n - 1 \/ k = n)
  BY <1>5, IndexFacts
<1>7. \A k \in Indices(g), j \in 0 .. m - 2 : word(k, j) \in W
  <2>1. ASSUME NEW k \in Indices(g), NEW j \in 0 .. m - 2 PROVE word(k, j) \in W
    <3>1. m <= PatLen(g, k) /\ PatLen(g, k) \in Nat
      BY <1>2, PatFacts
    <3>2. j \in 0 .. PatLen(g, k) - 1 /\ j + 1 \in 0 .. PatLen(g, k) - 1
      BY <1>2, <3>1
    <3>3. PatByte(g, k, j) \in Char /\ PatByte(g, k, j + 1) \in Char
      BY <3>2, PatFacts
    <3>4. QED BY <3>3
  <2>2. QED BY <2>1
<1>8. \A w \in W : R(w) \subseteq 0 .. m - 2
  BY <1>1, <1>2 DEF WordAsks
<1>9. \A w \in W : t[w] = Smallest({s[w]} \cup R(w))
  OBVIOUS
<1>10. \A w \in W, k \in 0 .. m - 2 : w = word(n, k) => m - 2 - k \in R(w)
  BY <1>1 DEF WordAsks
<1>11. DOMAIN t = W /\ t = [w \in W |-> t[w]]
  OBVIOUS
<1> HIDE DEF R, s, t, W, word
<1>12. ASSUME NEW w \in W
       PROVE  t[w] \in Nat /\ t[w] <= s[w] /\ \A y \in R(w) : t[w] <= y
  <2>1. s[w] \in Nat /\ R(w) \subseteq Nat
    <3>1. s[w] \in 0 .. m - 1 /\ R(w) \subseteq 0 .. m - 2
      BY <1>3, <1>8
    <3>2. QED BY <1>2, <3>1
  <2>2. PICK x, A : x = s[w] /\ A = R(w) /\ x \in Nat /\ A \subseteq Nat
    BY <2>1
  <2>3. t[w] = Smallest({x} \cup A)
    BY <1>9, <2>2
  <2>4. /\ Smallest({x} \cup A) \in Nat /\ Smallest({x} \cup A) <= x
        /\ \A y \in A : Smallest({x} \cup A) <= y
    BY <2>2, RowFacts
  <2>5. QED BY <2>2, <2>3, <2>4
<1>13. t \in [W -> 0 .. m - 1]
  <2>1. ASSUME NEW w \in W PROVE t[w] \in 0 .. m - 1
    <3>1. s[w] \in 0 .. m - 1
      BY <1>3
    <3>2. t[w] \in Nat /\ t[w] <= s[w]
      BY <1>12
    <3>3. QED BY <1>2, <3>1, <3>2
  <2>2. QED BY <1>11, <2>1
<1>14. ASSUME NEW k \in 0 .. n, NEW j \in 0 .. m - 2 PROVE t[word(k, j)] <= m - 2 - j
  <2>1. PICK w \in W : w = word(k, j)
    BY <1>6, <1>7
  <2>2. CASE k \in 0 .. n - 1
    <3>1. s[w] <= m - 2 - j
      BY <1>3, <2>1, <2>2
    <3>2. t[w] <= s[w] /\ t[w] \in Nat /\ s[w] \in 0 .. m - 1
      BY <1>3, <1>12
    <3>3. t[w] <= m - 2 - j
      BY <1>2, <3>1, <3>2
    <3>4. QED BY <2>1, <3>3
  <2>3. CASE k = n
    <3>1. m - 2 - j \in R(w)
      BY <1>10, <2>1, <2>3
    <3>2. QED BY <1>12, <2>1, <3>1
  <2>4. QED BY <1>6, <2>2, <2>3
<1>15. n + 1 \in 0 .. h.msNumPatterns /\ (n + 1) - 1 = n
  BY <1>5
<1>16. /\ h.msShift2 \in [Char \X Char -> 0 .. h.msShiftLen - 1]
       /\ \A k \in 0 .. (n + 1) - 1, j \in 0 .. h.msShiftLen - 2 :
            h.msShift2[<<PatByte(h, k, j), PatByte(h, k, j + 1)>>] <= h.msShiftLen - 2 - j
  <2>1. h.msShift2 \in [Char \X Char -> 0 .. h.msShiftLen - 1]
    BY <1>1, <1>13 DEF t, W
  <2>2. \A k \in 0 .. n, j \in 0 .. h.msShiftLen - 2 :
            h.msShift2[<<PatByte(g, k, j), PatByte(g, k, j + 1)>>] <= h.msShiftLen - 2 - j
    BY <1>1, <1>14 DEF t, word
  <2>3. \A k \in 0 .. (n + 1) - 1, j \in 0 .. h.msShiftLen - 2 :
            h.msShift2[<<PatByte(h, k, j), PatByte(h, k, j + 1)>>] <= h.msShiftLen - 2 - j
    <3>1. ASSUME NEW k \in 0 .. (n + 1) - 1, NEW j \in 0 .. h.msShiftLen - 2
          PROVE  h.msShift2[<<PatByte(h, k, j), PatByte(h, k, j + 1)>>] <= h.msShiftLen - 2 - j
      <4>1. k \in 0 .. n
        BY <1>15
      <4>2. PatByte(h, k, j) = PatByte(g, k, j) /\ PatByte(h, k, j + 1) = PatByte(g, k, j + 1)
        BY <1>4
      <4>3. QED BY <2>2, <4>1, <4>2
    <3>2. QED BY <3>1
  <2>4. QED BY <2>1, <2>3
<1>17. QED BY <1>15, <1>16 DEF WordShiftsUpTo

LEMMA PrepBadWordRow ==
    ASSUME PrepInv, BadWordRow
    PROVE  PrepInv'
<1>1. /\ pc = "shift2" /\ pc' = "shift2" /\ i < ps.msNumPatterns /\ i' = i + 1
      /\ file' = file /\ msLargeShifts' = msLargeShifts
      /\ ps' = [ps EXCEPT !.msShift2 =
                 [w \in Char \X Char |-> Smallest({@[w]} \cup WordAsks(ps, i, w))]]
  BY DEF BadWordRow, WordAsks
<1>2. /\ file \in Files /\ msLargeShifts \in {0, 1} /\ IndicesFit /\ DOMAIN ps = Fields
      /\ ps.msNumPatterns = Len(file) /\ ps.msNumPatterns \in Nat
      /\ ArrayCorrect(file, ps) /\ HashedUpTo(ps, ps.msNumPatterns)
  BY <1>1, Phases
<1>3. /\ ps.msMethod = "MTH_MWM" /\ CharShiftsUpTo(ps, ps.msNumPatterns)
      /\ WantsBadWord /\ WordShiftsUpTo(ps, i)
  BY <1>1, WordPhase
<1>4. i \in Indices(ps)
  <2>1. i \in 0 .. ps.msNumPatterns
    BY <1>3 DEF WordShiftsUpTo
  <2>2. QED BY <1>1, <1>2, <2>1 DEF Indices
<1>5. PICK g, h, n : g = ps /\ h = ps' /\ n = i
  OBVIOUS
<1>6. /\ DOMAIN h = Fields
      /\ h.msNumPatterns = g.msNumPatterns /\ h.msPatArray = g.msPatArray
      /\ h.msNumArray = g.msNumArray /\ h.msHash = g.msHash /\ h.msHash1 = g.msHash1
      /\ h.msMethod = "MTH_MWM" /\ h.msShiftLen = g.msShiftLen /\ h.msShift = g.msShift
      /\ h.msShift2 =
           [w \in Char \X Char |-> Smallest({g.msShift2[w]} \cup WordAsks(g, n, w))]
  BY <1>1, <1>2, <1>3, <1>5 DEF Fields
<1>7. ArrayCorrect(file, h) /\ HashedUpTo(h, h.msNumPatterns)
  BY <1>2, <1>5, <1>6, ArraySame, HashedSame
<1>8. CharShiftsUpTo(h, h.msNumPatterns)
  BY <1>3, <1>5, <1>6, CharShiftsSame
<1>9. WordShiftsUpTo(h, n + 1)
  <2>1. /\ ArrayCorrect(file, g) /\ CharShiftsUpTo(g, g.msNumPatterns)
        /\ WordShiftsUpTo(g, n) /\ n \in Indices(g) /\ g.msShiftLen > 1
    BY <1>2, <1>3, <1>4, <1>5 DEF WantsBadWord
  <2>2. QED BY <1>6, <2>1, WordRow
<1>10. WantsBadWord'
  BY <1>1, <1>3, <1>5, <1>6 DEF WantsBadWord
<1>11. QED BY <1>1, <1>2, <1>5, <1>6, <1>7, <1>8, <1>9, <1>10 DEF PrepInv, PreparedCorrect

-----------------------------------------------------------------------------
(* A group is ready. *)

LEMMA GroupsReady ==
    ASSUME NEW f, NEW g, ArrayCorrect(f, g), HashedUpTo(g, g.msNumPatterns)
    PROVE  GroupsTyped(g) /\ GroupsExact(g)
<1>1. g.msNumPatterns \in Nat /\ 0 .. g.msNumPatterns - 1 = Indices(g)
  BY DEF ArrayCorrect, Indices
<1>2. GroupsTyped(g)
  BY <1>1 DEF ArrayCorrect, HashedUpTo, GroupsTyped, Patterns
<1>3. GroupsExact(g)
  BY <1>1 DEF HashedUpTo, GroupsExact
<1>4. QED BY <1>2, <1>3

LEMMA KeptAndLargest ==
    /\ ArrayCorrect(file, ps) => PatternsKept
    /\ CharShiftsUpTo(ps, ps.msNumPatterns) => ShiftsLargest
  BY DEF ArrayCorrect, ArrayHolds, PatternsKept, CharShiftsUpTo, ShiftsLargest

LEMMA PrepSelectSearch ==
    ASSUME PrepInv, SelectSearch
    PROVE  PrepInv'
<1>1. /\ pc \in {"shift", "shift2"} /\ i = ps.msNumPatterns /\ pc' = "ready"
      /\ pc = "shift" => ~WantsBadWord
      /\ file' = file /\ msLargeShifts' = msLargeShifts
      /\ ps' = [ps EXCEPT !.search = IF ps.msShiftLen = 1 THEN "NoBC"
                                     ELSE IF msLargeShifts = 0 THEN "BC" ELSE "BW"]
  BY DEF SelectSearch, TablesBuilt
<1>2. /\ file \in Files /\ msLargeShifts \in {0, 1} /\ IndicesFit /\ DOMAIN ps = Fields
      /\ ps.msNumPatterns = Len(file) /\ ps.msNumPatterns \in Nat
      /\ ArrayCorrect(file, ps) /\ HashedUpTo(ps, ps.msNumPatterns)
  BY <1>1, Phases
<1>3. /\ ps.msMethod = "MTH_MWM" /\ CharShiftsUpTo(ps, ps.msNumPatterns)
      /\ pc = "shift2" => WantsBadWord /\ WordShiftsUpTo(ps, ps.msNumPatterns)
  BY <1>1, WordPhase
<1>4. PICK g, h : g = ps /\ h = ps'
  OBVIOUS
<1>5. /\ DOMAIN h = Fields
      /\ h.msNumPatterns = g.msNumPatterns /\ h.msPatArray = g.msPatArray
      /\ h.msNumArray = g.msNumArray /\ h.msHash = g.msHash /\ h.msHash1 = g.msHash1
      /\ h.msMethod = "MTH_MWM" /\ h.msShiftLen = g.msShiftLen /\ h.msShift = g.msShift
      /\ h.msShift2 = g.msShift2
      /\ h.search = IF g.msShiftLen = 1 THEN "NoBC"
                    ELSE IF msLargeShifts = 0 THEN "BC" ELSE "BW"
  BY <1>1, <1>2, <1>3, <1>4 DEF Fields
<1>6. ArrayCorrect(file, h) /\ HashedUpTo(h, h.msNumPatterns)
  BY <1>2, <1>4, <1>5, ArraySame, HashedSame
<1>7. CharShiftsUpTo(h, h.msNumPatterns)
  BY <1>3, <1>4, <1>5, CharShiftsSame
<1>8. h.msNumPatterns \in Nat /\ 0 .. h.msNumPatterns - 1 = Indices(h)
  BY <1>2, <1>4, <1>5 DEF Indices
<1>9. ShiftsSafe(h)
  BY <1>7, <1>8 DEF CharShiftsUpTo, ShiftsSafe
<1>10. ASSUME h.search = "BW" PROVE WordShiftsSafe(h)
  <2>1. g.msShiftLen # 1 /\ msLargeShifts # 0
    BY <1>5, <1>10
  <2>2. g.msShiftLen \in Nat \ {0}
    BY <1>3, <1>4 DEF CharShiftsUpTo
  <2>3. WantsBadWord
    BY <1>4, <2>1, <2>2 DEF WantsBadWord
  <2>4. WordShiftsUpTo(g, g.msNumPatterns)
    BY <1>1, <1>3, <1>4, <2>3
  <2>5. Indices(g) = Indices(h) /\ \A k, j : PatByte(h, k, j) = PatByte(g, k, j)
    BY <1>5 DEF Indices, PatByte
  <2>6. QED BY <1>5, <1>8, <2>4, <2>5 DEF WordShiftsUpTo, WordShiftsSafe
<1>11. SearchFits(h)
  BY <1>5, <1>9, <1>10 DEF SearchFits
<1>12. GroupCorrect(h)
  BY <1>5, <1>6, <1>11, GroupsReady DEF GroupCorrect
<1>13. (PatternsKept /\ ShiftsLargest)'
  <2>1. PatternsKept'
    <3>1. ArrayHolds(file, h)
      BY <1>6 DEF ArrayCorrect
    <3>2. QED BY <1>1, <1>4, <3>1 DEF PatternsKept, ArrayHolds
  <2>2. ShiftsLargest'
    BY <1>4, <1>7 DEF ShiftsLargest, CharShiftsUpTo
  <2>3. QED BY <2>1, <2>2
<1>14. PreparedCorrect'
  BY <1>4, <1>12, <1>13 DEF PreparedCorrect
<1>15. QED BY <1>1, <1>2, <1>4, <1>5, <1>6, <1>14 DEF PrepInv

-----------------------------------------------------------------------------
(* Boyer-Moore. *)

LEMMA PrepChooseBoyerMoore ==
    ASSUME PrepInv, ChooseBoyerMoore
    PROVE  PrepInv'
<1>1. /\ pc = "hash" /\ pc' = "bmh" /\ i = ps.msNumPatterns /\ i' = 0
      /\ ps' = [ps EXCEPT !.msMethod = "MTH_BM", !.psBmh = [k \in Indices(ps) |-> << >>]]
      /\ file' = file /\ msLargeShifts' = msLargeShifts
  BY DEF ChooseBoyerMoore
<1>2. /\ file \in Files /\ msLargeShifts \in {0, 1} /\ IndicesFit /\ DOMAIN ps = Fields
      /\ ps.msNumPatterns = Len(file) /\ ps.msNumPatterns \in Nat
      /\ ArrayCorrect(file, ps) /\ HashedUpTo(ps, ps.msNumPatterns)
  BY <1>1, Phases
<1>3. PICK g, h : g = ps /\ h = ps'
  OBVIOUS
<1>4. /\ DOMAIN h = Fields
      /\ h.msNumPatterns = g.msNumPatterns /\ h.msPatArray = g.msPatArray
      /\ h.msNumArray = g.msNumArray /\ h.msHash = g.msHash /\ h.msHash1 = g.msHash1
      /\ h.msMethod = "MTH_BM" /\ h.psBmh = [k \in Indices(g) |-> << >>]
  BY <1>1, <1>2, <1>3 DEF Fields
<1>5. ArrayCorrect(file, h) /\ HashedUpTo(h, h.msNumPatterns)
  BY <1>2, <1>3, <1>4, ArraySame, HashedSame
<1>6. BmhUpTo(h, 0)
  <2>1. Indices(h) = Indices(g) /\ 0 \in 0 .. h.msNumPatterns
    BY <1>2, <1>3, <1>4 DEF Indices
  <2>2. \A k : k \notin 0 .. 0 - 1
    OBVIOUS
  <2>3. DOMAIN h.psBmh = Indices(h)
    BY <1>4, <2>1
  <2>4. QED BY <2>1, <2>2, <2>3 DEF BmhUpTo
<1>7. QED BY <1>1, <1>2, <1>3, <1>4, <1>5, <1>6 DEF PrepInv, PreparedCorrect

(* hbm_prepx: a byte of the pattern shifts it no farther than to its last  *)
(* place.                                                                  *)
LEMMA BcShiftSafe ==
    ASSUME NEW p \in Seq(Char)
    PROVE  /\ BcShift(p) \in [Char -> 0 .. Len(p)]
           /\ \A j \in 0 .. Len(p) - 1 : BcShift(p)[At(p, j)] <= Len(p) - 1 - j
<1> DEFINE m == Len(p)
           R(c) == {m - k : k \in {k \in 1 .. m : p[k] = c}}
           t == BcShift(p)
<1>1. m \in Nat /\ \A k \in 1 .. m : p[k] \in Char
  OBVIOUS
<1>2. t = [c \in Char |-> Smallest({m} \cup R(c))]
  BY DEF BcShift
<1>3. \A c \in Char : R(c) \subseteq Nat
  BY <1>1
<1>4. \A k \in 1 .. m : m - k \in R(p[k])
  OBVIOUS
<1> HIDE DEF m, R, t
<1>5. ASSUME NEW c \in Char
      PROVE  t[c] \in Nat /\ t[c] <= m /\ \A y \in R(c) : t[c] <= y
  <2>1. PICK A : A = R(c) /\ A \subseteq Nat
    BY <1>3
  <2>2. /\ Smallest({m} \cup A) \in Nat /\ Smallest({m} \cup A) <= m
        /\ \A y \in A : Smallest({m} \cup A) <= y
    BY <1>1, <2>1, RowFacts
  <2>3. t[c] = Smallest({m} \cup A)
    BY <1>2, <2>1
  <2>4. QED BY <2>1, <2>2, <2>3
<1>6. t \in [Char -> 0 .. m]
  <2>1. \A c \in Char : t[c] \in 0 .. m
    BY <1>1, <1>5
  <2>2. t = [c \in Char |-> t[c]]
    BY <1>2
  <2>3. QED BY <2>1, <2>2
<1>7. ASSUME NEW j \in 0 .. m - 1 PROVE t[At(p, j)] <= m - 1 - j
  <2>1. j + 1 \in 1 .. m /\ m - (j + 1) = m - 1 - j /\ At(p, j) = p[j + 1]
    BY <1>1 DEF At
  <2>2. m - (j + 1) \in R(p[j + 1]) /\ p[j + 1] \in Char
    BY <1>1, <1>4, <2>1
  <2>3. t[p[j + 1]] <= m - (j + 1)
    BY <1>5, <2>2
  <2>4. QED BY <2>1, <2>3
<1>8. QED BY <1>6, <1>7 DEF m, t

LEMMA BmhPhase ==
    ASSUME PrepInv, pc = "bmh"
    PROVE  ps.msMethod = "MTH_BM" /\ BmhUpTo(ps, i)
  BY DEF PrepInv

LEMMA PrepBmh ==
    ASSUME PrepInv, hbm_prep
    PROVE  PrepInv'
<1>1. /\ pc = "bmh" /\ pc' = "bmh" /\ i < ps.msNumPatterns /\ i' = i + 1
      /\ file' = file /\ msLargeShifts' = msLargeShifts
      /\ ps' = [ps EXCEPT !.psBmh[i] = BcShift(ps.msPatArray[i].psPat)]
  BY DEF hbm_prep
<1>2. /\ file \in Files /\ msLargeShifts \in {0, 1} /\ IndicesFit /\ DOMAIN ps = Fields
      /\ ps.msNumPatterns = Len(file) /\ ps.msNumPatterns \in Nat
      /\ ArrayCorrect(file, ps) /\ HashedUpTo(ps, ps.msNumPatterns)
  BY <1>1, Phases
<1>3. ps.msMethod = "MTH_BM" /\ BmhUpTo(ps, i)
  BY <1>1, BmhPhase
<1>4. i \in Indices(ps) /\ i \in Nat /\ i + 1 \in 0 .. ps.msNumPatterns
  <2>1. i \in 0 .. ps.msNumPatterns
    BY <1>3 DEF BmhUpTo
  <2>2. QED BY <1>1, <1>2, <2>1 DEF Indices
<1>5. PICK g, h, p, n : g = ps /\ h = ps' /\ p = ps.msPatArray[i].psPat /\ n = i
  OBVIOUS
<1>6. /\ DOMAIN h = Fields
      /\ h.msNumPatterns = g.msNumPatterns /\ h.msPatArray = g.msPatArray
      /\ h.msNumArray = g.msNumArray /\ h.msHash = g.msHash /\ h.msHash1 = g.msHash1
      /\ h.msMethod = "MTH_BM" /\ h.psBmh = [g.psBmh EXCEPT ![n] = BcShift(p)]
  BY <1>1, <1>2, <1>3, <1>5 DEF Fields
<1>7. ArrayCorrect(file, h) /\ HashedUpTo(h, h.msNumPatterns)
  BY <1>2, <1>5, <1>6, ArraySame, HashedSame
<1>8. Indices(h) = Indices(g) /\ (\A k : PatLen(h, k) = PatLen(g, k))
      /\ \A k, j : PatByte(h, k, j) = PatByte(g, k, j)
  BY <1>6 DEF Indices, PatLen, PatByte
<1>9. /\ BcShift(p) \in [Char -> 0 .. PatLen(g, n)]
      /\ \A j \in 0 .. PatLen(g, n) - 1 : BcShift(p)[PatByte(g, n, j)] <= PatLen(g, n) - 1 - j
  <2>1. p \in Seq(Char)
    BY <1>2, <1>4, <1>5, PatFacts
  <2>2. Len(p) = PatLen(g, n) /\ \A j : PatByte(g, n, j) = At(p, j)
    BY <1>5 DEF PatLen, PatByte
  <2>3. QED BY <2>1, <2>2, BcShiftSafe
<1>10. DOMAIN g.psBmh = Indices(g) /\ n \in Indices(g)
  BY <1>3, <1>4, <1>5 DEF BmhUpTo
<1>11. h.psBmh[n] = BcShift(p) /\ \A k \in 0 .. n - 1 : h.psBmh[k] = g.psBmh[k]
  <2>1. \A k \in 0 .. n - 1 : k \in Indices(g) /\ k # n
    BY <1>2, <1>4, <1>5 DEF Indices
  <2>2. QED BY <1>6, <1>10, <2>1
<1>12. \A k \in 0 .. (n + 1) - 1 : k \in 0 .. n - 1 \/ k = n
  BY <1>4, <1>5
<1>13. BmhUpTo(h, n + 1)
  <2>1. ASSUME NEW k \in 0 .. (n + 1) - 1
        PROVE  /\ h.psBmh[k] \in [Char -> 0 .. PatLen(h, k)]
               /\ \A j \in 0 .. PatLen(h, k) - 1 :
                    h.psBmh[k][PatByte(h, k, j)] <= PatLen(h, k) - 1 - j
    <3>1. CASE k \in 0 .. n - 1
      <4>1. /\ g.psBmh[k] \in [Char -> 0 .. PatLen(g, k)]
            /\ \A j \in 0 .. PatLen(g, k) - 1 :
                 g.psBmh[k][PatByte(g, k, j)] <= PatLen(g, k) - 1 - j
        BY <1>3, <1>5, <3>1 DEF BmhUpTo
      <4>2. h.psBmh[k] = g.psBmh[k]
        BY <1>11, <3>1
      <4>3. QED BY <1>8, <4>1, <4>2
    <3>2. CASE k = n
      BY <1>8, <1>9, <1>11, <3>2
    <3>3. QED BY <1>12, <3>1, <3>2
  <2>2. DOMAIN h.psBmh = Indices(h)
    BY <1>6, <1>8, <1>10
  <2>3. n + 1 \in 0 .. h.msNumPatterns
    BY <1>4, <1>5, <1>6
  <2>4. QED BY <2>1, <2>2, <2>3 DEF BmhUpTo
<1>14. QED BY <1>1, <1>2, <1>5, <1>6, <1>7, <1>13 DEF PrepInv, PreparedCorrect

LEMMA PrepBoyerMooreReady ==
    ASSUME PrepInv, BoyerMooreReady
    PROVE  PrepInv'
<1>1. /\ pc = "bmh" /\ pc' = "ready" /\ i = ps.msNumPatterns
      /\ file' = file /\ msLargeShifts' = msLargeShifts /\ ps' = ps
  BY DEF BoyerMooreReady
<1>2. /\ file \in Files /\ msLargeShifts \in {0, 1} /\ IndicesFit /\ DOMAIN ps = Fields
      /\ ps.msNumPatterns = Len(file) /\ ps.msNumPatterns \in Nat
      /\ ArrayCorrect(file, ps) /\ HashedUpTo(ps, ps.msNumPatterns)
  BY <1>1, Phases
<1>3. ps.msMethod = "MTH_BM" /\ BmhUpTo(ps, ps.msNumPatterns)
  BY <1>1, BmhPhase
<1>4. 0 .. ps.msNumPatterns - 1 = Indices(ps)
  BY DEF Indices
<1>5. BmhSafe(ps)
  BY <1>3, <1>4 DEF BmhUpTo, BmhSafe
<1>6. GroupCorrect(ps)
  BY <1>2, <1>3, <1>5, GroupsReady DEF GroupCorrect
<1>7. PatternsKept /\ ShiftsLargest
  BY <1>2, <1>3 DEF ArrayCorrect, ArrayHolds, PatternsKept, ShiftsLargest
<1>8. PreparedCorrect'
  BY <1>1, <1>6, <1>7 DEF PreparedCorrect, PatternsKept, ShiftsLargest
<1>9. QED BY <1>1, <1>2, <1>8 DEF PrepInv

-----------------------------------------------------------------------------
LEMMA PrepStep == PrepInv /\ [Next]_vars => PrepInv'
<1> SUFFICES ASSUME PrepInv, [Next]_vars PROVE PrepInv'
  OBVIOUS
<1>1. CASE mwmAddPatternEx
  BY <1>1, PrepAdd
<1>2. CASE PrepPatterns
  BY <1>2, PrepSort
<1>3. CASE HashPrefixGroup
  BY <1>3, PrepPrefixGroup
<1>4. CASE HashOneByteGroup
  BY <1>4, PrepByteGroup
<1>5. CASE ChooseWuManber
  BY <1>5, PrepChooseWuManber
<1>6. CASE BadCharRow
  BY <1>6, PrepBadCharRow
<1>7. CASE BeginBadWord
  BY <1>7, PrepBeginBadWord
<1>8. CASE BadWordRow
  BY <1>8, PrepBadWordRow
<1>9. CASE SelectSearch
  BY <1>9, PrepSelectSearch
<1>10. CASE ChooseBoyerMoore
  BY <1>10, PrepChooseBoyerMoore
<1>11. CASE hbm_prep
  BY <1>11, PrepBmh
<1>12. CASE BoyerMooreReady
  BY <1>12, PrepBoyerMooreReady
<1>13. CASE UNCHANGED vars
  BY <1>13 DEF vars, PrepInv, ListInv, WantsBadWord, PreparedCorrect, PatternsKept, ShiftsLargest
<1>14. QED BY <1>1, <1>2, <1>3, <1>4, <1>5, <1>6, <1>7, <1>8, <1>9, <1>10, <1>11, <1>12, <1>13
       DEF Next, Ready

(* When mwmPrepPatterns is done, the group is what the searches assume:    *)
(* every hash entry leads to exactly the patterns with its bytes, no shift *)
(* is too long, none in msShift shorter than needed; no pattern is lost.   *)
(* This holds for every file whose indices fit into a hash entry.          *)
THEOREM PreparedGroup == IndicesFit /\ Spec => []PreparedCorrect
<1>1. IndicesFit /\ Init => PrepInv
  BY PrepInit
<1>2. PrepInv /\ [Next]_vars => PrepInv'
  BY PrepStep
<1>3. PrepInv => PreparedCorrect
  BY DEF PrepInv
<1>4. QED BY <1>1, <1>2, <1>3, PTL DEF Spec

=============================================================================
