-------------------------- MODULE AcFilter_proofs --------------------------
(***************************************************************************)
(* Proof about AcFilter, for every alphabet, every pair of automata, every *)
(* text and every number of runs: where the flags are written.             *)
(***************************************************************************)
EXTENDS AcFilter, SubPattern_proofs, FiniteSetTheorems

LEMMA TextFacts ==
    ASSUME NEW w \in Texts
    PROVE  Len(w) \in Nat /\ \A i \in 0 .. Len(w) - 1 : At(w, i) \in Char
<1>1. w \in Seq(Char)
  BY TextsAssumption
<1>2. QED BY <1>1 DEF At

LEMMA AutomatonFacts ==
    ASSUME NEW a \in Automata
    PROVE  /\ a.acsm.acsmNextState \in [States(a.acsm) -> [Char -> States(a.acsm)]]
           /\ a.acsm.label \in [States(a.acsm) -> Seq(Char)]
           /\ a.acsm.acsmMatchList \in [States(a.acsm) -> Seq(DOMAIN a.acsm.plist)]
           /\ 0 \in States(a.acsm)
           /\ \A s \in States(a.acsm) :
                ListsSuffixes(a.acsm.acsmMatchList[s], a.acsm.plist, a.acsm.label[s])
  BY AutomataAssumption DEF AutomatonTyped, AutomatonCorrect, States

(* What an entry of the first automaton stands for.                        *)
LEMMA EntryFacts ==
    ASSUME NEW a \in Automata, NEW e \in DOMAIN a.acsm.plist
    PROVE  /\ a.acsm.plist[e].iid \in DOMAIN a.acsm.patterns
           /\ a.acsm.plist[e].flag \in 0 .. 1
           /\ a.acsm.plist[e].origin = a.acsm.patterns[a.acsm.plist[e].iid]
           /\ a.acsm.plist[e].origin \in Seq(Char) /\ Len(a.acsm.plist[e].origin) >= 2
           /\ a.acsm.plist[e].patrn = Half(a.acsm.plist[e].origin, a.acsm.plist[e].flag)
<1> DEFINE p == a.acsm.plist[e]
           q == a.acsm.patterns
<1>1. /\ p.iid \in DOMAIN q /\ Len(q[p.iid]) >= 2 /\ p.flag \in {0, 1}
      /\ p = SubPatternOf(q[p.iid], p.iid, p.flag)
  BY AutomataAssumption DEF HalvesOf
<1>2. q \in Seq(Seq(Char) \ {<< >>})
  BY AutomataAssumption
<1>3. q[p.iid] \in Seq(Char)
  BY <1>1, <1>2
<1> HIDE DEF p, q
<1>4. p.origin = q[p.iid] /\ p.patrn = Half(q[p.iid], p.flag)
  BY <1>1 DEF SubPatternOf
<1>5. QED BY <1>1, <1>3, <1>4 DEF p, q

(* A pattern in the list of a state is at most one byte longer than twice  *)
(* what the state spells.                                                  *)
LEMMA EntryLength ==
    ASSUME NEW a \in Automata, NEW s \in States(a.acsm),
           NEW j \in DOMAIN a.acsm.acsmMatchList[s],
           NEW q, q = a.acsm.plist[a.acsm.acsmMatchList[s][j]].origin
    PROVE  Len(q) \in Nat /\ Len(q) <= 2 * Len(a.acsm.label[s]) + 1
<1>1. PICK w : w = a.acsm.acsmMatchList[s]
  OBVIOUS
<1>2. w \in Seq(DOMAIN a.acsm.plist) /\ j \in 1 .. Len(w)
  <2>1. w \in Seq(DOMAIN a.acsm.plist)
    BY <1>1, AutomatonFacts
  <2>2. QED BY <1>1, <2>1
<1>3. PICK e \in DOMAIN a.acsm.plist : e = w[j]
  BY <1>2
<1>4. PICK p : p = a.acsm.plist[e]
  OBVIOUS
<1>5. q = p.origin /\ q \in Seq(Char) /\ p.flag \in {0, 1} /\ p.patrn = Half(q, p.flag)
  <2>1. q = p.origin
    BY <1>1, <1>3, <1>4
  <2>2. /\ p.origin \in Seq(Char) /\ p.flag \in {0, 1}
        /\ p.patrn = Half(p.origin, p.flag)
    BY <1>4, EntryFacts
  <2>3. QED BY <2>1, <2>2
<1>6. PICK m \in Nat : m = Len(q)
  BY <1>5
<1>7. PICK f \in 0 .. 1 : f = p.flag
  BY <1>5
<1>8. HalfLength(m, f) \in Nat /\ m <= 2 * HalfLength(m, f) + 1
  BY DEF HalfLength
<1>9. Len(p.patrn) = HalfLength(m, f)
  BY <1>5, <1>6, <1>7, <1>8 DEF Half
<1>10. EndsWith(a.acsm.label[s], p.patrn)
  <2>1. ListsSuffixes(w, a.acsm.plist, a.acsm.label[s])
    BY <1>1, AutomatonFacts
  <2>2. \E i \in 1 .. Len(w) : w[i] = e
    BY <1>2, <1>3
  <2>3. QED BY <1>3, <1>4, <2>1, <2>2 DEF ListsSuffixes
<1>11. Len(p.patrn) <= Len(a.acsm.label[s]) /\ Len(a.acsm.label[s]) \in Nat
  <2>1. a.acsm.label[s] \in Seq(Char)
    BY AutomatonFacts
  <2>2. QED BY <1>10, <2>1 DEF EndsWith
<1>12. PICK h \in Nat, l \in Nat : h = HalfLength(m, f) /\ l = Len(a.acsm.label[s])
  BY <1>8, <1>11
<1>13. m <= 2 * h + 1 /\ h <= l
  BY <1>8, <1>9, <1>11, <1>12
<1>14. m <= 2 * l + 1
  BY <1>13
<1>15. QED BY <1>6, <1>12, <1>14

-----------------------------------------------------------------------------
NearInv ==
    /\ ac \in Automata
    /\ text \in Texts
    /\ state \in States(ac.acsm) \/ pc # "oddEven"
    /\ T \in Nat /\ T <= Tend + 1
    /\ StaysNearArray

(* The number acsmCaleMaxPatternLength returns exists: the lengths of a    *)
(* list are bounded.                                                       *)
LEMMA MaxLengthType ==
    ASSUME NearInv, pc = "oddEven"
    PROVE  maxLengthGroup(state) \in Nat
<1> DEFINE L == {Len(ac.acsm.plist[ac.acsm.acsmMatchList[state][j]].origin) :
                   j \in DOMAIN ac.acsm.acsmMatchList[state]}
<1>1. ac \in Automata /\ state \in States(ac.acsm)
  BY DEF NearInv
<1>2. PICK n \in Nat : n = 2 * Len(ac.acsm.label[state]) + 1
  <2>1. ac.acsm.label[state] \in Seq(Char)
    BY <1>1, AutomatonFacts
  <2>2. QED BY <2>1
<1>3. \A j \in DOMAIN ac.acsm.acsmMatchList[state] :
         /\ Len(ac.acsm.plist[ac.acsm.acsmMatchList[state][j]].origin) \in Nat
         /\ Len(ac.acsm.plist[ac.acsm.acsmMatchList[state][j]].origin) <= n
  BY <1>1, <1>2, EntryLength
<1>4. \A k \in {0} \cup L : k \in Nat /\ k <= n
  <2>1. ASSUME NEW k \in L PROVE k \in Nat /\ k <= n
    <3>1. PICK j \in DOMAIN ac.acsm.acsmMatchList[state] :
            k = Len(ac.acsm.plist[ac.acsm.acsmMatchList[state][j]].origin)
      OBVIOUS
    <3>2. QED BY <1>3, <3>1
  <2>2. 0 \in Nat /\ 0 <= n
    BY <1>2
  <2> HIDE DEF L
  <2>3. QED BY <2>1, <2>2
<1>5. maxLengthGroup(state) = Max({0} \cup L)
  BY DEF maxLengthGroup
<1> HIDE DEF L
<1>6. \E x \in {0} \cup L : \A y \in {0} \cup L : y <= x
  <2>1. {0} \cup L \subseteq Nat /\ {0} \cup L # {} /\ \A x \in {0} \cup L : x <= n
    BY <1>4
  <2>2. QED BY <2>1, LargestNumber
<1>7. \E x \in {0} \cup L : \A y \in {0} \cup L : x >= y
  BY <1>4, <1>6
<1>8. Max({0} \cup L) \in {0} \cup L
  BY <1>7 DEF Max
<1>9. QED BY <1>4, <1>5, <1>8

(* One call of the callback. *)
LEMMA MarkStays ==
    ASSUME NearInv, Mark, text' = text
    PROVE  StaysNearArray'
<1>1. pc = "oddEven" /\ filterFlagGroup' = filterFlagGroup \cup Marked
  BY DEF Mark
<1>2. T \in Nat /\ Tend \in Nat /\ T <= Tend + 1
  BY TextFacts DEF NearInv, Tend
<1>3. maxLengthGroup(state) \in Nat
  BY <1>1, MaxLengthType
<1>4. Marked \subseteq 0 .. Tend + 2
  BY <1>2, <1>3 DEF Marked
<1>5. Tend' = Tend
  BY DEF Tend
<1>6. QED BY <1>1, <1>4, <1>5 DEF NearInv, StaysNearArray

LEMMA NearInit == Init => NearInv
<1> SUFFICES ASSUME Init PROVE NearInv
  OBVIOUS
<1>1. ac \in Automata /\ text \in Texts /\ state = 0 /\ T = 0 /\ filterFlagGroup = {}
  BY DEF Init
<1>2. Tend \in Nat /\ 0 \in States(ac.acsm)
  BY <1>1, TextFacts, AutomatonFacts DEF Tend
<1>3. QED BY <1>1, <1>2 DEF NearInv, StaysNearArray

LEMMA NearStep == NearInv /\ [Next]_vars => NearInv'
<1> SUFFICES ASSUME NearInv, [Next]_vars PROVE NearInv'
  OBVIOUS
<1>0. /\ ac \in Automata /\ text \in Texts /\ Tend \in Nat /\ 0 \in States(ac.acsm)
      /\ T \in Nat /\ T <= Tend + 1 /\ StaysNearArray
  BY TextFacts, AutomatonFacts DEF NearInv, Tend
<1>1. CASE acsmSearchWithOddEven
  <2>1. /\ T < Tend /\ T' = T + 2 /\ pc = "oddEven" /\ UNCHANGED <<ac, text, pc>>
        /\ state' = ac.acsm.acsmNextState[state][At(text, T)]
    BY <1>1 DEF acsmSearchWithOddEven, Mark
  <2>2. At(text, T) \in Char
    BY <1>0, <2>1, TextFacts DEF Tend
  <2>3. state' \in States(ac.acsm)
    <3>1. state \in States(ac.acsm)
      BY <2>1 DEF NearInv
    <3>2. QED BY <1>0, <2>1, <2>2, <3>1, AutomatonFacts
  <2>4. StaysNearArray'
    BY <1>1, <2>1, MarkStays DEF acsmSearchWithOddEven
  <2>5. Tend' = Tend /\ States(ac.acsm)' = States(ac.acsm)
    BY <2>1 DEF Tend, States
  <2>6. QED BY <1>0, <2>1, <2>3, <2>4, <2>5 DEF NearInv
<1>2. CASE LeaveOddEven
  <2>1. T' = 0 /\ pc' = "filter" /\ UNCHANGED <<ac, text>>
    BY <1>2 DEF LeaveOddEven
  <2>2. StaysNearArray'
    BY <1>2, <2>1, MarkStays DEF LeaveOddEven
  <2>3. Tend' = Tend
    BY <2>1 DEF Tend
  <2>4. QED BY <1>0, <2>1, <2>2, <2>3 DEF NearInv
<1>3. CASE Skip \/ Visit
  <2>1. /\ T < Tend /\ T' = T + 1 /\ pc = "filter" /\ pc' = pc
        /\ UNCHANGED <<ac, text, filterFlagGroup>>
    BY <1>3 DEF Skip, Visit
  <2>2. Tend' = Tend
    BY <2>1 DEF Tend
  <2>3. QED BY <1>0, <2>1, <2>2 DEF NearInv, StaysNearArray
<1>4. CASE EndOfRun
  <2>1. T' = 0 /\ state' = 0 /\ UNCHANGED <<ac, text, filterFlagGroup>>
    BY <1>4 DEF EndOfRun
  <2>2. Tend' = Tend /\ States(ac.acsm)' = States(ac.acsm)
    BY <2>1 DEF Tend, States
  <2>3. QED BY <1>0, <2>1, <2>2 DEF NearInv, StaysNearArray
<1>5. CASE UNCHANGED vars
  BY <1>5 DEF vars, NearInv, StaysNearArray, Tend, States
<1>6. QED BY <1>1, <1>2, <1>3, <1>4, <1>5 DEF Next, Done

(* fullMatchOddEvenAcFilter writes no flag before the array and at most    *)
(* three entries behind it, in every run, however long the patterns.       *)
THEOREM FlagsStayNearArray == Spec => []StaysNearArray
<1>1. NearInv => StaysNearArray
  BY DEF NearInv
<1>2. QED BY <1>1, NearInit, NearStep, PTL DEF Spec

-----------------------------------------------------------------------------
(* The text that is left when the bytes without a flag are taken out: F    *)
(* stands for filterFlagGroup, Rank(F, t) for VisitedBefore(t).            *)

Rank(F, t) == Cardinality({i \in F : i < t})

Kept(F, w) ==
    [k \in 1 .. Rank(F, Len(w)) |-> At(w, CHOOSE i \in F : Rank(F, i) = k - 1)]

LEMMA KeptIs == VisitedText = Kept(filterFlagGroup, text)
  BY DEF VisitedText, Kept, VisitedBefore, Rank, Tend

LEMMA RankType ==
    ASSUME NEW F, F \subseteq Nat, NEW t \in Nat
    PROVE  IsFiniteSet({i \in F : i < t}) /\ Rank(F, t) \in Nat
<1>1. IsFiniteSet(0 .. t - 1)
  BY FS_Interval
<1>2. {i \in F : i < t} \subseteq 0 .. t - 1
  <2>1. ASSUME NEW i \in F, i < t PROVE i \in 0 .. t - 1
    <3>1. i \in Nat
      OBVIOUS
    <3>2. QED BY <2>1, <3>1
  <2>2. QED BY <2>1
<1>3. IsFiniteSet({i \in F : i < t})
  BY <1>1, <1>2, FS_Subset
<1>4. QED BY <1>3, FS_CardinalityType DEF Rank

LEMMA RankStart ==
    ASSUME NEW F, F \subseteq Nat
    PROVE  Rank(F, 0) = 0
<1>1. ASSUME NEW i \in F PROVE ~(i < 0)
  <2>1. i \in Nat
    OBVIOUS
  <2>2. QED BY <2>1
<1>2. {i \in F : i < 0} = {}
  BY <1>1
<1>3. QED BY <1>2, FS_EmptySet DEF Rank

LEMMA RankNext ==
    ASSUME NEW F, F \subseteq Nat, NEW t \in Nat
    PROVE  /\ t \in F => Rank(F, t + 1) = Rank(F, t) + 1
           /\ t \notin F => Rank(F, t + 1) = Rank(F, t)
<1> DEFINE A == {i \in F : i < t}
<1>1. IsFiniteSet(A)
  BY RankType
<1>2. CASE t \in F
  <2>1. {i \in F : i < t + 1} = A \cup {t} /\ t \notin A
    <3>1. ASSUME NEW i \in F PROVE i < t + 1 <=> i < t \/ i = t
      <4>1. i \in Nat
        OBVIOUS
      <4>2. QED BY <4>1
    <3>2. ~(t < t)
      OBVIOUS
    <3>3. QED BY <1>2, <3>1, <3>2
  <2>2. Cardinality(A \cup {t}) = Cardinality(A) + 1
    BY <1>1, <2>1, FS_AddElement
  <2>3. QED BY <1>2, <2>1, <2>2 DEF Rank
<1>3. CASE t \notin F
  <2>1. {i \in F : i < t + 1} = A
    <3>1. \A i \in F : i < t + 1 <=> i < t
      <4>1. ASSUME NEW i \in F PROVE i < t + 1 <=> i < t
        <5>1. i \in Nat /\ i # t
          BY <1>3
        <5>2. QED BY <5>1
      <4>2. QED BY <4>1
    <3>2. QED BY <3>1
  <2>2. QED BY <1>3, <2>1 DEF Rank
<1>4. QED BY <1>2, <1>3

LEMMA RankMonotone ==
    ASSUME NEW F, F \subseteq Nat, NEW t \in Nat, NEW u \in Nat, t <= u
    PROVE  Rank(F, t) <= Rank(F, u)
<1>1. IsFiniteSet({i \in F : i < u})
  BY RankType
<1>2. {i \in F : i < t} \subseteq {i \in F : i < u}
  <2>1. ASSUME NEW i \in F, i < t PROVE i < u
    <3>1. i \in Nat
      OBVIOUS
    <3>2. QED BY <2>1, <3>1
  <2>2. QED BY <2>1
<1>3. QED BY <1>1, <1>2, FS_Subset DEF Rank

(* Different bytes are left at different places. *)
LEMMA RankInjective ==
    ASSUME NEW F, F \subseteq Nat, NEW i \in F, NEW j \in F, Rank(F, i) = Rank(F, j)
    PROVE  i = j
<1>1. ASSUME NEW u \in F, NEW v \in F, u < v PROVE Rank(F, u) # Rank(F, v)
  <2>1. u \in Nat /\ v \in Nat /\ u + 1 <= v /\ u + 1 \in Nat
    BY <1>1
  <2>2. Rank(F, u + 1) = Rank(F, u) + 1
    BY <2>1, RankNext
  <2>3. Rank(F, u + 1) <= Rank(F, v)
    BY <2>1, RankMonotone
  <2>4. Rank(F, u) \in Nat /\ Rank(F, v) \in Nat
    BY <2>1, RankType
  <2>5. QED BY <2>2, <2>3, <2>4
<1>2. i \in Nat /\ j \in Nat
  OBVIOUS
<1>3. i < j \/ j < i \/ i = j
  BY <1>2
<1>4. QED BY <1>1, <1>3

(* Every place of the remaining text stands for a byte of the text. *)
LEMMA RankReached ==
    ASSUME NEW F, F \subseteq Nat, NEW t \in Nat, NEW k \in Nat, k < Rank(F, t)
    PROVE  \E i \in F : i < t /\ Rank(F, i) = k
<1> DEFINE S == {u \in Nat : k < Rank(F, u)}
<1>1. S \subseteq Nat /\ S # {}
  OBVIOUS
<1>2. PICK u \in S : \A v \in S : u <= v
  <2> HIDE DEF S
  <2>1. QED BY <1>1, SmallestNumber
<1>3. u \in Nat /\ k < Rank(F, u) /\ u <= t
  BY <1>2
<1>4. u # 0
  <2>1. ~(k < 0)
    OBVIOUS
  <2>2. Rank(F, 0) = 0
    BY RankStart
  <2>3. QED BY <1>3, <2>1, <2>2
<1>5. PICK i \in Nat : u = i + 1
  BY <1>3, <1>4
<1>6. ~(k < Rank(F, i))
  BY <1>2, <1>5
<1>7. Rank(F, i) \in Nat
  BY RankType
<1>8. i \in F
  BY <1>3, <1>5, <1>6, RankNext
<1>9. Rank(F, i + 1) = Rank(F, i) + 1
  BY <1>8, RankNext
<1>10. Rank(F, i) = k /\ i < t
  BY <1>3, <1>5, <1>6, <1>7, <1>9
<1>11. QED BY <1>8, <1>10

(* Bytes marked without a gap stay together. *)
LEMMA RankOfWindow ==
    ASSUME NEW F, F \subseteq Nat, NEW o \in Nat, NEW m \in Nat,
           \A j \in 0 .. m - 1 : o + j \in F
    PROVE  \A j \in 0 .. m : Rank(F, o + j) = Rank(F, o) + j
<1> DEFINE S == {j \in 0 .. m : Rank(F, o + j) # Rank(F, o) + j}
<1>1. SUFFICES ASSUME S # {} PROVE FALSE
  OBVIOUS
<1>2. S \subseteq Nat
  OBVIOUS
<1>3. PICK j \in S : \A k \in S : j <= k
  <2> HIDE DEF S
  <2>1. QED BY <1>1, <1>2, SmallestNumber
<1>4. j \in 0 .. m /\ Rank(F, o + j) # Rank(F, o) + j
  BY <1>3
<1>5. Rank(F, o) \in Nat
  BY RankType
<1>6. j # 0
  <2>1. o + 0 = o
    OBVIOUS
  <2>2. QED BY <1>4, <1>5, <2>1
<1>7. PICK k \in 0 .. m - 1 : j = k + 1
  BY <1>4, <1>6
<1>8. Rank(F, o + k) = Rank(F, o) + k
  <2>1. k \notin S
    BY <1>3, <1>7
  <2>2. QED BY <2>1
<1>9. Rank(F, (o + k) + 1) = Rank(F, o + k) + 1
  <2>1. o + k \in Nat /\ o + k \in F
    OBVIOUS
  <2>2. QED BY <2>1, RankNext
<1>10. o + j = (o + k) + 1
  BY <1>7
<1>11. QED BY <1>4, <1>5, <1>7, <1>8, <1>9, <1>10

LEMMA KeptType ==
    ASSUME NEW C, NEW w \in Seq(C), NEW F, F \subseteq Nat
    PROVE  /\ Kept(F, w) \in Seq(C)
           /\ Len(Kept(F, w)) = Rank(F, Len(w))
           /\ Rank(F, Len(w)) \in Nat
<1> DEFINE n == Rank(F, Len(w))
<1>1. Len(w) \in Nat
  OBVIOUS
<1>2. n \in Nat
  BY <1>1, RankType
<1>3. ASSUME NEW k \in 1 .. n
      PROVE  At(w, CHOOSE i \in F : Rank(F, i) = k - 1) \in C
  <2>1. k - 1 \in Nat /\ k - 1 < n
    BY <1>2
  <2>2. PICK i \in F : i < Len(w) /\ Rank(F, i) = k - 1
    BY <1>1, <2>1, RankReached
  <2>3. (CHOOSE h \in F : Rank(F, h) = k - 1) = i
    <3>1. \A h \in F : Rank(F, h) = k - 1 => h = i
      BY <2>2, RankInjective
    <3>2. QED BY <2>2, <3>1
  <2>4. At(w, i) \in C
    <3>1. i \in Nat
      OBVIOUS
    <3>2. i + 1 \in 1 .. Len(w)
      BY <1>1, <2>2, <3>1
    <3>3. QED BY <3>2 DEF At
  <2>5. QED BY <2>3, <2>4
<1>4. Kept(F, w) \in [1 .. n -> C]
  BY <1>3 DEF Kept
<1> HIDE DEF n
<1>5. Kept(F, w) \in Seq(C) /\ Len(Kept(F, w)) = n
  BY <1>2, <1>4
<1>6. QED BY <1>2, <1>5 DEF n

(* A marked byte is found again where it has been left. *)
LEMMA KeptAt ==
    ASSUME NEW w, Len(w) \in Nat, NEW F, F \subseteq Nat, NEW i \in F, i < Len(w)
    PROVE  /\ Rank(F, i) \in Nat /\ Rank(F, i) < Rank(F, Len(w))
           /\ At(Kept(F, w), Rank(F, i)) = At(w, i)
<1>1. i \in Nat /\ i + 1 \in Nat /\ i + 1 <= Len(w)
  OBVIOUS
<1>2. PICK r \in Nat, n \in Nat : r = Rank(F, i) /\ n = Rank(F, Len(w))
  BY <1>1, RankType
<1>3. Rank(F, i + 1) = r + 1 /\ Rank(F, i + 1) <= n
  BY <1>1, <1>2, RankNext, RankMonotone
<1>4. r + 1 \in 1 .. n
  BY <1>3
<1>5. (CHOOSE h \in F : Rank(F, h) = r) = i
  <2>1. \A h \in F : Rank(F, h) = r => h = i
    BY <1>2, RankInjective
  <2>2. QED BY <1>2, <2>1
<1>6. Kept(F, w)[r + 1] = At(w, CHOOSE h \in F : Rank(F, h) = (r + 1) - 1)
  BY <1>2, <1>4 DEF Kept
<1>7. (r + 1) - 1 = r
  OBVIOUS
<1>8. Kept(F, w)[r + 1] = At(w, i)
  BY <1>5, <1>6, <1>7
<1>9. At(Kept(F, w), r) = At(w, i)
  BY <1>8 DEF At
<1>10. QED BY <1>2, <1>4, <1>9

-----------------------------------------------------------------------------
(* One automaton, b, that meets module Automaton, on a text t.             *)

LEMMA TypedFacts ==
    ASSUME NEW b, AutomatonTyped(b), AutomatonCorrect(b)
    PROVE  /\ b.label \in [States(b) -> Seq(Char)]
           /\ DOMAIN b.label = States(b)
           /\ \A q \in States(b) : Len(b.label[q]) \in Nat
           /\ 0 \in States(b) /\ b.label[0] = << >>
           /\ b.acsmMatchList \in [States(b) -> Seq(DOMAIN b.plist)]
           /\ \A s \in States(b) : /\ Len(b.acsmMatchList[s]) \in Nat
                                   /\ DOMAIN b.acsmMatchList[s] = 1 .. Len(b.acsmMatchList[s])
           /\ \A s \in States(b), c \in Char : b.acsmNextState[s][c] \in States(b)
<1>1. /\ b.acsmNumStates \in Nat \ {0}
      /\ b.acsmNextState \in [States(b) -> [Char -> States(b)]]
      /\ b.label \in [States(b) -> Seq(Char)]
      /\ b.acsmMatchList \in [States(b) -> Seq(DOMAIN b.plist)]
  BY DEF AutomatonTyped
<1>2. 0 \in States(b)
  BY <1>1 DEF States
<1>3. b.label[0] = << >>
  BY DEF AutomatonCorrect, IsTrie
<1>4. \A q \in States(b) : Len(b.label[q]) \in Nat
  BY <1>1
<1>5. \A s \in States(b) : /\ Len(b.acsmMatchList[s]) \in Nat
                           /\ DOMAIN b.acsmMatchList[s] = 1 .. Len(b.acsmMatchList[s])
  BY <1>1
<1>6. \A s \in States(b), c \in Char : b.acsmNextState[s][c] \in States(b)
  BY <1>1
<1>7. QED BY <1>1, <1>2, <1>3, <1>4, <1>5, <1>6

LEMMA StepReads ==
    ASSUME NEW b, AutomatonTyped(b), AutomatonCorrect(b),
           NEW t, NEW x \in Nat, At(t, x) \in Char,
           NEW s \in States(b), Reads(b.label, t, x, s)
    PROVE  /\ b.acsmNextState[s][At(t, x)] \in States(b)
           /\ Reads(b.label, t, x + 1, b.acsmNextState[s][At(t, x)])
<1> DEFINE n == b.acsmNextState[s][At(t, x)]
<1>1. b.label \in [States(b) -> Seq(Char)] /\ n \in States(b)
  BY TypedFacts
<1>2. IsLongestSuffix(b.label, n, Append(b.label[s], At(t, x)))
  BY DEF AutomatonCorrect
<1>3. \A q \in States(b) :
        b.label[q] # << >> => \E u \in States(b) : IsFrontOf(b.label[u], b.label[q])
  BY <1>1 DEF AutomatonCorrect, IsTrie
<1> HIDE DEF n
<1>4. Reads(b.label, t, x + 1, n)
  BY <1>1, <1>2, <1>3, ReadsNext
<1>5. QED BY <1>1, <1>4 DEF n

(* The match list of the state names the entries the text read ends with,  *)
(* each once.                                                              *)
LEMMA ListReads ==
    ASSUME NEW b, AutomatonTyped(b), AutomatonCorrect(b),
           NEW t, NEW x \in Nat, NEW s \in States(b), Reads(b.label, t, x, s)
    PROVE  /\ \A e \in DOMAIN b.plist :
                (\E j \in DOMAIN b.acsmMatchList[s] : b.acsmMatchList[s][j] = e)
                  <=> PrefixEndsWith(t, x, b.plist[e].patrn)
           /\ \A j \in DOMAIN b.acsmMatchList[s] : b.acsmMatchList[s][j] \in DOMAIN b.plist
           /\ \A i, j \in DOMAIN b.acsmMatchList[s] :
                b.acsmMatchList[s][i] = b.acsmMatchList[s][j] => i = j
<1>1. ListsSuffixes(b.acsmMatchList[s], b.plist, b.label[s])
  BY DEF AutomatonCorrect
<1>2. /\ DOMAIN b.acsmMatchList[s] = 1 .. Len(b.acsmMatchList[s])
      /\ b.acsmMatchList[s] \in Seq(DOMAIN b.plist)
      /\ DOMAIN b.label = States(b) /\ \A q \in States(b) : Len(b.label[q]) \in Nat
  BY TypedFacts
<1>3. ASSUME NEW e \in DOMAIN b.plist
      PROVE  (\E j \in DOMAIN b.acsmMatchList[s] : b.acsmMatchList[s][j] = e)
               <=> PrefixEndsWith(t, x, b.plist[e].patrn)
  <2>1. PICK r \in States(b) : b.label[r] = b.plist[e].patrn
    BY <1>2 DEF AutomatonCorrect, IsTrie
  <2>2. EndsWith(b.label[s], b.label[r]) <=> PrefixEndsWith(t, x, b.label[r])
    BY <1>2, ReadsLists
  <2>3. QED BY <1>1, <1>2, <2>1, <2>2 DEF ListsSuffixes
<1>4. QED BY <1>1, <1>2, <1>3 DEF ListsSuffixes

(* What an entry of the second automaton stands for.                       *)
LEMMA WholeFacts ==
    ASSUME NEW a \in Automata
    PROVE  /\ AutomatonTyped(a.filterOriginAC) /\ AutomatonCorrect(a.filterOriginAC)
           /\ a.acsm.patterns \in Seq(Seq(Char) \ {<< >>})
           /\ \A e \in DOMAIN a.filterOriginAC.plist :
                /\ a.filterOriginAC.plist[e].iid \in DOMAIN a.acsm.patterns
                /\ a.filterOriginAC.plist[e].patrn
                     = a.acsm.patterns[a.filterOriginAC.plist[e].iid]
           /\ \A id \in DOMAIN a.acsm.patterns :
                \E e \in DOMAIN a.filterOriginAC.plist : a.filterOriginAC.plist[e].iid = id
           /\ \A e1, e2 \in DOMAIN a.filterOriginAC.plist :
                a.filterOriginAC.plist[e1].iid = a.filterOriginAC.plist[e2].iid => e1 = e2
<1>1. /\ AutomatonTyped(a.filterOriginAC) /\ AutomatonCorrect(a.filterOriginAC)
      /\ a.acsm.patterns \in Seq(Seq(Char) \ {<< >>})
      /\ WholesOf(a.filterOriginAC.plist, a.acsm.patterns, 1)
  BY AutomataAssumption
<1>2. \A id \in DOMAIN a.acsm.patterns : Len(a.acsm.patterns[id]) >= 1
  <2>1. ASSUME NEW id \in DOMAIN a.acsm.patterns PROVE Len(a.acsm.patterns[id]) >= 1
    <3>1. a.acsm.patterns[id] \in Seq(Char) \ {<< >>}
      BY <1>1
    <3>2. QED BY <3>1
  <2>2. QED BY <2>1
<1>3. PICK P, q : P = a.filterOriginAC.plist /\ q = a.acsm.patterns
  OBVIOUS
<1>4. /\ \A e \in DOMAIN P : /\ P[e].iid \in DOMAIN q
                             /\ P[e] = WholePattern(q[P[e].iid], P[e].iid)
      /\ \A id \in DOMAIN q : \E e \in DOMAIN P : P[e].iid = id
      /\ \A e1, e2 \in DOMAIN P : P[e1].iid = P[e2].iid => e1 = e2
  BY <1>1, <1>2, <1>3 DEF WholesOf
<1>5. \A e \in DOMAIN P : P[e].patrn = q[P[e].iid]
  <2>1. ASSUME NEW e \in DOMAIN P PROVE P[e].patrn = q[P[e].iid]
    <3>1. PICK i, p : i = P[e].iid /\ p = q[i]
      OBVIOUS
    <3>2. P[e] = WholePattern(p, i)
      BY <1>4, <3>1
    <3>3. P[e].patrn = p
      BY <3>2 DEF WholePattern
    <3>4. QED BY <3>1, <3>3
  <2>2. QED BY <2>1
<1>6. QED BY <1>1, <1>3, <1>4, <1>5

(* The occurrences in a text v that end at y.                              *)
EndingAt(q, v, y) == {x \in Occurrences(q, 1, v) : x[2] + Len(q[x[1]]) = y}

EndingBefore(q, v, y) == {x \in Occurrences(q, 1, v) : x[2] + Len(q[x[1]]) < y}

LEMMA OccurrenceElement ==
    ASSUME NEW q \in Seq(Seq(Char) \ {<< >>}), NEW k \in {1, 2}, NEW v \in Seq(Char),
           NEW x \in Occurrences(q, k, v)
    PROVE  /\ x = <<x[1], x[2]>> /\ x[1] \in DOMAIN q /\ x[2] \in 0 .. Len(v)
           /\ OccursAt(q[x[1]], v, x[2])
           /\ q[x[1]] \in Seq(Char) /\ Len(q[x[1]]) \in Nat /\ Len(q[x[1]]) >= k
           /\ x[2] + Len(q[x[1]]) \in 0 .. Len(v)
<1>1. /\ x = <<x[1], x[2]>> /\ x[1] \in DOMAIN q /\ x[2] \in 0 .. Len(v)
      /\ OccursAt(q[x[1]], v, x[2]) /\ Len(q[x[1]]) >= k
  BY DEF Occurrences
<1>2. q[x[1]] \in Seq(Char) \ {<< >>}
  BY <1>1
<1>3. Len(q[x[1]]) \in Nat /\ Len(v) \in Nat
  BY <1>2
<1>4. x[2] + Len(q[x[1]]) <= Len(v)
  BY <1>1 DEF OccursAt
<1>5. QED BY <1>1, <1>2, <1>3, <1>4

LEMMA OccurrencesFinite ==
    ASSUME NEW q \in Seq(Seq(Char) \ {<< >>}), NEW k \in {1, 2}, NEW v \in Seq(Char)
    PROVE  IsFiniteSet(Occurrences(q, k, v))
<1>1. IsFiniteSet(DOMAIN q)
  <2>1. Len(q) \in Nat /\ DOMAIN q = 1 .. Len(q)
    OBVIOUS
  <2>2. QED BY <2>1, FS_Interval
<1>2. IsFiniteSet(0 .. Len(v))
  BY FS_Interval
<1>3. IsFiniteSet((DOMAIN q) \X (0 .. Len(v)))
  BY <1>1, <1>2, FS_Product
<1>4. Occurrences(q, k, v) \in SUBSET ((DOMAIN q) \X (0 .. Len(v)))
  BY DEF Occurrences
<1>5. QED BY <1>3, <1>4, FS_Subset

(* One visit of searchOriginAcWithFlag counts the occurrences that end at  *)
(* the byte, each once.                                                    *)
LEMMA ListCount ==
    ASSUME NEW a \in Automata, NEW v \in Seq(Char), NEW y \in 0 .. Len(v),
           NEW s \in States(a.filterOriginAC), Reads(a.filterOriginAC.label, v, y, s)
    PROVE  /\ IsFiniteSet(EndingAt(a.acsm.patterns, v, y))
           /\ Cardinality(EndingAt(a.acsm.patterns, v, y))
                = Len(a.filterOriginAC.acsmMatchList[s])
<1>1. PICK b, q, w : b = a.filterOriginAC /\ q = a.acsm.patterns /\ w = b.acsmMatchList[s]
  OBVIOUS
<1>2. AutomatonTyped(b) /\ AutomatonCorrect(b) /\ s \in States(b)
  BY <1>1, WholeFacts
<1>3. PICK n \in Nat : n = Len(w) /\ DOMAIN w = 1 .. n
  BY <1>1, <1>2, TypedFacts
<1>4. /\ \A e \in DOMAIN b.plist : (\E j \in 1 .. n : w[j] = e)
                                     <=> PrefixEndsWith(v, y, b.plist[e].patrn)
      /\ \A j \in 1 .. n : w[j] \in DOMAIN b.plist
      /\ \A i, j \in 1 .. n : w[i] = w[j] => i = j
  <2>1. y \in Nat /\ Reads(b.label, v, y, s)
    BY <1>1
  <2>2. /\ \A e \in DOMAIN b.plist :
             (\E j \in DOMAIN b.acsmMatchList[s] : b.acsmMatchList[s][j] = e)
               <=> PrefixEndsWith(v, y, b.plist[e].patrn)
        /\ \A j \in DOMAIN b.acsmMatchList[s] : b.acsmMatchList[s][j] \in DOMAIN b.plist
        /\ \A i, j \in DOMAIN b.acsmMatchList[s] :
             b.acsmMatchList[s][i] = b.acsmMatchList[s][j] => i = j
    BY <1>2, <2>1, ListReads
  <2>3. w = b.acsmMatchList[s]
    BY <1>1
  <2>4. QED BY <1>3, <2>2, <2>3
<1>5. /\ q \in Seq(Seq(Char) \ {<< >>})
      /\ \A e \in DOMAIN b.plist : /\ b.plist[e].iid \in DOMAIN q
                                   /\ b.plist[e].patrn = q[b.plist[e].iid]
      /\ \A id \in DOMAIN q : \E e \in DOMAIN b.plist : b.plist[e].iid = id
      /\ \A e1, e2 \in DOMAIN b.plist : b.plist[e1].iid = b.plist[e2].iid => e1 = e2
  BY <1>1, WholeFacts
<1>6. \A id \in DOMAIN q : q[id] \in Seq(Char) /\ Len(q[id]) \in Nat \ {0}
  <2>1. ASSUME NEW id \in DOMAIN q PROVE q[id] \in Seq(Char) /\ Len(q[id]) \in Nat \ {0}
    <3>1. q[id] \in Seq(Char) \ {<< >>}
      BY <1>5
    <3>2. QED BY <3>1
  <2>2. QED BY <2>1
<1> DEFINE id(j) == b.plist[w[j]].iid
           f == [j \in 1 .. n |-> <<id(j), y - Len(q[id(j)])>>]
           E == EndingAt(q, v, y)
<1>7. ASSUME NEW j \in 1 .. n PROVE id(j) \in DOMAIN q /\ f[j] \in E
  <2>1. w[j] \in DOMAIN b.plist /\ id(j) \in DOMAIN q /\ b.plist[w[j]].patrn = q[id(j)]
    BY <1>4, <1>5
  <2>2. PICK i : i = id(j)
    OBVIOUS
  <2>3. i \in DOMAIN q /\ PrefixEndsWith(v, y, q[i])
    BY <1>4, <2>1, <2>2
  <2>4. PICK m \in Nat : m = Len(q[i]) /\ m >= 1
    BY <1>6, <2>3
  <2>5. OccursAt(q[i], v, y - m)
    BY <1>6, <2>3, <2>4, EndsWhereItStands
  <2>6. m <= y /\ y - m \in 0 .. Len(v)
    BY <2>3, <2>4 DEF PrefixEndsWith
  <2>7. PICK z : z = <<i, y - m>>
    OBVIOUS
  <2>8. z \in Occurrences(q, 1, v) /\ z[1] = i /\ z[2] = y - m
    BY <2>3, <2>4, <2>5, <2>6, <2>7 DEF Occurrences
  <2>9. z[2] + Len(q[z[1]]) = y
    BY <2>4, <2>6, <2>8
  <2>10. z \in E
    BY <2>8, <2>9 DEF EndingAt
  <2>11. f[j] = z
    BY <2>2, <2>4, <2>7
  <2>12. QED BY <2>1, <2>10, <2>11
<1>8. ASSUME NEW i \in 1 .. n, NEW j \in 1 .. n, f[i] = f[j] PROVE i = j
  <2>1. id(i) = id(j)
    BY <1>8
  <2>2. w[i] \in DOMAIN b.plist /\ w[j] \in DOMAIN b.plist
    BY <1>4
  <2>3. w[i] = w[j]
    BY <1>5, <2>1, <2>2
  <2>4. QED BY <1>4, <2>3
<1>9. ASSUME NEW x \in E PROVE \E j \in 1 .. n : f[j] = x
  <2>1. /\ x \in Occurrences(q, 1, v) /\ x[2] + Len(q[x[1]]) = y
    BY DEF EndingAt
  <2>2. /\ x = <<x[1], x[2]>> /\ x[1] \in DOMAIN q /\ x[2] \in 0 .. Len(v)
        /\ OccursAt(q[x[1]], v, x[2]) /\ q[x[1]] \in Seq(Char) /\ Len(q[x[1]]) \in Nat
    <3>1. q \in Seq(Seq(Char) \ {<< >>}) /\ 1 \in {1, 2}
      BY <1>5
    <3>2. QED BY <2>1, <3>1, OccurrenceElement
  <2>3. x[2] = y - Len(q[x[1]])
    BY <2>1, <2>2
  <2>4. PrefixEndsWith(v, y, q[x[1]])
    BY <2>2, <2>3, EndsWhereItStands
  <2>5. PICK e \in DOMAIN b.plist : b.plist[e].iid = x[1]
    BY <1>5, <2>2
  <2>6. PrefixEndsWith(v, y, b.plist[e].patrn)
    BY <1>5, <2>4, <2>5
  <2>7. PICK j \in 1 .. n : w[j] = e
    BY <1>4, <2>6
  <2>8. f[j] = <<x[1], x[2]>>
    BY <2>3, <2>5, <2>7
  <2>9. QED BY <2>2, <2>8
<1>10. f \in Bijection(1 .. n, E)
  <2>1. f \in [1 .. n -> E]
    BY <1>7
  <2> HIDE DEF f, E
  <2>2. QED BY <1>8, <1>9, <2>1 DEF Bijection, Injection, Surjection, IsInjective
<1> HIDE DEF f, E
<1>11. ExistsBijection(1 .. n, E)
  BY <1>10 DEF ExistsBijection
<1>12. IsFiniteSet(1 .. n) /\ Cardinality(1 .. n) = n
  <2>1. IsFiniteSet(1 .. n) /\ Cardinality(1 .. n) = IF 1 > n THEN 0 ELSE n - 1 + 1
    BY FS_Interval
  <2>2. QED BY <2>1
<1>13. IsFiniteSet(E) /\ Cardinality(E) = n
  BY <1>11, <1>12, FS_Bijection
<1>14. QED BY <1>1, <1>3, <1>13 DEF E

-----------------------------------------------------------------------------
(* What the first phase marks.                                             *)

(* The bytes the first automaton reads. *)
EvenBytes(t) == [k \in Nat |-> At(t, 2 * k - 2)]

LEMMA EvenByte ==
    ASSUME NEW t, NEW y \in Nat
    PROVE  At(EvenBytes(t), y) = At(t, 2 * y)
<1>1. y + 1 \in Nat /\ 2 * (y + 1) - 2 = 2 * y
  OBVIOUS
<1>2. EvenBytes(t)[y + 1] = At(t, 2 * (y + 1) - 2)
  BY <1>1 DEF EvenBytes
<1>3. QED BY <1>1, <1>2 DEF At

(* The halves the even bytes before 2 * y end with, and the window of the  *)
(* longest of their patterns.                                              *)
Ending(a, t, y) ==
    {e \in DOMAIN a.acsm.plist : PrefixEndsWith(EvenBytes(t), y, a.acsm.plist[e].patrn)}

Lengths(a, t, y) == {0} \cup {Len(a.acsm.plist[e].origin) : e \in Ending(a, t, y)}

Window(a, t, y) ==
    IF Ending(a, t, y) = {} \/ Max(Lengths(a, t, y)) > 2 * y THEN {}
    ELSE 2 * y - Max(Lengths(a, t, y)) .. 2 * y + 1

LEMMA MarkedIs ==
    ASSUME ac \in Automata, state \in States(ac.acsm), NEW y \in Nat, T = 2 * y,
           Reads(ac.acsm.label, EvenBytes(text), y, state)
    PROVE  Marked = Window(ac, text, y)
<1>1. PICK b, w : b = ac.acsm /\ w = b.acsmMatchList[state]
  OBVIOUS
<1>2. AutomatonTyped(b) /\ AutomatonCorrect(b) /\ state \in States(b)
  BY <1>1, AutomataAssumption
<1>3. w \in Seq(DOMAIN b.plist)
  BY <1>1, <1>2, TypedFacts
<1>4. /\ \A e \in DOMAIN b.plist : (\E j \in DOMAIN w : w[j] = e)
                                     <=> PrefixEndsWith(EvenBytes(text), y, b.plist[e].patrn)
      /\ \A j \in DOMAIN w : w[j] \in DOMAIN b.plist
  <2>1. Reads(b.label, EvenBytes(text), y, state)
    BY <1>1
  <2>2. /\ \A e \in DOMAIN b.plist :
             (\E j \in DOMAIN b.acsmMatchList[state] : b.acsmMatchList[state][j] = e)
               <=> PrefixEndsWith(EvenBytes(text), y, b.plist[e].patrn)
        /\ \A j \in DOMAIN b.acsmMatchList[state] :
             b.acsmMatchList[state][j] \in DOMAIN b.plist
    BY <1>2, <2>1, ListReads
  <2>3. w = b.acsmMatchList[state]
    BY <1>1
  <2>4. QED BY <2>2, <2>3
<1>5. Ending(ac, text, y) = {w[j] : j \in DOMAIN w}
  BY <1>1, <1>4 DEF Ending
<1>6. {Len(b.plist[w[j]].origin) : j \in DOMAIN w}
        = {Len(b.plist[e].origin) : e \in Ending(ac, text, y)}
  BY <1>5
<1>7. maxLengthGroup(state) = Max(Lengths(ac, text, y))
  <2>1. maxLengthGroup(state) = Max({0} \cup {Len(b.plist[w[j]].origin) : j \in DOMAIN w})
    BY <1>1 DEF maxLengthGroup
  <2>2. Lengths(ac, text, y) = {0} \cup {Len(b.plist[e].origin) : e \in Ending(ac, text, y)}
    BY <1>1 DEF Lengths
  <2>3. QED BY <1>6, <2>1, <2>2
<1>8. w = << >> <=> Ending(ac, text, y) = {}
  <2>1. w = << >> <=> DOMAIN w = {}
    BY <1>3
  <2>2. QED BY <2>1, <1>5
<1>9. QED BY <1>1, <1>7, <1>8 DEF Marked, Window

(* The pattern of a half found is at most one byte longer than the text.   *)
LEMMA EndingLength ==
    ASSUME NEW a \in Automata, NEW t, NEW y \in Nat, NEW e \in Ending(a, t, y)
    PROVE  /\ Len(a.acsm.plist[e].origin) \in Nat
           /\ Len(a.acsm.plist[e].origin) <= 2 * y + 1
<1>1. e \in DOMAIN a.acsm.plist /\ PrefixEndsWith(EvenBytes(t), y, a.acsm.plist[e].patrn)
  BY DEF Ending
<1>2. PICK p, q : p = a.acsm.plist[e] /\ q = p.origin
  OBVIOUS
<1>3. q \in Seq(Char) /\ Len(q) >= 2 /\ p.flag \in 0 .. 1 /\ p.patrn = Half(q, p.flag)
  BY <1>1, <1>2, EntryFacts
<1>4. PICK m \in Nat, f \in 0 .. 1 : m = Len(q) /\ f = p.flag
  BY <1>3
<1>5. Len(p.patrn) = HalfLength(m, f)
  BY <1>3, <1>4, HalfType
<1>6. HalfLength(m, f) \in Nat /\ m <= 2 * HalfLength(m, f) + 1
  BY DEF HalfLength
<1>7. HalfLength(m, f) <= y
  BY <1>1, <1>2, <1>5 DEF PrefixEndsWith
<1>8. m <= 2 * y + 1
  BY <1>6, <1>7
<1>9. QED BY <1>2, <1>4, <1>8

LEMMA LengthsMax ==
    ASSUME NEW a \in Automata, NEW t, NEW y \in Nat
    PROVE  /\ Lengths(a, t, y) \subseteq Nat
           /\ Max(Lengths(a, t, y)) \in Lengths(a, t, y)
           /\ \A l \in Lengths(a, t, y) : l <= Max(Lengths(a, t, y))
<1>1. PICK S : S = Lengths(a, t, y)
  OBVIOUS
<1>2. S \subseteq Nat /\ S # {} /\ \A l \in S : l <= 2 * y + 1
  BY <1>1, EndingLength DEF Lengths
<1>3. Max(S) \in S /\ \A l \in S : l <= Max(S)
  <2>1. 2 * y + 1 \in Nat
    OBVIOUS
  <2>2. PICK x \in S : \A l \in S : l <= x
    BY <1>2, <2>1, LargestNumber
  <2>3. \A l \in S : x >= l
    BY <2>2
  <2>4. Max(S) \in S /\ \A l \in S : Max(S) >= l
    BY <2>3 DEF Max
  <2>5. QED BY <2>4
<1>4. QED BY <1>1, <1>2, <1>3

LEMMA WindowType ==
    ASSUME NEW a \in Automata, NEW t, NEW y \in Nat
    PROVE  Window(a, t, y) \subseteq Nat
<1>1. PICK m \in Nat : m = Max(Lengths(a, t, y))
  BY LengthsMax
<1>2. Window(a, t, y) = {} \/ (m <= 2 * y /\ Window(a, t, y) = 2 * y - m .. 2 * y + 1)
  BY <1>1 DEF Window
<1>3. QED BY <1>2

-----------------------------------------------------------------------------
(* The inductive invariant.                                                *)

(* All bytes some call of the callback marks are marked. *)
AllMarked == \A y \in Nat : 2 * y <= Tend + 1 => Window(ac, text, y) \subseteq filterFlagGroup

(* foundCounter at the beginning of the run. *)
Base == IF run = 0 THEN 0 ELSE found[run]

(* The first phase: the automaton reads the even bytes, and what has been  *)
(* read is marked.                                                         *)
FirstPhase ==
    pc = "oddEven" =>
        /\ foundCounter = Base
        /\ \E y \in Nat :
            /\ T = 2 * y
            /\ Reads(ac.acsm.label, EvenBytes(text), y, state)
            /\ \A z \in Nat : z < y => Window(ac, text, z) \subseteq filterFlagGroup

(* The second phase: the other automaton reads the remaining text.         *)
SecondPhase ==
    pc = "filter" =>
        /\ T <= Tend
        /\ state \in States(ac.filterOriginAC)
        /\ Reads(ac.filterOriginAC.label, VisitedText, Rank(filterFlagGroup, T), state)
        /\ foundCounter
             = Base + Cardinality(EndingBefore(patterns, VisitedText, Rank(filterFlagGroup, T)))

FilterInv ==
    /\ NearInv
    /\ run \in Nat /\ found \in Seq(Nat) /\ Len(found) = run /\ foundCounter \in Nat
    /\ (pc = "filter" \/ run > 0) => AllMarked
    /\ FirstPhase
    /\ SecondPhase
    /\ CountsInVisitedText

LEMMA InvFacts ==
    ASSUME FilterInv
    PROVE  /\ ac \in Automata /\ text \in Texts /\ text \in Seq(Char) /\ Tend \in Nat
           /\ Tend = Len(text) /\ T \in Nat /\ T <= Tend + 1
           /\ filterFlagGroup \subseteq Nat /\ NearInv
           /\ patterns \in Seq(Seq(Char) \ {<< >>})
           /\ VisitedText = Kept(filterFlagGroup, text)
           /\ VisitedText \in Seq(Char) /\ Len(VisitedText) = Rank(filterFlagGroup, Tend)
           /\ run \in Nat /\ found \in Seq(Nat) /\ Len(found) = run /\ foundCounter \in Nat
           /\ Base \in Nat
<1>1. /\ ac \in Automata /\ text \in Texts /\ T \in Nat /\ T <= Tend + 1
      /\ filterFlagGroup \subseteq 0 .. Tend + 2 /\ NearInv
      /\ run \in Nat /\ found \in Seq(Nat) /\ Len(found) = run /\ foundCounter \in Nat
  BY DEF FilterInv, NearInv, StaysNearArray
<1>2. text \in Seq(Char) /\ Tend = Len(text) /\ Tend \in Nat
  BY <1>1, TextsAssumption DEF Tend
<1>3. filterFlagGroup \subseteq Nat
  BY <1>1
<1>4. patterns \in Seq(Seq(Char) \ {<< >>})
  BY <1>1, WholeFacts DEF patterns
<1>5. Kept(filterFlagGroup, text) \in Seq(Char)
      /\ Len(Kept(filterFlagGroup, text)) = Rank(filterFlagGroup, Tend)
  BY <1>2, <1>3, KeptType
<1>6. Base \in Nat
  <2>1. ASSUME run # 0 PROVE found[run] \in Nat
    <3>1. run \in 1 .. Len(found)
      BY <1>1, <2>1
    <3>2. QED BY <1>1, <3>1
  <2>2. QED BY <2>1 DEF Base
<1>7. QED BY <1>1, <1>2, <1>3, <1>4, <1>5, <1>6, KeptIs

LEMMA FilterInit == Init => FilterInv
<1> SUFFICES ASSUME Init PROVE FilterInv
  OBVIOUS
<1>1. /\ ac \in Automata /\ text \in Texts /\ state = 0 /\ T = 0 /\ filterFlagGroup = {}
      /\ run = 0 /\ found = << >> /\ foundCounter = 0 /\ pc = "oddEven"
  BY DEF Init
<1>2. NearInv
  BY NearInit
<1>3. FirstPhase
  <2>1. AutomatonTyped(ac.acsm) /\ AutomatonCorrect(ac.acsm)
    BY <1>1, AutomataAssumption
  <2>2. /\ ac.acsm.label[0] = << >> /\ DOMAIN ac.acsm.label = States(ac.acsm)
        /\ \A q \in States(ac.acsm) : Len(ac.acsm.label[q]) \in Nat
    BY <2>1, TypedFacts
  <2>3. Reads(ac.acsm.label, EvenBytes(text), 0, 0)
    BY <2>2, ReadsStart
  <2>4. T = 2 * 0 /\ \A z \in Nat : ~(z < 0)
    BY <1>1
  <2>5. Base = 0
    BY <1>1 DEF Base
  <2>6. QED BY <1>1, <2>3, <2>4, <2>5 DEF FirstPhase
<1>4. CountsInVisitedText
  BY <1>1 DEF CountsInVisitedText
<1>5. found \in Seq(Nat) /\ Len(found) = 0
  BY <1>1
<1>6. QED BY <1>1, <1>2, <1>3, <1>4, <1>5 DEF FilterInv, SecondPhase

(* What one call of the callback does: in a later run it marks nothing new. *)
LEMMA MarkWindow ==
    ASSUME FilterInv, Mark, NEW y \in Nat, T = 2 * y,
           Reads(ac.acsm.label, EvenBytes(text), y, state)
    PROVE  /\ filterFlagGroup' = filterFlagGroup \cup Window(ac, text, y)
           /\ run > 0 => filterFlagGroup' = filterFlagGroup
<1>1. pc = "oddEven" /\ filterFlagGroup' = filterFlagGroup \cup Marked
  BY DEF Mark
<1>2. ac \in Automata /\ state \in States(ac.acsm)
  BY <1>1 DEF FilterInv, NearInv
<1>3. Marked = Window(ac, text, y)
  BY <1>2, MarkedIs
<1>4. ASSUME run > 0 PROVE Window(ac, text, y) \subseteq filterFlagGroup
  <2>1. AllMarked
    BY <1>4 DEF FilterInv
  <2>2. 2 * y <= Tend + 1
    BY InvFacts
  <2>3. QED BY <2>1, <2>2 DEF AllMarked
<1>5. QED BY <1>1, <1>3, <1>4

(* While the first phase runs, what earlier runs counted stays right.      *)
LEMMA CountsKept ==
    ASSUME FilterInv, found' = found, run' = run, ac' = ac, text' = text,
           run > 0 => filterFlagGroup' = filterFlagGroup
    PROVE  CountsInVisitedText'
<1>1. CASE run = 0
  <2>1. DOMAIN found = {}
    BY <1>1, InvFacts
  <2>2. QED BY <2>1 DEF CountsInVisitedText
<1>2. CASE run > 0
  <2>1. VisitedText' = VisitedText
    BY <1>2 DEF VisitedText, VisitedBefore, Tend
  <2>2. patterns' = patterns /\ CountsInVisitedText
    BY DEF patterns, FilterInv
  <2>3. \A r \in DOMAIN found : FoundIn(r)' = FoundIn(r)
    BY DEF FoundIn
  <2>4. QED BY <2>1, <2>2, <2>3 DEF CountsInVisitedText
<1>3. QED BY <1>1, <1>2, InvFacts

LEMMA FilterOddEven ==
    ASSUME FilterInv, acsmSearchWithOddEven, NearInv'
    PROVE  FilterInv'
<1>1. /\ Mark /\ T < Tend /\ T' = T + 2 /\ pc = "oddEven" /\ pc' = "oddEven"
      /\ state' = ac.acsm.acsmNextState[state][At(text, T)]
      /\ UNCHANGED <<ac, text, run, foundCounter, found>>
  BY DEF acsmSearchWithOddEven, Mark
<1>2. /\ foundCounter = Base
      /\ \E y \in Nat :
            /\ T = 2 * y
            /\ Reads(ac.acsm.label, EvenBytes(text), y, state)
            /\ \A z \in Nat : z < y => Window(ac, text, z) \subseteq filterFlagGroup
  BY <1>1 DEF FilterInv, FirstPhase
<1>3. PICK y \in Nat :
        /\ T = 2 * y
        /\ Reads(ac.acsm.label, EvenBytes(text), y, state)
        /\ \A z \in Nat : z < y => Window(ac, text, z) \subseteq filterFlagGroup
  BY <1>2
<1>4. /\ filterFlagGroup' = filterFlagGroup \cup Window(ac, text, y)
      /\ run > 0 => filterFlagGroup' = filterFlagGroup
  BY <1>1, <1>3, MarkWindow
<1>5. Reads(ac.acsm.label, EvenBytes(text), y + 1, state')
  <2>1. AutomatonTyped(ac.acsm) /\ AutomatonCorrect(ac.acsm) /\ state \in States(ac.acsm)
    BY <1>1, AutomataAssumption DEF FilterInv, NearInv
  <2>2. At(EvenBytes(text), y) = At(text, T)
    BY <1>3, EvenByte
  <2>3. At(text, T) \in Char
    BY <1>1, InvFacts, TextFacts
  <2>4. Reads(ac.acsm.label, EvenBytes(text), y + 1,
              ac.acsm.acsmNextState[state][At(EvenBytes(text), y)])
    BY <1>3, <2>1, <2>2, <2>3, StepReads
  <2>5. QED BY <1>1, <2>2, <2>4
<1>6. Base' = Base /\ Tend' = Tend
  BY <1>1 DEF Base, Tend
<1>7. FirstPhase'
  <2>1. T' = 2 * (y + 1) /\ y + 1 \in Nat
    BY <1>1, <1>3
  <2>2. \A z \in Nat : z < y + 1 => Window(ac, text, z) \subseteq filterFlagGroup'
    <3>1. \A z \in Nat : z < y + 1 => z < y \/ z = y
      OBVIOUS
    <3>2. QED BY <1>3, <1>4, <3>1
  <2>3. Reads(ac'.acsm.label, EvenBytes(text'), y + 1, state')
    BY <1>1, <1>5
  <2>4. \A z \in Nat : z < y + 1 => Window(ac', text', z) \subseteq filterFlagGroup'
    BY <1>1, <2>2
  <2>5. foundCounter' = Base'
    BY <1>1, <1>2, <1>6
  <2>6. QED BY <2>1, <2>3, <2>4, <2>5 DEF FirstPhase
<1>8. CountsInVisitedText'
  BY <1>1, <1>4, CountsKept
<1>9. (run > 0 => AllMarked)'
  <2>1. ASSUME run > 0 PROVE AllMarked'
    <3>1. AllMarked /\ filterFlagGroup' = filterFlagGroup
      BY <1>4, <2>1 DEF FilterInv
    <3>2. QED BY <1>1, <1>6, <3>1 DEF AllMarked
  <2>2. QED BY <1>1, <2>1
<1>10. QED BY <1>1, <1>7, <1>8, <1>9 DEF FilterInv, SecondPhase

LEMMA NothingBefore ==
    ASSUME NEW q \in Seq(Seq(Char) \ {<< >>}), NEW v \in Seq(Char)
    PROVE  Cardinality(EndingBefore(q, v, 0)) = 0
<1>1. ASSUME NEW x \in Occurrences(q, 1, v) PROVE ~(x[2] + Len(q[x[1]]) < 0)
  <2>1. 1 \in {1, 2}
    OBVIOUS
  <2>2. x[2] + Len(q[x[1]]) \in 0 .. Len(v)
    BY <2>1, OccurrenceElement
  <2>3. QED BY <2>2
<1>2. EndingBefore(q, v, 0) = {}
  BY <1>1 DEF EndingBefore
<1>3. QED BY <1>2, FS_EmptySet

LEMMA FilterLeave ==
    ASSUME FilterInv, LeaveOddEven, NearInv'
    PROVE  FilterInv'
<1>1. /\ Mark /\ T >= Tend /\ T' = 0 /\ pc = "oddEven" /\ pc' = "filter" /\ state' = 0
      /\ UNCHANGED <<ac, text, run, foundCounter, found>>
  BY DEF LeaveOddEven, Mark
<1>2. foundCounter = Base
  BY <1>1 DEF FilterInv, FirstPhase
<1>3. PICK y \in Nat :
        /\ T = 2 * y
        /\ Reads(ac.acsm.label, EvenBytes(text), y, state)
        /\ \A z \in Nat : z < y => Window(ac, text, z) \subseteq filterFlagGroup
  BY <1>1 DEF FilterInv, FirstPhase
<1>4. /\ filterFlagGroup' = filterFlagGroup \cup Window(ac, text, y)
      /\ run > 0 => filterFlagGroup' = filterFlagGroup
  BY <1>1, <1>3, MarkWindow
<1>5. Base' = Base /\ Tend' = Tend /\ patterns' = patterns
  BY <1>1 DEF Base, Tend, patterns
<1>6. AllMarked'
  <2>1. ASSUME NEW z \in Nat, 2 * z <= Tend + 1
        PROVE  Window(ac, text, z) \subseteq filterFlagGroup'
    <3>1. z < y \/ z = y
      <4>1. 2 * z <= Tend + 1 /\ Tend <= 2 * y /\ Tend \in Nat
        BY <1>1, <1>3, <2>1, InvFacts
      <4>2. QED BY <4>1
    <3>2. QED BY <1>3, <1>4, <3>1
  <2>2. QED BY <1>1, <1>5, <2>1 DEF AllMarked
<1>7. CountsInVisitedText'
  BY <1>1, <1>4, CountsKept
<1>8. filterFlagGroup' \subseteq Nat /\ text \in Seq(Char) /\ Tend \in Nat
  BY <1>3, <1>4, InvFacts, WindowType
<1>9. SecondPhase'
  <2>1. Rank(filterFlagGroup', 0) = 0
    BY <1>8, RankStart
  <2>2. VisitedText' = Kept(filterFlagGroup', text) /\ VisitedText' \in Seq(Char)
    <3>1. VisitedText' = Kept(filterFlagGroup', text')
      BY DEF VisitedText, Kept, VisitedBefore, Rank, Tend
    <3>2. QED BY <1>1, <1>8, <3>1, KeptType
  <2>3. AutomatonTyped(ac.filterOriginAC) /\ AutomatonCorrect(ac.filterOriginAC)
    BY InvFacts, WholeFacts
  <2>4. /\ 0 \in States(ac.filterOriginAC) /\ ac.filterOriginAC.label[0] = << >>
        /\ DOMAIN ac.filterOriginAC.label = States(ac.filterOriginAC)
        /\ \A q \in States(ac.filterOriginAC) : Len(ac.filterOriginAC.label[q]) \in Nat
    BY <2>3, TypedFacts
  <2>5. Reads(ac.filterOriginAC.label, VisitedText', 0, 0)
    BY <2>4, ReadsStart
  <2>6. Cardinality(EndingBefore(patterns, VisitedText', 0)) = 0
    BY <2>2, InvFacts, NothingBefore
  <2>7. foundCounter' = Base' + Cardinality(EndingBefore(patterns', VisitedText', 0))
    BY <1>1, <1>2, <1>5, <2>6, InvFacts
  <2>8. /\ T' <= Tend' /\ state' \in States(ac'.filterOriginAC)
        /\ Reads(ac'.filterOriginAC.label, VisitedText', Rank(filterFlagGroup', T'), state')
    BY <1>1, <1>5, <1>8, <2>1, <2>4, <2>5
  <2>9. foundCounter' = Base' + Cardinality(EndingBefore(patterns', VisitedText',
                                                         Rank(filterFlagGroup', T')))
    BY <1>1, <2>1, <2>7
  <2>10. QED BY <2>8, <2>9 DEF SecondPhase
<1>10. QED BY <1>1, <1>6, <1>7, <1>9 DEF FilterInv, FirstPhase

(* An occurrence ends before y + 1 when it ends before y or at y.          *)
LEMMA CountNext ==
    ASSUME NEW q \in Seq(Seq(Char) \ {<< >>}), NEW v \in Seq(Char), NEW y \in Nat
    PROVE  /\ Cardinality(EndingBefore(q, v, y)) \in Nat
           /\ Cardinality(EndingAt(q, v, y)) \in Nat
           /\ Cardinality(EndingBefore(q, v, y + 1))
                = Cardinality(EndingBefore(q, v, y)) + Cardinality(EndingAt(q, v, y))
<1>1. PICK A, B, D, O : /\ A = EndingBefore(q, v, y) /\ B = EndingAt(q, v, y)
                        /\ D = EndingBefore(q, v, y + 1) /\ O = Occurrences(q, 1, v)
  OBVIOUS
<1>2. IsFiniteSet(O)
  <2>1. 1 \in {1, 2}
    OBVIOUS
  <2>2. QED BY <1>1, <2>1, OccurrencesFinite
<1>3. A \subseteq O /\ B \subseteq O
  BY <1>1 DEF EndingBefore, EndingAt
<1>4. IsFiniteSet(A) /\ IsFiniteSet(B)
  BY <1>2, <1>3, FS_Subset
<1>5. ASSUME NEW x \in O
      PROVE  /\ x \in D <=> x \in A \/ x \in B
             /\ ~(x \in A /\ x \in B)
  <2>1. 1 \in {1, 2}
    OBVIOUS
  <2>2. x[2] + Len(q[x[1]]) \in 0 .. Len(v)
    BY <1>1, <2>1, OccurrenceElement
  <2>3. PICK n \in Int : n = x[2] + Len(q[x[1]])
    BY <2>2
  <2>4. /\ x \in A <=> n < y
        /\ x \in B <=> n = y
        /\ x \in D <=> n < y + 1
    BY <1>1, <2>3 DEF EndingBefore, EndingAt
  <2>5. QED BY <2>4
<1>6. D \subseteq O
  BY <1>1 DEF EndingBefore
<1>7. D = A \cup B /\ A \cap B = {}
  BY <1>3, <1>5, <1>6
<1>8. Cardinality(A \cup B) = Cardinality(A) + Cardinality(B) - Cardinality(A \cap B)
  BY <1>4, FS_Union
<1>9. Cardinality(A \cap B) = 0 /\ Cardinality(A) \in Nat /\ Cardinality(B) \in Nat
  BY <1>4, <1>7, FS_EmptySet, FS_CardinalityType
<1>10. PICK a \in Nat, b \in Nat : a = Cardinality(A) /\ b = Cardinality(B)
  BY <1>9
<1>11. Cardinality(D) = a + b
  BY <1>7, <1>8, <1>9, <1>10
<1>12. QED BY <1>1, <1>10, <1>11

LEMMA FilterSkip ==
    ASSUME FilterInv, Skip, NearInv'
    PROVE  FilterInv'
<1>1. /\ pc = "filter" /\ T < Tend /\ T \notin filterFlagGroup /\ T' = T + 1
      /\ UNCHANGED <<ac, text, run, pc, state, filterFlagGroup, foundCounter, found>>
  BY DEF Skip
<1>2. Rank(filterFlagGroup, T + 1) = Rank(filterFlagGroup, T)
  BY <1>1, InvFacts, RankNext
<1>3. /\ Base' = Base /\ Tend' = Tend /\ patterns' = patterns /\ VisitedText' = VisitedText
      /\ AllMarked <=> AllMarked'
  BY <1>1 DEF Base, Tend, patterns, VisitedText, VisitedBefore, AllMarked
<1>4. SecondPhase'
  <2>1. /\ state \in States(ac.filterOriginAC)
        /\ Reads(ac.filterOriginAC.label, VisitedText, Rank(filterFlagGroup, T), state)
        /\ foundCounter = Base + Cardinality(EndingBefore(patterns, VisitedText,
                                                          Rank(filterFlagGroup, T)))
    BY <1>1 DEF FilterInv, SecondPhase
  <2>2. Rank(filterFlagGroup', T') = Rank(filterFlagGroup, T)
    BY <1>1, <1>2
  <2>3. T' <= Tend' /\ state' \in States(ac'.filterOriginAC)
    BY <1>1, <1>3, <2>1, InvFacts
  <2>4. /\ Reads(ac'.filterOriginAC.label, VisitedText', Rank(filterFlagGroup', T'), state')
        /\ foundCounter' = Base' + Cardinality(EndingBefore(patterns', VisitedText',
                                                            Rank(filterFlagGroup', T')))
    BY <1>1, <1>3, <2>1, <2>2
  <2>5. QED BY <2>3, <2>4 DEF SecondPhase
<1>5. CountsInVisitedText'
  BY <1>1, CountsKept
<1>6. QED BY <1>1, <1>3, <1>4, <1>5 DEF FilterInv, FirstPhase

LEMMA FilterVisit ==
    ASSUME FilterInv, Visit, NearInv'
    PROVE  FilterInv'
<1>1. /\ pc = "filter" /\ T < Tend /\ T \in filterFlagGroup /\ T' = T + 1
      /\ foundCounter' = foundCounter + Len(ac.filterOriginAC.acsmMatchList[state])
      /\ state' = ac.filterOriginAC.acsmNextState[state][At(text, T)]
      /\ UNCHANGED <<ac, text, run, pc, filterFlagGroup, found>>
  BY DEF Visit
<1>2. /\ state \in States(ac.filterOriginAC)
      /\ Reads(ac.filterOriginAC.label, VisitedText, Rank(filterFlagGroup, T), state)
      /\ foundCounter = Base + Cardinality(EndingBefore(patterns, VisitedText,
                                                        Rank(filterFlagGroup, T)))
  BY <1>1 DEF FilterInv, SecondPhase
<1>3. PICK y : y = Rank(filterFlagGroup, T)
  OBVIOUS
<1>4. y \in Nat /\ y < Len(VisitedText) /\ At(VisitedText, y) = At(text, T)
  BY <1>1, <1>3, InvFacts, KeptAt
<1>5. Rank(filterFlagGroup, T + 1) = y + 1
  BY <1>1, <1>3, InvFacts, RankNext
<1>6. /\ Base' = Base /\ Tend' = Tend /\ patterns' = patterns /\ VisitedText' = VisitedText
      /\ AllMarked <=> AllMarked'
  BY <1>1 DEF Base, Tend, patterns, VisitedText, VisitedBefore, AllMarked
<1>7. /\ state' \in States(ac.filterOriginAC)
      /\ Reads(ac.filterOriginAC.label, VisitedText, y + 1, state')
  <2>1. AutomatonTyped(ac.filterOriginAC) /\ AutomatonCorrect(ac.filterOriginAC)
    BY InvFacts, WholeFacts
  <2>2. At(VisitedText, y) \in Char
    BY <1>1, <1>4, InvFacts, TextFacts
  <2>3. Reads(ac.filterOriginAC.label, VisitedText, y, state)
    BY <1>2, <1>3
  <2>4. /\ ac.filterOriginAC.acsmNextState[state][At(VisitedText, y)]
             \in States(ac.filterOriginAC)
        /\ Reads(ac.filterOriginAC.label, VisitedText, y + 1,
                 ac.filterOriginAC.acsmNextState[state][At(VisitedText, y)])
    BY <1>2, <1>4, <2>1, <2>2, <2>3, StepReads
  <2>5. QED BY <1>1, <1>4, <2>4
<1>8. foundCounter' = Base + Cardinality(EndingBefore(patterns, VisitedText, y + 1))
  <2>1. Len(ac.filterOriginAC.acsmMatchList[state])
          = Cardinality(EndingAt(patterns, VisitedText, y))
    <3>1. y \in 0 .. Len(VisitedText)
      BY <1>4, InvFacts
    <3>2. Reads(ac.filterOriginAC.label, VisitedText, y, state)
      BY <1>2, <1>3
    <3>3. QED BY <1>2, <3>1, <3>2, InvFacts, ListCount DEF patterns
  <2>2. /\ Cardinality(EndingBefore(patterns, VisitedText, y)) \in Nat
        /\ Cardinality(EndingAt(patterns, VisitedText, y)) \in Nat
        /\ Cardinality(EndingBefore(patterns, VisitedText, y + 1))
             = Cardinality(EndingBefore(patterns, VisitedText, y))
                 + Cardinality(EndingAt(patterns, VisitedText, y))
    BY <1>4, InvFacts, CountNext
  <2>3. Base \in Nat
    BY InvFacts
  <2>4. foundCounter = Base + Cardinality(EndingBefore(patterns, VisitedText, y))
    BY <1>2, <1>3
  <2>5. QED BY <1>1, <2>1, <2>2, <2>3, <2>4
<1>9. foundCounter' \in Nat
  <2>1. Cardinality(EndingBefore(patterns, VisitedText, y + 1)) \in Nat
    <3>1. y + 1 \in Nat
      BY <1>4
    <3>2. QED BY <3>1, InvFacts, CountNext
  <2>2. Base \in Nat
    BY InvFacts
  <2>3. QED BY <1>8, <2>1, <2>2
<1>10. SecondPhase'
  <2>1. Rank(filterFlagGroup', T') = y + 1
    BY <1>1, <1>5
  <2>2. T' <= Tend' /\ state' \in States(ac'.filterOriginAC)
    BY <1>1, <1>6, <1>7, InvFacts
  <2>3. /\ Reads(ac'.filterOriginAC.label, VisitedText', Rank(filterFlagGroup', T'), state')
        /\ foundCounter' = Base' + Cardinality(EndingBefore(patterns', VisitedText',
                                                            Rank(filterFlagGroup', T')))
    BY <1>1, <1>6, <1>7, <1>8, <2>1
  <2>4. QED BY <2>2, <2>3 DEF SecondPhase
<1>11. CountsInVisitedText'
  BY <1>1, CountsKept
<1>12. QED BY <1>1, <1>6, <1>9, <1>10, <1>11 DEF FilterInv, FirstPhase

(* At the end of a run all occurrences in the remaining text are counted.  *)
LEMMA RunCount ==
    ASSUME FilterInv, EndOfRun
    PROVE  foundCounter' = Base + Cardinality(Occurrences(patterns, 1, VisitedText))
<1>1. /\ pc = "filter" /\ T >= Tend
      /\ foundCounter' = foundCounter + Len(ac.filterOriginAC.acsmMatchList[state])
  BY DEF EndOfRun
<1>2. /\ T <= Tend /\ state \in States(ac.filterOriginAC)
      /\ Reads(ac.filterOriginAC.label, VisitedText, Rank(filterFlagGroup, T), state)
      /\ foundCounter = Base + Cardinality(EndingBefore(patterns, VisitedText,
                                                        Rank(filterFlagGroup, T)))
  BY <1>1 DEF FilterInv, SecondPhase
<1>3. PICK y : y = Len(VisitedText)
  OBVIOUS
<1>4. y \in Nat /\ Rank(filterFlagGroup, T) = y
  <2>1. T = Tend
    BY <1>1, <1>2, InvFacts
  <2>2. QED BY <1>3, <2>1, InvFacts
<1>5. Len(ac.filterOriginAC.acsmMatchList[state])
        = Cardinality(EndingAt(patterns, VisitedText, y))
  <2>1. y \in 0 .. Len(VisitedText)
    BY <1>3, <1>4
  <2>2. Reads(ac.filterOriginAC.label, VisitedText, y, state)
    BY <1>2, <1>4
  <2>3. QED BY <1>2, <2>1, <2>2, InvFacts, ListCount DEF patterns
<1>6. EndingBefore(patterns, VisitedText, y + 1) = Occurrences(patterns, 1, VisitedText)
  <2>1. ASSUME NEW x \in Occurrences(patterns, 1, VisitedText)
        PROVE  x[2] + Len(patterns[x[1]]) < y + 1
    <3>1. 1 \in {1, 2}
      OBVIOUS
    <3>2. x[2] + Len(patterns[x[1]]) \in 0 .. Len(VisitedText)
      BY <3>1, InvFacts, OccurrenceElement
    <3>3. QED BY <1>3, <1>4, <3>2
  <2>2. QED BY <2>1 DEF EndingBefore
<1>7. /\ Cardinality(EndingBefore(patterns, VisitedText, y)) \in Nat
      /\ Cardinality(EndingAt(patterns, VisitedText, y)) \in Nat
      /\ Cardinality(EndingBefore(patterns, VisitedText, y + 1))
           = Cardinality(EndingBefore(patterns, VisitedText, y))
               + Cardinality(EndingAt(patterns, VisitedText, y))
  BY <1>4, InvFacts, CountNext
<1>8. Base \in Nat
  BY InvFacts
<1>9. foundCounter = Base + Cardinality(EndingBefore(patterns, VisitedText, y))
  BY <1>2, <1>4
<1>10. QED BY <1>1, <1>5, <1>6, <1>7, <1>8, <1>9

LEMMA FilterEnd ==
    ASSUME FilterInv, EndOfRun, NearInv'
    PROVE  FilterInv'
<1>1. /\ pc = "filter" /\ found' = Append(found, foundCounter') /\ run' = run + 1
      /\ pc' \in {"oddEven", "done"} /\ T' = 0 /\ state' = 0
      /\ UNCHANGED <<ac, text, filterFlagGroup>>
  BY DEF EndOfRun
<1>2. PICK n : n = Cardinality(Occurrences(patterns, 1, VisitedText))
  OBVIOUS
<1>3. foundCounter' = Base + n /\ n \in Nat /\ Base \in Nat /\ foundCounter' \in Nat
  <2>1. n \in Nat
    <3>1. 1 \in {1, 2}
      OBVIOUS
    <3>2. IsFiniteSet(Occurrences(patterns, 1, VisitedText))
      BY <3>1, InvFacts, OccurrencesFinite
    <3>3. QED BY <1>2, <3>2, FS_CardinalityType
  <2>2. foundCounter' = Base + n
    BY <1>2, RunCount
  <2>3. QED BY <2>1, <2>2, InvFacts
<1>4. /\ run \in Nat /\ run' \in Nat /\ run' > 0 /\ run' # 0 /\ run' - 1 = run
      /\ found \in Seq(Nat) /\ Len(found) = run
  <2>1. run \in Nat /\ found \in Seq(Nat) /\ Len(found) = run
    BY InvFacts
  <2>2. QED BY <1>1, <2>1
<1>5. /\ found' \in Seq(Nat) /\ Len(found') = run' /\ found'[run'] = foundCounter'
      /\ \A r \in 1 .. run : found'[r] = found[r]
  BY <1>1, <1>3, <1>4
<1>6. Base' = foundCounter'
  BY <1>4, <1>5 DEF Base
<1>7. /\ Tend' = Tend /\ patterns' = patterns /\ VisitedText' = VisitedText
      /\ AllMarked <=> AllMarked'
  BY <1>1 DEF Tend, patterns, VisitedText, VisitedBefore, AllMarked
<1>8. AllMarked
  BY <1>1 DEF FilterInv
<1>9. FirstPhase'
  <2>1. AutomatonTyped(ac.acsm) /\ AutomatonCorrect(ac.acsm)
    BY InvFacts, AutomataAssumption
  <2>2. /\ ac.acsm.label[0] = << >> /\ DOMAIN ac.acsm.label = States(ac.acsm)
        /\ \A q \in States(ac.acsm) : Len(ac.acsm.label[q]) \in Nat
    BY <2>1, TypedFacts
  <2>3. Reads(ac.acsm.label, EvenBytes(text), 0, 0)
    BY <2>2, ReadsStart
  <2>4. T' = 2 * 0 /\ \A z \in Nat : ~(z < 0)
    BY <1>1
  <2>5. Reads(ac'.acsm.label, EvenBytes(text'), 0, state')
    BY <1>1, <2>3
  <2>6. QED BY <1>6, <2>4, <2>5 DEF FirstPhase
<1>10. CountsInVisitedText'
  <2>1. \A r \in 1 .. run : FoundIn(r) = n
    <3>1. DOMAIN found = 1 .. run /\ CountsInVisitedText
      BY <1>4 DEF FilterInv
    <3>2. QED BY <1>2, <3>1 DEF CountsInVisitedText
  <2>2. ASSUME NEW r \in 1 .. run PROVE FoundIn(r)' = n
    <3>1. found'[r] = found[r]
      BY <1>5
    <3>2. r # 1 => found'[r - 1] = found[r - 1]
      <4>1. r # 1 => r - 1 \in 1 .. run
        BY <1>4
      <4>2. QED BY <1>5, <4>1
    <3>3. FoundIn(r)' = FoundIn(r)
      BY <3>1, <3>2 DEF FoundIn
    <3>4. QED BY <2>1, <3>3
  <2>3. PICK k : k = run'
    OBVIOUS
  <2>4. FoundIn(k)' = n
    <3>1. (k = 1 <=> run = 0) /\ (run # 0 => run \in 1 .. run)
      BY <1>1, <1>4, <2>3
    <3>2. (IF k = 1 THEN 0 ELSE found'[k - 1]) = Base
      BY <1>4, <1>5, <2>3, <3>1 DEF Base
    <3>3. PICK g, h : g = foundCounter' /\ h = Base
      OBVIOUS
    <3>4. g - h = n
      BY <1>3, <3>3
    <3>5. found'[k] - (IF k = 1 THEN 0 ELSE found'[k - 1]) = n
      BY <1>5, <2>3, <3>2, <3>3, <3>4
    <3>6. QED BY <3>5 DEF FoundIn
  <2>5. DOMAIN found' = (1 .. run) \cup {k}
    BY <1>1, <1>4, <1>5, <2>3
  <2>6. Cardinality(Occurrences(patterns', 1, VisitedText')) = n
    BY <1>2, <1>7
  <2>7. \A r \in DOMAIN found' : FoundIn(r)' = n
    BY <2>2, <2>4, <2>5
  <2>8. QED BY <2>6, <2>7 DEF CountsInVisitedText
<1>11. QED BY <1>1, <1>3, <1>4, <1>5, <1>7, <1>8, <1>9, <1>10 DEF FilterInv, SecondPhase

LEMMA FilterStep == FilterInv /\ [Next]_vars => FilterInv'
<1> SUFFICES ASSUME FilterInv, [Next]_vars PROVE FilterInv'
  OBVIOUS
<1>1. NearInv'
  BY NearStep DEF FilterInv
<1>2. CASE acsmSearchWithOddEven
  BY <1>1, <1>2, FilterOddEven
<1>3. CASE LeaveOddEven
  BY <1>1, <1>3, FilterLeave
<1>4. CASE Skip
  BY <1>1, <1>4, FilterSkip
<1>5. CASE Visit
  BY <1>1, <1>5, FilterVisit
<1>6. CASE EndOfRun
  BY <1>1, <1>6, FilterEnd
<1>7. CASE UNCHANGED vars
  <2>1. CountsInVisitedText'
    BY <1>7, CountsKept DEF vars
  <2>2. /\ Base' = Base /\ Tend' = Tend /\ patterns' = patterns /\ VisitedText' = VisitedText
        /\ AllMarked <=> AllMarked'
    BY <1>7 DEF vars, Base, Tend, patterns, VisitedText, VisitedBefore, AllMarked
  <2>3. FirstPhase' /\ SecondPhase'
    BY <1>7, <2>2 DEF vars, FilterInv, FirstPhase, SecondPhase, States
  <2>4. QED BY <1>1, <1>7, <2>1, <2>2, <2>3 DEF vars, FilterInv
<1>8. QED BY <1>2, <1>3, <1>4, <1>5, <1>6, <1>7 DEF Next, Done

THEOREM FilterInvariant == Spec => []FilterInv
<1>1. QED BY FilterInit, FilterStep, PTL DEF Spec

(* Every run counts the occurrences in the text that is left when the      *)
(* bytes without a flag are taken out, those that lie on both sides of a   *)
(* gap included, each once; the flags of earlier runs change nothing.      *)
THEOREM VisitedCounted == Spec => []CountsInVisitedText
<1>1. FilterInv => CountsInVisitedText
  BY DEF FilterInv
<1>2. QED BY <1>1, FilterInvariant, PTL

-----------------------------------------------------------------------------
(* The occurrences decided in time.                                        *)

LEMMA StreamIs ==
    ASSUME NEW w, Len(w) \in Nat, NEW y \in Nat
    PROVE  StreamEndsWith(2 * y, w) <=> PrefixEndsWith(EvenBytes(text), y, w)
<1>1. 2 * Len(w) <= 2 * y <=> Len(w) <= y
  OBVIOUS
<1>2. ASSUME Len(w) <= y, NEW k \in 1 .. Len(w)
      PROVE  EvenBytes(text)[y - Len(w) + k] = At(text, 2 * y - 2 - 2 * (Len(w) - k))
  <2>1. PICK i \in Nat : i = y - Len(w) + k
    BY <1>2
  <2>2. 2 * i - 2 = 2 * y - 2 - 2 * (Len(w) - k)
    BY <2>1
  <2>3. EvenBytes(text)[i] = At(text, 2 * i - 2)
    BY DEF EvenBytes
  <2>4. QED BY <2>1, <2>2, <2>3
<1>3. QED BY <1>1, <1>2 DEF StreamEndsWith, PrefixEndsWith

(* What LongestAt ranges over.                                             *)
Reaching(t) ==
    {x \in (DOMAIN patterns) \X {0, 1} :
        Len(patterns[x[1]]) >= 2 /\ StreamEndsWith(t, Half(patterns[x[1]], x[2]))}

LEMMA PatternType ==
    ASSUME FilterInv, NEW id \in DOMAIN patterns
    PROVE  patterns[id] \in Seq(Char) /\ Len(patterns[id]) \in Nat
<1>1. patterns[id] \in Seq(Char) \ {<< >>}
  BY InvFacts
<1>2. QED BY <1>1

(* No pattern in a list of the automaton is longer than LongestAt says.    *)
LEMMA LongestBound ==
    ASSUME FilterInv, NEW y \in Nat
    PROVE  /\ LongestAt(2 * y) \in Nat
           /\ \A l \in Lengths(ac, text, y) : l <= LongestAt(2 * y)
<1> DEFINE S == {0} \cup {Len(patterns[x[1]]) : x \in Reaching(2 * y)}
<1>1. LongestAt(2 * y) = Max(S)
  BY DEF LongestAt, Reaching
<1>2. ASSUME NEW x \in Reaching(2 * y)
      PROVE  Len(patterns[x[1]]) \in Nat /\ Len(patterns[x[1]]) <= 2 * y + 1
  <2>1. PICK id, f : id = x[1] /\ f = x[2]
    OBVIOUS
  <2>2. /\ id \in DOMAIN patterns /\ f \in 0 .. 1 /\ Len(patterns[id]) >= 2
        /\ StreamEndsWith(2 * y, Half(patterns[id], f))
    BY <2>1 DEF Reaching
  <2>3. patterns[id] \in Seq(Char)
    BY <2>2, PatternType
  <2>4. PICK m \in Nat : m = Len(patterns[id])
    BY <2>3
  <2>5. Len(Half(patterns[id], f)) = HalfLength(m, f)
    BY <2>2, <2>3, <2>4, HalfType
  <2>6. HalfLength(m, f) \in Nat /\ m <= 2 * HalfLength(m, f) + 1
    BY <2>2 DEF HalfLength
  <2>7. 2 * HalfLength(m, f) <= 2 * y
    BY <2>2, <2>5 DEF StreamEndsWith
  <2>8. m <= 2 * y + 1
    BY <2>6, <2>7
  <2>9. QED BY <2>1, <2>4, <2>8
<1>3. S \subseteq Nat /\ S # {} /\ \A l \in S : l <= 2 * y + 1
  BY <1>2
<1>4. Lengths(ac, text, y) \subseteq S
  <2>1. ASSUME NEW e \in Ending(ac, text, y)
        PROVE  Len(ac.acsm.plist[e].origin) \in S
    <3>1. /\ e \in DOMAIN ac.acsm.plist
          /\ PrefixEndsWith(EvenBytes(text), y, ac.acsm.plist[e].patrn)
      BY DEF Ending
    <3>2. PICK id, f, q : /\ id = ac.acsm.plist[e].iid /\ f = ac.acsm.plist[e].flag
                          /\ q = ac.acsm.plist[e].origin
      OBVIOUS
    <3>3. /\ id \in DOMAIN patterns /\ f \in 0 .. 1 /\ q = patterns[id] /\ Len(q) >= 2
          /\ q \in Seq(Char) /\ ac.acsm.plist[e].patrn = Half(q, f)
      BY <3>1, <3>2, InvFacts, EntryFacts DEF patterns
    <3>4. Len(Half(q, f)) \in Nat
      <4>1. Half(q, f) \in Seq(Char)
        BY <3>3, HalfType
      <4>2. QED BY <4>1
    <3>5. StreamEndsWith(2 * y, Half(q, f))
      BY <3>1, <3>3, <3>4, StreamIs
    <3>6. PICK x : x = <<id, f>>
      OBVIOUS
    <3>7. x \in (DOMAIN patterns) \X {0, 1} /\ x[1] = id /\ x[2] = f
      BY <3>3, <3>6
    <3>8. x \in Reaching(2 * y)
      BY <3>3, <3>5, <3>7 DEF Reaching
    <3>9. QED BY <3>2, <3>3, <3>7, <3>8
  <2>2. QED BY <2>1 DEF Lengths
<1> HIDE DEF S
<1>5. Max(S) \in S /\ \A l \in S : l <= Max(S)
  <2>1. 2 * y + 1 \in Nat
    OBVIOUS
  <2>2. PICK x \in S : \A l \in S : l <= x
    BY <1>3, <2>1, LargestNumber
  <2>3. \A l \in S : x >= l
    BY <2>2
  <2>4. Max(S) \in S /\ \A l \in S : Max(S) >= l
    BY <2>3 DEF Max
  <2>5. QED BY <2>4
<1>6. QED BY <1>1, <1>3, <1>4, <1>5

(* Such an occurrence lies in a window entirely.                           *)
LEMMA SeenIsMarked ==
    ASSUME FilterInv, AllMarked, NEW x \in SeenInTime
    PROVE  /\ x \in Occurrences(patterns, 2, text)
           /\ \A j \in 0 .. Len(patterns[x[1]]) - 1 : x[2] + j \in filterFlagGroup
<1>1. /\ x \in Occurrences(patterns, 2, text)
      /\ x[2] + Start(Len(patterns[x[1]]), x[2] % 2) = x[2] + Len(patterns[x[1]])
      /\ LongestAt(x[2] + Start(Len(patterns[x[1]]), x[2] % 2))
           <= x[2] + Start(Len(patterns[x[1]]), x[2] % 2)
  BY DEF SeenInTime
<1>2. /\ x[1] \in DOMAIN patterns /\ x[2] \in 0 .. Len(text)
      /\ OccursAt(patterns[x[1]], text, x[2])
      /\ patterns[x[1]] \in Seq(Char) /\ Len(patterns[x[1]]) \in Nat
      /\ Len(patterns[x[1]]) >= 2 /\ x[2] + Len(patterns[x[1]]) \in 0 .. Len(text)
  <2>1. 2 \in {1, 2}
    OBVIOUS
  <2>2. QED BY <1>1, <2>1, InvFacts, OccurrenceElement
<1>3. PICK id, p : id = x[1] /\ p = patterns[id]
  OBVIOUS
<1>4. PICK o \in Nat, m \in Nat : o = x[2] /\ m = Len(p)
  BY <1>2, <1>3
<1>5. PICK f \in 0 .. 1 : f = o % 2
  OBVIOUS
<1>6. PICK t \in Nat : t = o + Start(m, f)
  <2>1. m >= 2
    BY <1>2, <1>3, <1>4
  <2>2. Start(m, f) \in Nat
    BY <2>1, StartType
  <2>3. QED BY <2>2
<1>7. t = o + m /\ t <= Tend /\ LongestAt(t) <= t
  <2>1. t = o + m /\ LongestAt(t) <= t
    BY <1>1, <1>3, <1>4, <1>5, <1>6
  <2>2. o + m <= Len(text)
    BY <1>2, <1>3, <1>4
  <2>3. QED BY <2>1, <2>2, InvFacts
<1>8. t % 2 = 0 /\ HalfEndsAt(p, f, text, t)
  <2>1. p \in Seq(Char) /\ Len(p) >= 2 /\ text \in Seq(Char) /\ OccursAt(p, text, o)
    BY <1>2, <1>3, <1>4, InvFacts
  <2>2. /\ (o + Start(Len(p), o % 2)) % 2 = 0
        /\ HalfEndsAt(p, o % 2, text, o + Start(Len(p), o % 2))
    BY <2>1, OccurrenceSeen
  <2>3. QED BY <2>2, <1>4, <1>5, <1>6
<1>9. PICK y \in Nat : t = 2 * y
  <2>1. t \div 2 \in Nat /\ t = 2 * (t \div 2)
    BY <1>8
  <2>2. QED BY <2>1
<1>10. PICK e \in DOMAIN ac.acsm.plist :
         ac.acsm.plist[e].iid = id /\ ac.acsm.plist[e].flag = f
  <2>1. HalvesOf(ac.acsm.plist, ac.acsm.patterns) /\ patterns = ac.acsm.patterns
    BY InvFacts, AutomataAssumption DEF patterns
  <2>2. id \in DOMAIN ac.acsm.patterns /\ f \in {0, 1} /\ Len(ac.acsm.patterns[id]) >= 2
    BY <1>2, <1>3, <2>1
  <2>3. QED BY <2>1, <2>2 DEF HalvesOf
<1>11. ac.acsm.plist[e].origin = p /\ ac.acsm.plist[e].patrn = Half(p, f)
  BY <1>3, <1>10, InvFacts, EntryFacts DEF patterns
<1>12. e \in Ending(ac, text, y)
  <2>1. /\ Half(p, f) \in Seq(Char) /\ Len(Half(p, f)) = HalfLength(m, f)
        /\ \A j \in 1 .. HalfLength(m, f) : Half(p, f)[j] = At(p, 2 * j - 2 + f)
    BY <1>2, <1>3, <1>4, HalfType
  <2>2. 2 * HalfLength(m, f) <= t
    BY <1>4, <1>8 DEF HalfEndsAt
  <2>3. \A j \in 1 .. HalfLength(m, f) :
          At(p, 2 * j - 2 + f) = At(text, t - 2 - 2 * (HalfLength(m, f) - j))
    BY <1>4, <1>8 DEF HalfEndsAt, HalfStands
  <2>4. StreamEndsWith(t, Half(p, f))
    BY <2>1, <2>2, <2>3 DEF StreamEndsWith
  <2>5. Len(Half(p, f)) \in Nat
    BY <2>1
  <2>6. PrefixEndsWith(EvenBytes(text), y, Half(p, f))
    BY <1>9, <2>4, <2>5, StreamIs
  <2>7. QED BY <1>10, <1>11, <2>6 DEF Ending
<1>13. PICK l \in Nat : l = Max(Lengths(ac, text, y)) /\ m <= l /\ l <= t
  <2>1. m \in Lengths(ac, text, y)
    BY <1>4, <1>11, <1>12 DEF Lengths
  <2>2. /\ Lengths(ac, text, y) \subseteq Nat
        /\ Max(Lengths(ac, text, y)) \in Lengths(ac, text, y)
        /\ m <= Max(Lengths(ac, text, y))
    BY <2>1, InvFacts, LengthsMax
  <2>3. /\ LongestAt(t) \in Nat
        /\ Max(Lengths(ac, text, y)) <= LongestAt(t)
    BY <1>9, <2>2, LongestBound
  <2>4. Max(Lengths(ac, text, y)) <= t
    <3>1. PICK k \in Nat, g \in Nat : k = Max(Lengths(ac, text, y)) /\ g = LongestAt(t)
      BY <2>2, <2>3
    <3>2. QED BY <1>7, <2>3, <3>1
  <2>5. QED BY <2>2, <2>4
<1>14. Window(ac, text, y) = t - l .. t + 1
  <2>1. Ending(ac, text, y) # {} /\ ~(l > 2 * y)
    BY <1>9, <1>12, <1>13
  <2>2. QED BY <1>9, <1>13, <2>1 DEF Window
<1>15. Window(ac, text, y) \subseteq filterFlagGroup
  <2>1. 2 * y <= Tend + 1
    BY <1>7, <1>9, InvFacts
  <2>2. QED BY <2>1 DEF AllMarked
<1>16. ASSUME NEW j \in 0 .. m - 1 PROVE o + j \in filterFlagGroup
  <2>1. o + j \in t - l .. t + 1
    BY <1>7, <1>13
  <2>2. QED BY <1>14, <1>15, <2>1
<1>17. QED BY <1>1, <1>3, <1>4, <1>16

(* It stands in the remaining text, where its first byte has been left.    *)
LEMMA SeenStands ==
    ASSUME FilterInv, AllMarked, NEW x \in SeenInTime
    PROVE  /\ x = <<x[1], x[2]>> /\ x[2] \in filterFlagGroup
           /\ <<x[1], Rank(filterFlagGroup, x[2])>> \in Occurrences(patterns, 1, VisitedText)
<1>1. /\ x \in Occurrences(patterns, 2, text)
      /\ \A j \in 0 .. Len(patterns[x[1]]) - 1 : x[2] + j \in filterFlagGroup
  BY SeenIsMarked
<1>2. /\ x = <<x[1], x[2]>>
      /\ x[1] \in DOMAIN patterns /\ x[2] \in 0 .. Len(text)
      /\ OccursAt(patterns[x[1]], text, x[2])
      /\ patterns[x[1]] \in Seq(Char) /\ Len(patterns[x[1]]) \in Nat
      /\ Len(patterns[x[1]]) >= 2 /\ x[2] + Len(patterns[x[1]]) \in 0 .. Len(text)
  <2>1. 2 \in {1, 2}
    OBVIOUS
  <2>2. QED BY <1>1, <2>1, InvFacts, OccurrenceElement
<1>3. PICK id, p, F, v : /\ id = x[1] /\ p = patterns[id]
                         /\ F = filterFlagGroup /\ v = VisitedText
  OBVIOUS
<1>4. PICK o \in Nat, m \in Nat, n \in Nat : o = x[2] /\ m = Len(p) /\ n = Len(text)
  <2>1. Len(text) \in Nat
    BY InvFacts
  <2>2. x[2] \in Nat
    BY <1>2, <2>1
  <2>3. Len(p) \in Nat
    BY <1>2, <1>3
  <2>4. QED BY <2>1, <2>2, <2>3
<1>5. m >= 2 /\ o + m <= n /\ \A j \in 0 .. m - 1 : o + j \in F
  BY <1>1, <1>2, <1>3, <1>4
<1>6. F \subseteq Nat /\ v = Kept(F, text) /\ Len(v) = Rank(F, n) /\ v \in Seq(Char)
  BY <1>3, <1>4, InvFacts
<1>7. PICK r \in Nat, z \in Nat : r = Rank(F, o) /\ z = Rank(F, n)
  BY <1>6, RankType
<1>8. \A j \in 0 .. m : Rank(F, o + j) = r + j
  <2>1. F \subseteq Nat /\ \A j \in 0 .. m - 1 : o + j \in F
    BY <1>5, <1>6
  <2>2. \A j \in 0 .. m : Rank(F, o + j) = Rank(F, o) + j
    BY <2>1, RankOfWindow
  <2>3. QED BY <1>7, <2>2
<1>9. r + m <= z
  <2>1. Rank(F, o + m) = r + m
    BY <1>8
  <2>2. o + m \in Nat
    OBVIOUS
  <2>3. Rank(F, o + m) <= Rank(F, n)
    BY <1>5, <1>6, <2>2, RankMonotone
  <2>4. QED BY <1>7, <2>1, <2>3
<1>10. ASSUME NEW j \in 0 .. m - 1 PROVE At(p, j) = At(v, r + j)
  <2>1. o + j \in F /\ o + j < n /\ j \in 0 .. m
    BY <1>5
  <2>2. At(v, Rank(F, o + j)) = At(text, o + j)
    BY <1>4, <1>6, <2>1, KeptAt
  <2>3. At(p, j) = At(text, o + j)
    BY <1>2, <1>3, <1>4 DEF OccursAt
  <2>4. Rank(F, o + j) = r + j
    BY <1>8, <2>1
  <2>5. QED BY <2>2, <2>3, <2>4
<1>11. OccursAt(p, v, r)
  BY <1>4, <1>6, <1>7, <1>9, <1>10 DEF OccursAt
<1>12. PICK w : w = <<id, r>>
  OBVIOUS
<1>13. w[1] = id /\ w[2] = r /\ w \in (DOMAIN patterns) \X (0 .. Len(v))
  <2>1. r \in 0 .. Len(v)
    BY <1>6, <1>7, <1>9
  <2>2. QED BY <1>2, <1>3, <1>12, <2>1
<1>14. w \in Occurrences(patterns, 1, v)
  <2>1. Len(patterns[w[1]]) >= 1 /\ OccursAt(patterns[w[1]], v, w[2])
    BY <1>3, <1>4, <1>5, <1>11, <1>13
  <2>2. QED BY <1>13, <2>1 DEF Occurrences
<1>15. o \in F
  <2>1. 0 \in 0 .. m - 1 /\ o + 0 = o
    BY <1>5
  <2>2. QED BY <1>5, <2>1
<1>16. QED BY <1>2, <1>3, <1>4, <1>7, <1>12, <1>14, <1>15

LEMMA SeenCounted == FilterInv => SeenInTimeAreCounted
<1> SUFFICES ASSUME FilterInv, NEW r \in DOMAIN found
             PROVE  FoundIn(r) >= Cardinality(SeenInTime)
  BY DEF SeenInTimeAreCounted
<1>1. AllMarked
  <2>1. run > 0
    BY InvFacts
  <2>2. QED BY <2>1 DEF FilterInv
<1>2. FoundIn(r) = Cardinality(Occurrences(patterns, 1, VisitedText))
  BY DEF FilterInv, CountsInVisitedText
<1>3. PICK S, O, F : /\ S = SeenInTime /\ O = Occurrences(patterns, 1, VisitedText)
                     /\ F = filterFlagGroup
  OBVIOUS
<1>4. IsFiniteSet(O)
  <2>1. 1 \in {1, 2}
    OBVIOUS
  <2>2. QED BY <1>3, <2>1, InvFacts, OccurrencesFinite
<1> DEFINE f == [x \in S |-> <<x[1], Rank(F, x[2])>>]
<1>5. \A x \in S : x = <<x[1], x[2]>> /\ x[2] \in F /\ f[x] \in O
  BY <1>1, <1>3, SeenStands
<1>6. ASSUME NEW x \in S, NEW y \in S, f[x] = f[y] PROVE x = y
  <2>1. x[1] = y[1] /\ Rank(F, x[2]) = Rank(F, y[2])
    BY <1>6
  <2>2. F \subseteq Nat
    BY <1>3, InvFacts
  <2>3. x[2] = y[2]
    BY <1>5, <2>1, <2>2, RankInjective
  <2>4. QED BY <1>5, <2>1, <2>3
<1>7. f \in Injection(S, O)
  <2>1. f \in [S -> O]
    BY <1>5
  <2> HIDE DEF f
  <2>2. QED BY <1>6, <2>1 DEF Injection, IsInjective
<1> HIDE DEF f
<1>8. IsFiniteSet(S) /\ Cardinality(S) <= Cardinality(O)
  BY <1>4, <1>7, FS_Injection
<1>9. Cardinality(S) \in Nat /\ Cardinality(O) \in Nat
  BY <1>4, <1>8, FS_CardinalityType
<1>10. QED BY <1>2, <1>3, <1>8, <1>9

(* The occurrences the first phase decides right behind their last byte,   *)
(* in a list none of whose patterns is longer than the text so far, are    *)
(* among what every run counts: their window covers them, so they stand    *)
(* in the text that is left.                                               *)
THEOREM SeenInTimeCounted == Spec => []SeenInTimeAreCounted
<1>1. QED BY SeenCounted, FilterInvariant, PTL

=============================================================================
