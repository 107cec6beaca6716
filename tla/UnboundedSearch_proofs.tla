----------------------- MODULE UnboundedSearch_proofs -----------------------
(***************************************************************************)
(* The odd-even searches without bounds checks, for every alphabet,        *)
(* pattern file, text, memory next to it and number of runs: how far from  *)
(* the text they read (ReadsStayNearText), what they find                  *)
(* (EdgesOnlyInvented) and what they count (RunsCountAlike).               *)
(*                                                                         *)
(* The argument of the last two: a place <<pattern, offset>> whose half    *)
(* the automaton reads (Seen) has its turn at exactly one T (TurnOf); the  *)
(* match list at T names exactly the places whose turn it is; each way of  *)
(* settling a list accepts exactly those where the pattern stands.  So     *)
(* hits is always the accepted part of the places that had their turn, or  *)
(* of those the queue has been through.  What mode 4 counts with no mark   *)
(* depends on the bytes around T alone (UnmarkedAt), so strays is the part *)
(* of AllStrays whose lists have been settled.                             *)
(***************************************************************************)
EXTENDS UnboundedSearch, SubPattern_proofs, FiniteSetTheorems

-----------------------------------------------------------------------------
(* What the assumptions say of the automaton of the search.                *)

LEMMA AutomatonFacts ==
    ASSUME NEW a \in Automata
    PROVE  /\ a.acsmNumStates \in Nat \ {0}
           /\ IsTrie(a.label, a.plist)
           /\ \A e \in DOMAIN a.plist : a.plist[e].patrn \in Seq(Char)
           /\ a.patterns \in Seq(Seq(Char))
           /\ a.acsmNextState \in [States(a) -> [Char -> States(a)]]
           /\ a.label \in [States(a) -> Seq(Char)]
           /\ a.acsmMatchList \in [States(a) -> Seq(DOMAIN a.plist)]
           /\ 0 \in States(a) /\ Len(a.label[0]) = 0
           /\ \A s \in States(a), c \in Char :
                IsLongestSuffix(a.label, a.acsmNextState[s][c], Append(a.label[s], c))
           /\ \A s \in States(a) : ListsSuffixes(a.acsmMatchList[s], a.plist, a.label[s])
<1>1. AutomatonTyped(a) /\ AutomatonCorrect(a) /\ a.patterns \in Seq(Seq(Char))
  BY AutomataAssumption
<1>2. 0 \in States(a) /\ Len(a.label[0]) = 0
  BY <1>1 DEF AutomatonTyped, AutomatonCorrect, IsTrie, States
<1>3. QED BY <1>1, <1>2, Zenon DEF AutomatonTyped, AutomatonCorrect

LEMMA LenType ==
    ASSUME NEW C, NEW w \in Seq(C)
    PROVE  Len(w) \in Nat
  OBVIOUS

LEMMA TextFacts ==
    ASSUME NEW t \in Texts
    PROVE  /\ t \in Seq(Char) /\ Len(t) \in Nat
           /\ \A i \in 0 .. Len(t) - 1 : At(t, i) \in Char
<1>1. t \in Seq(Char)
  BY TextsAssumption
<1>2. QED BY <1>1 DEF At

(* The numbers of a half, and what its length has to do with them.         *)
LEMMA HalfFacts ==
    ASSUME NEW q \in Seq(Char), Len(q) >= 2, NEW f \in 0 .. 1, NEW n, NEW p,
           p = SubPatternOf(q, n, f)
    PROVE  /\ p.origin = q /\ Len(q) \in Nat
           /\ p.flag = f
           /\ p.start = Start(Len(q), f)
           /\ p.indexEnd = IndexEnd(Len(q), f)
           /\ Len(p.patrn) = HalfLength(Len(q), f)
  BY HalfType DEF SubPatternOf

(* An entry of plist is a half of a pattern long enough to be split.       *)
LEMMA PlistFacts ==
    ASSUME NEW a \in Automata, NEW e \in DOMAIN a.plist
    PROVE  /\ a.plist[e].iid \in Halved(a)
           /\ a.plist[e].flag \in 0 .. 1
           /\ a.plist[e] = SubPatternOf(a.patterns[a.plist[e].iid], a.plist[e].iid, a.plist[e].flag)
<1> DEFINE split == [id \in Halved(a) |-> a.patterns[id]]
<1>1. /\ a.plist[e].iid \in Halved(a)
      /\ a.plist[e].flag \in {0, 1}
      /\ a.plist[e] = SubPatternOf(split[a.plist[e].iid], a.plist[e].iid, a.plist[e].flag)
  BY AutomataAssumption DEF HalvesOf
<1>2. split[a.plist[e].iid] = a.patterns[a.plist[e].iid]
  BY <1>1
<1>3. a.plist[e].flag \in 0 .. 1
  BY <1>1
<1>4. QED BY <1>1, <1>2, <1>3

LEMMA HalvedFacts ==
    ASSUME NEW a \in Automata, NEW id \in Halved(a)
    PROVE  /\ id \in DOMAIN a.patterns
           /\ a.patterns[id] \in Seq(Char)
           /\ Len(a.patterns[id]) \in Nat /\ Len(a.patterns[id]) >= 2
<1>1. id \in DOMAIN a.patterns /\ Len(a.patterns[id]) >= a.minLength
  BY DEF Halved
<1>2. a.minLength \in {2, 3} /\ a.patterns \in Seq(Seq(Char))
  BY AutomataAssumption
<1>3. a.patterns[id] \in Seq(Char)
  BY <1>1, <1>2
<1>4. Len(a.patterns[id]) \in Nat
  BY <1>3, LenType
<1>5. Len(a.patterns[id]) >= 2
  BY <1>1, <1>2, <1>4
<1>6. QED BY <1>1, <1>3, <1>4, <1>5

(* Both halves of such a pattern are there, each once.                     *)
LEMMA HalvesListed ==
    ASSUME NEW a \in Automata
    PROVE  /\ \A id \in Halved(a), f \in 0 .. 1 :
                \E e \in DOMAIN a.plist : a.plist[e].iid = id /\ a.plist[e].flag = f
           /\ \A d, e \in DOMAIN a.plist :
                a.plist[d].iid = a.plist[e].iid /\ a.plist[d].flag = a.plist[e].flag => d = e
<1> DEFINE split == [id \in Halved(a) |-> a.patterns[id]]
<1>1. HalvesOf(a.plist, split)
  BY AutomataAssumption
<1>2. \A id \in Halved(a) : split[id] = a.patterns[id] /\ Len(split[id]) >= 2
  BY HalvedFacts
<1>3. DOMAIN split = Halved(a)
  OBVIOUS
<1> HIDE DEF split
<1>4. ASSUME NEW id \in Halved(a), NEW f \in {0, 1}
      PROVE  \E e \in DOMAIN a.plist : a.plist[e].iid = id /\ a.plist[e].flag = f
  <2>1. id \in DOMAIN split /\ Len(split[id]) >= 2
    BY <1>2, <1>3
  <2>2. QED BY <1>1, <2>1 DEF HalvesOf
<1>5. \A d, e \in DOMAIN a.plist :
        a.plist[d].iid = a.plist[e].iid /\ a.plist[d].flag = a.plist[e].flag => d = e
  BY <1>1, Zenon DEF HalvesOf
<1>6. \A f \in 0 .. 1 : f \in {0, 1}
  OBVIOUS
<1>7. QED BY <1>4, <1>5, <1>6

(* A sub pattern in the list of a state: its numbers are those of the      *)
(* split, and its half is no longer than what the state spells.            *)
LEMMA EntryFacts ==
    ASSUME NEW a \in Automata, NEW s \in States(a), NEW j \in 1 .. Len(a.acsmMatchList[s]),
           NEW p, p = a.plist[a.acsmMatchList[s][j]]
    PROVE  /\ Len(p.origin) \in Nat /\ Len(p.origin) >= 2
           /\ p.flag \in 0 .. 1
           /\ p.start = Start(Len(p.origin), p.flag)
           /\ p.indexEnd = IndexEnd(Len(p.origin), p.flag)
           /\ HalfLength(Len(p.origin), p.flag) <= Len(a.label[s])
<1>1. PICK e \in DOMAIN a.plist : e = a.acsmMatchList[s][j]
  <2>1. a.acsmMatchList[s] \in Seq(DOMAIN a.plist)
    BY AutomatonFacts
  <2>2. QED BY <2>1
<1>2. PICK q : q = a.patterns[p.iid]
  OBVIOUS
<1>3. /\ p.iid \in Halved(a) /\ p.flag \in 0 .. 1
      /\ p = SubPatternOf(q, p.iid, p.flag)
  BY <1>1, <1>2, PlistFacts
<1>4. q \in Seq(Char) /\ Len(q) >= 2
  BY <1>2, <1>3, HalvedFacts
<1>5. EndsWith(a.label[s], p.patrn)
  <2>1. ListsSuffixes(a.acsmMatchList[s], a.plist, a.label[s])
    BY AutomatonFacts
  <2>2. \E i \in 1 .. Len(a.acsmMatchList[s]) : a.acsmMatchList[s][i] = e
    BY <1>1
  <2>3. QED BY <1>1, <2>1, <2>2 DEF ListsSuffixes
<1>6. Len(p.patrn) <= Len(a.label[s])
  BY <1>5 DEF EndsWith
<1>7. p.flag \in 0 .. 1
  BY <1>3
<1>8. /\ p.origin = q /\ Len(q) \in Nat
      /\ p.start = Start(Len(q), p.flag)
      /\ p.indexEnd = IndexEnd(Len(q), p.flag)
      /\ Len(p.patrn) = HalfLength(Len(q), p.flag)
  <2>1. PICK f, n : f = p.flag /\ n = p.iid
    OBVIOUS
  <2>2. p = SubPatternOf(q, n, f) /\ Len(q) >= 2 /\ f \in 0 .. 1
    BY <1>3, <1>4, <2>1
  <2>3. /\ p.origin = q /\ Len(q) \in Nat /\ p.flag = f
        /\ p.start = Start(Len(q), f) /\ p.indexEnd = IndexEnd(Len(q), f)
        /\ Len(p.patrn) = HalfLength(Len(q), f)
    <3> HIDE <1>3
    <3>1. QED BY <2>2, <1>4, HalfFacts
  <2>4. QED BY <2>1, <2>3
<1>9. QED BY <1>4, <1>6, <1>7, <1>8

-----------------------------------------------------------------------------
(* The invariant: the automaton has read one of two bytes, so a state that *)
(* spells k bytes is reached behind the first 2 * k bytes at the earliest. *)
NearInv ==
    /\ acsm \in Automata
    /\ text \in Texts
    /\ state \in States(acsm)
    /\ T \in Nat /\ T <= Tend + 1
    /\ mlist \in Nat /\ mlist >= 1
    /\ 2 * Len(acsm.label[state]) <= T

LEMMA NearInit == Init => NearInv
<1> SUFFICES ASSUME Init PROVE NearInv
  OBVIOUS
<1>1. acsm \in Automata /\ text \in Texts /\ T = 0 /\ state = 0 /\ mlist = 1
  BY DEF Init
<1>2. Len(text) \in Nat
  BY <1>1, TextFacts
<1>3. QED BY <1>1, <1>2, AutomatonFacts DEF NearInv, Tend

(* The step of the automaton: a state spells at most one byte more than    *)
(* the one before.                                                         *)
LEMMA NearTransition ==
    ASSUME NearInv, T < Tend, UNCHANGED <<acsm, text>>,
           state' = acsm.acsmNextState[state][At(text, T)], T' = T + 2,
           mlist' \in Nat, mlist' >= 1
    PROVE  NearInv'
<1> USE DEF NearInv
<1>1. At(text, T) \in Char /\ Tend \in Nat
  BY TextFacts DEF Tend
<1>2. state' \in States(acsm)
  BY <1>1, AutomatonFacts
<1>3. acsm.label[state] \in Seq(Char) /\ acsm.label[state'] \in Seq(Char)
  BY <1>2, AutomatonFacts
<1>4. IsLongestSuffix(acsm.label, state', Append(acsm.label[state], At(text, T)))
  BY <1>1, AutomatonFacts
<1>5. Len(acsm.label[state']) <= Len(acsm.label[state]) + 1
  BY <1>1, <1>3, <1>4 DEF IsLongestSuffix, EndsWith
<1>6. 2 * Len(acsm.label[state']) <= T + 2
  <2>1. Len(acsm.label[state']) \in Nat /\ Len(acsm.label[state]) \in Nat
    BY <1>3, LenType
  <2>2. 2 * Len(acsm.label[state]) <= T /\ T \in Nat
    OBVIOUS
  <2>3. QED BY <1>5, <2>1, <2>2, SMTT(40)
<1>7. T' \in Nat /\ T' <= Tend' + 1
  BY <1>1 DEF Tend
<1>8. QED BY <1>2, <1>6, <1>7

(* Everything else leaves the place in the text alone or goes back to the  *)
(* beginning.                                                              *)
LEMMA NearSamePlace ==
    ASSUME NearInv, UNCHANGED <<acsm, text, T, state>>, mlist' \in Nat, mlist' >= 1
    PROVE  NearInv'
  BY DEF NearInv, Tend

LEMMA NearStep == NearInv /\ [Next]_vars => NearInv'
<1> SUFFICES ASSUME NearInv, [Next]_vars PROVE NearInv'
  OBVIOUS
<1>0. /\ mlist \in Nat /\ mlist >= 1 /\ mlist + 1 \in Nat /\ mlist + 1 >= 1
      /\ Len(MatchList) + 1 \in Nat /\ Len(MatchList) + 1 >= 1
  <2>1. MatchList \in Seq(DOMAIN acsm.plist)
    BY AutomatonFacts DEF NearInv, MatchList
  <2>2. Len(MatchList) \in Nat
    BY <2>1
  <2>3. QED BY <2>2 DEF NearInv
<1>1. CASE postprocessor
  BY <1>0, <1>1, NearSamePlace DEF postprocessor, searchVars
<1>2. ASSUME NEW found, Visit(found) PROVE NearInv'
  BY <1>0, <1>2, NearSamePlace DEF Visit, searchVars
<1>3. ASSUME NEW found, NEW number, VisitAll(found, number) PROVE NearInv'
  BY <1>0, <1>3, NearSamePlace DEF VisitAll, searchVars
<1>4. CASE full_match \/ InlineMatch \/ fullMatchUsingLastCharHash \/ LastCharFilterInline
           \/ fullMatchFilterDigest
  BY <1>2, <1>4 DEF full_match, InlineMatch, fullMatchUsingLastCharHash, LastCharFilterInline,
     fullMatchFilterDigest
<1>5. CASE fullMatchCharTree \/ fullMatchBitmapTree
  BY <1>3, <1>5 DEF fullMatchCharTree, fullMatchBitmapTree, VisitTree
<1>6. CASE fullMatchTwiceOddEven
  BY <1>3, <1>6 DEF fullMatchTwiceOddEven
<1>7. CASE fullMatchSynthesis
  BY <1>2, <1>3, <1>7 DEF fullMatchSynthesis
<1>8. CASE CallMissing \/ CountIdMissing
  BY <1>0, <1>8, NearSamePlace DEF CallMissing, CountIdMissing, searchVars
<1>9. CASE LookUpSmall
  BY <1>0, <1>9, NearTransition DEF LookUpSmall, searchVars
<1>10. CASE fullMatchToQueue
  BY <1>0, <1>10, NearSamePlace DEF fullMatchToQueue, searchVars
<1>11. CASE Advance
  BY <1>0, <1>11, NearTransition DEF Advance, searchVars
<1>12. CASE EndOfText
  BY <1>0, <1>12, NearSamePlace DEF EndOfText, searchVars
<1>13. CASE CompareQueued
  BY <1>0, <1>13, NearSamePlace DEF CompareQueued, searchVars
<1>14. CASE EmptyQueue
  BY <1>0, <1>14, NearSamePlace DEF EmptyQueue, searchVars
<1>15. CASE NextRun
  <2>1. Len(text) \in Nat
    BY TextFacts DEF NearInv
  <2>2. QED BY <1>15, <2>1, AutomatonFacts DEF NextRun, searchVars, NearInv, Tend
<1>16. CASE UNCHANGED vars
  BY <1>0, <1>16, NearSamePlace DEF vars, searchVars
<1>17. QED
  BY <1>1, <1>4, <1>5, <1>6, <1>7, <1>8, <1>9, <1>10, <1>11, <1>12, <1>13, <1>14, <1>15, <1>16
  DEF Next, Done

-----------------------------------------------------------------------------
(* How far the numbers of a sub pattern reach, when its half has been read *)
(* before x: m is the length of the pattern, f the half.                   *)
LEMMA ReachOfHalf ==
    ASSUME NEW m \in Nat, m >= 2, NEW f \in 0 .. 1, NEW x \in Nat,
           2 * HalfLength(m, f) <= x
    PROVE  /\ x >= 2
           /\ x - Start(m, f) \in -1 .. x
           /\ IndexEnd(m, f) \in Nat
           /\ x - Start(m, f) + IndexEnd(m, f) <= x - 1
  BY DEF HalfLength, Start, IndexEnd, Same

(* The half that holds the last byte is no shorter than the other one,     *)
(* which in turn is at most one byte shorter.                              *)
LEMMA HalvesAlike ==
    ASSUME NEW m \in Nat, m >= 2, NEW f \in 0 .. 1
    PROVE  /\ HalfLength(m, f) \in Nat
           /\ f = Same(m) => 2 * HalfLength(m, 1 - f) <= 2 * HalfLength(m, f)
           /\ f # Same(m) => 2 * (HalfLength(m, 1 - f) - 1) <= 2 * HalfLength(m, f)
<1>1. CASE f = 0
  BY <1>1 DEF HalfLength, Same
<1>2. CASE f = 1
  BY <1>2 DEF HalfLength, Same
<1>3. QED BY <1>1, <1>2

(* How many bytes a full match compares.                                   *)
LEMMA RestCardinality ==
    ASSUME NEW h \in Nat, h >= 1, NEW f \in 0 .. 1
    PROVE  Cardinality(RestIndices(2 * h - 1 - f)) = h
<1> DEFINE e == 2 * h - 1 - f
           g == [j \in 1 .. h |-> e - 2 * (j - 1)]
<1>1. \A j \in 1 .. h : g[j] \in RestIndices(e)
  BY DEF RestIndices
<1>2. \A i, j \in 1 .. h : g[i] = g[j] => i = j
  OBVIOUS
<1>3. ASSUME NEW i \in RestIndices(e)
      PROVE  \E j \in 1 .. h : g[j] = i
  <2>1. i \in 0 .. e /\ (e - i) % 2 = 0
    BY <1>3 DEF RestIndices
  <2>2. (e - i) \div 2 + 1 \in 1 .. h /\ e - 2 * ((e - i) \div 2) = i
    BY <2>1
  <2>3. \A j \in 1 .. h : g[j] = e - 2 * (j - 1)
    OBVIOUS
  <2>4. PICK k \in Int : k = (e - i) \div 2
    BY <2>1
  <2>5. k + 1 \in 1 .. h /\ e - 2 * ((k + 1) - 1) = i
    BY <2>2, <2>4
  <2>6. QED BY <2>3, <2>5
<1>4. g \in Bijection(1 .. h, RestIndices(e))
  BY <1>1, <1>2, <1>3 DEF Bijection, Injection, Surjection, IsInjective
<1>5. ExistsBijection(1 .. h, RestIndices(e))
  BY <1>4 DEF ExistsBijection
<1>6. IsFiniteSet(1 .. h) /\ Cardinality(1 .. h) = h
  BY FS_Interval
<1>7. QED BY <1>5, <1>6, FS_Bijection

-----------------------------------------------------------------------------
(* The sub patterns of the current state.                                  *)

LEMMA OwnEntry ==
    ASSUME NearInv, NEW p \in Entries
    PROVE  /\ Len(p.origin) \in Nat /\ Len(p.origin) >= 2
           /\ p.flag \in 0 .. 1
           /\ p.start = Start(Len(p.origin), p.flag)
           /\ p.indexEnd = IndexEnd(Len(p.origin), p.flag)
           /\ 2 * HalfLength(Len(p.origin), p.flag) <= T
<1>1. acsm \in Automata /\ state \in States(acsm) /\ T \in Nat
      /\ 2 * Len(acsm.label[state]) <= T
  BY DEF NearInv
<1>2. acsm.acsmMatchList[state] \in Seq(DOMAIN acsm.plist)
  BY <1>1, AutomatonFacts
<1>3. PICK j \in 1 .. Len(acsm.acsmMatchList[state]) : p = acsm.plist[acsm.acsmMatchList[state][j]]
  BY <1>2 DEF Entries, EntriesOf
<1>4. /\ Len(p.origin) \in Nat /\ Len(p.origin) >= 2
      /\ p.flag \in 0 .. 1
      /\ p.start = Start(Len(p.origin), p.flag)
      /\ p.indexEnd = IndexEnd(Len(p.origin), p.flag)
      /\ HalfLength(Len(p.origin), p.flag) <= Len(acsm.label[state])
  BY <1>1, <1>3, EntryFacts
<1>5. Len(acsm.label[state]) \in Nat
  <2>1. acsm.label[state] \in Seq(Char)
    BY <1>1, AutomatonFacts
  <2>2. QED BY <2>1, LenType
<1>6. HalfLength(Len(p.origin), p.flag) \in Nat
  BY <1>4, SplitArithmetic
<1>7. QED BY <1>1, <1>4, <1>5, <1>6

(* The bytes a full match of p asks for.                                   *)
LEMMA OwnReach ==
    ASSUME NearInv, NEW p \in Entries
    PROVE  /\ T >= 2
           /\ \A i \in RestIndices(p.indexEnd) : T - p.start + i \in -1 .. T - 1
<1>1. T \in Nat
  BY DEF NearInv
<1>2. /\ T >= 2
      /\ T - p.start \in -1 .. T
      /\ p.indexEnd \in Nat
      /\ T - p.start + p.indexEnd <= T - 1
  BY <1>1, OwnEntry, ReachOfHalf
<1>3. ASSUME NEW i \in RestIndices(p.indexEnd)
      PROVE  T - p.start + i \in -1 .. T - 1
  <2>1. i \in 0 .. p.indexEnd
    BY DEF RestIndices
  <2>2. PICK d \in Int, ie \in Nat : d = T - p.start /\ ie = p.indexEnd
    BY <1>2
  <2>3. QED BY <1>1, <1>2, <2>1, <2>2
<1>4. QED BY <1>2, <1>3

(* The words of the tree are no longer than the half that has been read.   *)
LEMMA TreeWordShort ==
    ASSUME NearInv, NEW p \in Entries
    PROVE  /\ Len(TreeWord(p)) \in Nat /\ 2 * Len(TreeWord(p)) <= T
           /\ OtherLength(p) \in Nat /\ OtherLength(p) <= T + 1
<1>1. PICK m \in Nat, f \in 0 .. 1 :
        /\ m = Len(p.origin) /\ f = p.flag
        /\ m >= 2 /\ 2 * HalfLength(m, f) <= T
        /\ p.indexEnd = IndexEnd(m, f)
  BY OwnEntry
<1>2. PICK h \in Nat : h = HalfLength(m, 1 - f) /\ h >= 1
  <2>1. 1 - f \in 0 .. 1
    OBVIOUS
  <2>2. QED BY <1>1, <2>1, SplitArithmetic
<1>3. p.indexEnd = 2 * h - 1 - f
  BY <1>1, <1>2, SplitArithmetic
<1>4. OtherLength(p) = h
  BY <1>2, <1>3, RestCardinality DEF OtherLength
<1>5. Len(Reversed(p)) = h /\ Reversed(p) \in Seq({Reversed(p)[k] : k \in 1 .. h})
  BY <1>2, <1>4 DEF Reversed
<1>6. T \in Nat
  BY DEF NearInv
<1>7. CASE EndsHere(p)
  <2>1. f = Same(m)
    BY <1>1, <1>7 DEF EndsHere
  <2>2. 2 * h <= T
    BY <1>1, <1>2, <1>6, <2>1, HalvesAlike, SMTT(40)
  <2>3. QED BY <1>2, <1>4, <1>5, <1>6, <1>7, <2>2 DEF TreeWord
<1>8. CASE ~EndsHere(p)
  <2>1. f # Same(m)
    BY <1>1, <1>8 DEF EndsHere
  <2>2. 2 * (h - 1) <= T
    <3>1. PICK g \in Nat : g = HalfLength(m, f)
      BY <1>1, HalvesAlike
    <3>2. 2 * (h - 1) <= 2 * g
      BY <1>1, <1>2, <2>1, <3>1, HalvesAlike
    <3>3. QED BY <1>1, <1>6, <3>1, <3>2
  <2>3. Len(Tail(Reversed(p))) = h - 1
    BY <1>2, <1>5
  <2>4. QED BY <1>2, <1>4, <1>6, <1>8, <2>2, <2>3 DEF TreeWord
<1>9. QED BY <1>7, <1>8

LEMMA WalkShort ==
    ASSUME NearInv, NEW k \in PathLengths
    PROVE  k \in Nat /\ 2 * k <= T
<1>1. PICK node \in Nodes(Entries) : k = Len(node)
  BY DEF PathLengths
<1>2. T \in Nat
  BY DEF NearInv
<1>3. CASE node = << >>
  BY <1>1, <1>2, <1>3
<1>4. ASSUME NEW p \in Entries, NEW l \in 1 .. Len(TreeWord(p)), node = SubSeq(TreeWord(p), 1, l)
      PROVE  k \in Nat /\ 2 * k <= T
  <2>1. Len(TreeWord(p)) \in Nat /\ 2 * Len(TreeWord(p)) <= T
    BY TreeWordShort
  <2>2. Len(node) = l
    BY <1>4, <2>1
  <2>3. QED BY <1>1, <1>2, <2>1, <2>2
<1>5. QED BY <1>3, <1>4 DEF Nodes

-----------------------------------------------------------------------------
(* The longest other half of a list exists.                                *)
LEMMA LongestIsEntry ==
    ASSUME NearInv, Entries # {}
    PROVE  Longest(Entries) \in Entries
<1> DEFINE S == {OtherLength(p) : p \in Entries}
<1>1. T \in Nat
  BY DEF NearInv
<1>2. ASSUME NEW p \in Entries
      PROVE  OtherLength(p) \in Nat /\ OtherLength(p) <= T + 1
  BY TreeWordShort
<1>3. \E x \in S : \A y \in S : y <= x
  <2>1. S \subseteq Nat /\ S # {} /\ \A x \in S : x <= T + 1
    BY <1>2
  <2>2. T + 1 \in Nat
    BY <1>1
  <2> HIDE DEF S
  <2>3. QED BY <2>1, <2>2, LargestNumber
<1>4. \E p \in Entries : \A q \in Entries : OtherLength(q) <= OtherLength(p)
  BY <1>3
<1>5. QED BY <1>4 DEF Longest

-----------------------------------------------------------------------------
(* What one pass of a callback asks for.                                   *)

LEMMA NearAsked ==
    ASSUME NearInv, pc = "callback",
           IF mode = 9 THEN T < Tend ELSE mlist <= Len(MatchList)
    PROVE  Asked \subseteq (IF mode \in {1, 2, 12} THEN -MaxFront ELSE -1) .. Tend + Behind - 1
<1>1. T \in Nat /\ Tend \in Nat /\ T <= Tend + 1
  BY TextFacts DEF NearInv, Tend
<1>2. CASE mode = 9
  <2>1. Asked = T .. T + 2
    BY <1>2 DEF Asked
  <2>2. Behind = 2
    BY <1>2 DEF Behind
  <2>3. QED BY <1>1, <1>2, <2>1, <2>2
<1>3. ASSUME mode # 9
      PROVE  Entry \in Entries
  <2>1. acsm.acsmMatchList[state] \in Seq(DOMAIN acsm.plist)
    BY AutomatonFacts DEF NearInv
  <2>2. mlist \in 1 .. Len(acsm.acsmMatchList[state])
    <3>1. Len(acsm.acsmMatchList[state]) \in Nat
      BY <2>1, LenType
    <3>2. QED BY <1>3, <3>1 DEF NearInv, MatchList
  <2>3. mlist \in DOMAIN acsm.acsmMatchList[state]
    BY <2>1, <2>2
  <2>4. QED BY <2>3 DEF Entry, Entries, EntriesOf, MatchList
<1>4. ASSUME mode # 9
      PROVE  T >= 2 /\ Behind = 1
  BY <1>3, <1>4, OwnReach DEF Behind
<1>5. CASE mode \in {1, 2}
  <2>1. Asked = {T - 1} \cup {T - 3 - 2 * k : k \in PathLengths}
    BY <1>5 DEF Asked
  <2>2. ASSUME NEW k \in PathLengths
        PROVE  T - 3 - 2 * k \in -3 .. Tend
    BY <1>1, WalkShort
  <2>3. QED BY <1>1, <1>4, <1>5, <2>1, <2>2 DEF MaxFront
<1>6. CASE mode = 4
  <2>1. Asked = {T - 1 - 2 * k : k \in 0 .. Depth}
    BY <1>6 DEF Asked
  <2>2. Depth \in Nat /\ 2 * Depth <= T
    <3>1. acsm.label[state] \in Seq(Char) /\ 2 * Len(acsm.label[state]) <= T
      BY AutomatonFacts DEF NearInv
    <3>2. QED BY <3>1, LenType DEF Depth
  <2>3. ASSUME NEW k \in 0 .. Depth
        PROVE  T - 1 - 2 * k \in -1 .. Tend
    BY <1>1, <2>2
  <2>4. QED BY <1>1, <1>4, <1>6, <2>1, <2>3
<1>7. CASE mode = 6 /\ SuffixSubPattern(Entries)
  <2>1. Longest(Entries) \in Entries
    BY <1>3, <1>7, LongestIsEntry
  <2>2. PICK p \in Entries : p = Longest(Entries)
    BY <2>1
  <2>3. Asked = {T - p.start + i : i \in RestIndices(p.indexEnd)}
    BY <1>7, <2>2 DEF Asked
  <2>4. \A i \in RestIndices(p.indexEnd) : T - p.start + i \in -1 .. T - 1
    BY OwnReach
  <2>5. Asked \subseteq -1 .. Tend
    BY <1>1, <2>3, <2>4
  <2>6. QED BY <1>1, <1>4, <1>7, <2>5
<1>8. CASE mode \notin {1, 2, 4, 9} /\ ~(mode = 6 /\ SuffixSubPattern(Entries))
  <2>1. PICK p \in Entries : p = Entry
    BY <1>3, <1>8
  <2>2. Asked = {T - p.start + i : i \in RestIndices(p.indexEnd)}
                  \cup (IF mode = 12 THEN T - 5 .. T - 1 ELSE {})
    BY <1>8, <2>1 DEF Asked
  <2>3. \A i \in RestIndices(p.indexEnd) : T - p.start + i \in -1 .. T - 1
    BY OwnReach
  <2>4. {T - p.start + i : i \in RestIndices(p.indexEnd)} \subseteq -1 .. Tend
    BY <1>1, <2>3
  <2>5. CASE mode = 12
    BY <1>1, <1>4, <2>2, <2>4, <2>5 DEF MaxFront
  <2>6. CASE mode # 12
    BY <1>1, <1>4, <1>8, <2>2, <2>4, <2>6
  <2>7. QED BY <2>5, <2>6
<1>9. QED BY <1>2, <1>5, <1>6, <1>7, <1>8

(* Whatever the pattern file and the text: full_match and the callbacks    *)
(* like it (method_odd_even.c:81-93) read at most one byte in front of the *)
(* text and one behind it, the lookup of mode 9 (aho_corasick.c:1743-1745) *)
(* two behind it, the digests and the walks down the trees at most three   *)
(* in front of it.                                                         *)
THEOREM ReadsStayNearText == Spec => []StaysNearText
<1>1. Spec => []NearInv
  BY NearInit, NearStep, PTL DEF Spec
<1>2. NearInv => StaysNearText
  BY NearAsked DEF StaysNearText
<1>3. QED BY <1>1, <1>2, PTL

-----------------------------------------------------------------------------
(* Places.                                                                 *)

(* The pattern q stands at o, in the text and the memory next to it.       *)
Stands(q, o) == AllStands(q, Memory, Len(q), o + MaxFront)

(* Where T is when the other half of pattern id at o is compared.          *)
TurnOf(id, o) == o + Start(Len(acsm.patterns[id]), o % 2)

(* Half f of q stands in the bytes the automaton reads, two bytes before x. *)
HalfRead(q, f, x) == HalfStands(q, Memory, f, HalfLength(Len(q), f), x + MaxFront)

(* The places that reach the second phase.                                 *)
Seen ==
    {x \in Halved(acsm) \X (-1 .. Tend) :
        /\ TurnOf(x[1], x[2]) <= Tend + 1
        /\ HalfRead(acsm.patterns[x[1]], x[2] % 2, TurnOf(x[1], x[2]))}

(* The decision of fullMatchFilterDigest for p at x.                       *)
DigestAgrees(p, x) ==
    /\ filter(p) = Digest([k \in 1 .. DigestLength(p) |-> Byte(x - Offset(p) - (k - 1))])
    /\ Agree(p, x - p.start, RestIndices(p.indexEnd - 2))

(* What the automaton reads, as a text of its own.                         *)
EvenStream == [k \in 1 .. Tend + 1 |-> Byte(2 * k - 2)]

(* The state the automaton is in when T is x stands for a string of n bytes. *)
DepthAt(n, x) ==
    \E s \in States(acsm) :
        Reads(acsm.label, EvenStream, x \div 2, s) /\ n = Len(acsm.label[s])

(* Where mode 4 expects the other half of a misplaced pattern: two bytes   *)
(* before the place where it would have to end.                            *)
FoundEarly(id, o) ==
    \E n \in Nat :
        /\ DepthAt(n, TurnOf(id, o))
        /\ HalfLength(Len(acsm.patterns[id]), 1 - (o % 2)) <= n
        /\ HalfRead(acsm.patterns[id], 1 - (o % 2), TurnOf(id, o) - 1)

Accepted(id, o) ==
    IF mode = 12
    THEN DigestAgrees(SubPatternOf(acsm.patterns[id], id, o % 2), TurnOf(id, o))
    ELSE IF Misplaced(<<id, o>>) THEN FoundEarly(id, o)
    ELSE Stands(acsm.patterns[id], o)

(* Where the two tables of mode 9 find something.                          *)
SmallPlaces ==
    {x \in (DOMAIN acsm.patterns) \X (0 .. Tend) :
        /\ Len(acsm.patterns[x[1]]) \in 1 .. 2
        /\ x[2] - (x[2] % 2) < Tend
        /\ Stands(acsm.patterns[x[1]], x[2])}

(* What one search adds to hits.                                           *)
Total == IF mode = 9 THEN SmallPlaces ELSE {x \in Seen : Accepted(x[1], x[2])}

(* x has been compared: at an earlier T, or now, by an entry before mlist. *)
HadTurn(x) ==
    \/ TurnOf(x[1], x[2]) < T
    \/ /\ TurnOf(x[1], x[2]) = T
       /\ \E j \in 1 .. Len(MatchList) :
            /\ j < mlist
            /\ acsm.plist[MatchList[j]].iid = x[1]
            /\ acsm.plist[MatchList[j]].flag = x[2] % 2

Passed == {x \in Seen : HadTurn(x)}

(* The match list of the state holds entry e when T is x.                  *)
ListedAt(e, x) ==
    LET id == acsm.plist[e].iid
        f  == acsm.plist[e].flag
    IN  /\ 2 * HalfLength(Len(acsm.patterns[id]), f) <= x
        /\ HalfRead(acsm.patterns[id], f, x)

(* The second walk of mode 4 at x meets entry e behind its first byte, and *)
(* no entry of the list has set its mark.                                  *)
UnmarkedAt(e, x) ==
    /\ \E i \in DOMAIN acsm.plist : ListedAt(i, x)
    /\ \A i \in DOMAIN acsm.plist :
        ListedAt(i, x) /\ acsm.plist[i].iid = acsm.plist[e].iid
            => acsm.plist[i].flag = acsm.plist[e].flag
    /\ \E n \in Nat :
        /\ DepthAt(n, x)
        /\ acsm.plist[e] \in EntriesOf(acsm.acsmNextState[0][Byte(x - 1 - 2 * n)])

(* What one search adds to strays.                                         *)
AllStrays ==
    {x \in (DOMAIN acsm.plist) \X (0 .. Tend + 1) :
        mode = 4 /\ x[2] % 2 = 0 /\ UnmarkedAt(x[1], x[2])}

(* The list at x[2] has been settled. *)
StrayHadTurn(x) == x[2] < T \/ (x[2] = T /\ mlist > Len(MatchList))

(* What one search adds to foundCounter. *)
RunTotal == Cardinality(Total) + Cardinality(AllStrays)

-----------------------------------------------------------------------------
(* The inductive invariant.                                                *)

InputsKept ==
    /\ acsm \in Automata /\ text \in Texts /\ mode \in Modes
    /\ acsm.minLength = IF mode = 9 THEN 3 ELSE 2
    /\ before \in Fronts /\ after \in [1 .. Behind -> Char]

StreamTracked ==
    /\ T \in Nat /\ T % 2 = 0 /\ T <= Tend + 1
    /\ state \in States(acsm)
    /\ Reads(acsm.label, EvenStream, T \div 2, state)

(* A sequence of whatever. *)
IsSequence(s) == \E C : s \in Seq(C)

QueuePlace(j) == <<queue[j][1].iid, queue[j][2]>>

(* The queue holds an entry for each of the places, and for each only one. *)
QueueHolds(places) ==
    /\ {QueuePlace(j) : j \in 1 .. Len(queue)} = places
    /\ \A i, j \in 1 .. Len(queue) : QueuePlace(i) = QueuePlace(j) => i = j
    /\ \A j \in 1 .. Len(queue) :
        queue[j][1] = SubPatternOf(acsm.patterns[queue[j][1].iid], queue[j][1].iid, queue[j][2] % 2)

CallbackInv ==
    /\ mlist \in 1 .. Len(MatchList) + 1
    /\ mode \in {1, 2} => \A s \in States(acsm) : \A p \in EntriesOf(s) : ~ReverseCrashes(p)
    /\ foundCounter = run * RunTotal + Cardinality(hits) + Cardinality(strays)
    /\ strays = {x \in AllStrays : StrayHadTurn(x)}
    /\ IF mode = 9 THEN /\ mlist = 1
                        /\ \A x \in Seen : TurnOf(x[1], x[2]) >= T
                        /\ hits = {x \in Total : x[2] < T}
       ELSE IF mode = 14 THEN hits = {} /\ QueueHolds(Passed)
       ELSE hits = Total \cap Passed
    /\ mode # 14 => queue = << >>

QueueInv ==
    /\ mode = 14
    /\ mlist \in 1 .. Len(queue) + 1
    /\ foundCounter = run * RunTotal + Cardinality(hits) + Cardinality(strays)
    /\ strays = {}
    /\ QueueHolds(Seen)
    /\ hits = {QueuePlace(j) : j \in 1 .. mlist - 1} \cap Total

DoneInv ==
    /\ mode \in {1, 2} => \A s \in States(acsm) : \A p \in EntriesOf(s) : ~ReverseCrashes(p)
    /\ foundCounter = run * RunTotal
    /\ hits = Total /\ strays = AllStrays
    /\ mode = 9 => Seen = {}
    /\ queue = << >>

SearchInv ==
    /\ InputsKept
    /\ StreamTracked
    /\ run \in Nat
    /\ IsSequence(queue)
    /\ pc \in {"postprocess", "callback", "queue", "done", "crashed"}
    /\ pc = "postprocess" =>
         /\ T = 0 /\ state = 0 /\ mlist = 1 /\ queue = << >>
         /\ run = 0 /\ foundCounter = 0 /\ hits = {} /\ strays = {}
    /\ pc = "callback" => CallbackInv
    /\ pc = "queue" => QueueInv
    /\ pc = "done" => DoneInv

-----------------------------------------------------------------------------
(* The memory around the text.                                             *)

LEMMA ThreePieces ==
    ASSUME NEW C, NEW a \in Seq(C), NEW b \in Seq(C), NEW c \in Seq(C)
    PROVE  /\ a \o b \o c \in Seq(C)
           /\ Len(a \o b \o c) = Len(a) + Len(b) + Len(c)
           /\ \A i \in 1 .. Len(b) : (a \o b \o c)[Len(a) + i] = b[i]
<1>1. a \o b \in Seq(C) /\ Len(a \o b) = Len(a) + Len(b)
  OBVIOUS
<1>2. (a \o b) \o c \in Seq(C) /\ Len((a \o b) \o c) = Len(a \o b) + Len(c)
  BY <1>1
<1>3. ASSUME NEW i \in 1 .. Len(b)
      PROVE  (a \o b \o c)[Len(a) + i] = b[i]
  <2>1. Len(a) + i \in 1 .. Len(a \o b)
    BY <1>1
  <2>2. ((a \o b) \o c)[Len(a) + i] = (a \o b)[Len(a) + i]
    BY <1>1, <2>1
  <2>3. (a \o b)[Len(a) + i] = b[i]
    OBVIOUS
  <2>4. QED BY <2>2, <2>3
<1>4. QED BY <1>1, <1>2, <1>3

LEMMA MemoryFacts ==
    ASSUME InputsKept
    PROVE  /\ Tend \in Nat /\ Behind \in 1 .. 2
           /\ mode # 9 => Behind = 1
           /\ \A i \in 0 .. Tend - 1 : Byte(i) = At(text, i)
           /\ \A i \in -3 .. Tend + Behind - 1 : Byte(i) \in Char
<1>1. text \in Seq(Char) /\ Tend \in Nat /\ Len(text) = Tend
  BY TextFacts DEF InputsKept, Tend
<1>2. Behind \in 1 .. 2 /\ (mode # 9 => Behind = 1)
  BY DEF Behind
<1>3. before \in Seq(Char) /\ Len(before) = 3
  <2>1. before \in [1 .. 3 -> Char]
    BY FrontsAssumption DEF InputsKept, MaxFront
  <2>2. QED BY <2>1, SMTT(40)
<1>4. after \in Seq(Char) /\ Len(after) = Behind
  <2>1. after \in [1 .. Behind -> Char] /\ Behind \in Nat
    BY <1>2 DEF InputsKept
  <2>2. QED BY <2>1
<1>5. /\ Memory \in Seq(Char)
      /\ Len(Memory) = 3 + Tend + Behind
      /\ \A i \in 1 .. Tend : Memory[3 + i] = text[i]
  <2>1. /\ Memory \in Seq(Char)
        /\ Len(Memory) = Len(before) + Len(text) + Len(after)
        /\ \A i \in 1 .. Len(text) : Memory[Len(before) + i] = text[i]
    <3>1. PICK a \in Seq(Char), b \in Seq(Char), c \in Seq(Char) :
            a = before /\ b = text /\ c = after
      BY <1>1, <1>3, <1>4
    <3>2. /\ a \o b \o c \in Seq(Char)
          /\ Len(a \o b \o c) = Len(a) + Len(b) + Len(c)
          /\ \A i \in 1 .. Len(b) : (a \o b \o c)[Len(a) + i] = b[i]
      BY ThreePieces
    <3>3. Memory = a \o b \o c
      BY <3>1 DEF Memory
    <3>4. QED BY <3>1, <3>2, <3>3
  <2>2. QED BY <1>1, <1>3, <1>4, <2>1
<1>6. ASSUME NEW i \in 0 .. Tend - 1 PROVE Byte(i) = At(text, i)
  <2>1. i + 1 \in 1 .. Tend /\ i + 3 + 1 = 3 + (i + 1)
    BY <1>1
  <2>2. QED BY <1>5, <2>1 DEF Byte, At, MaxFront
<1>7. ASSUME NEW i \in -3 .. Tend + Behind - 1 PROVE Byte(i) \in Char
  <2>1. i + 3 + 1 \in 1 .. Len(Memory)
    BY <1>1, <1>2, <1>5
  <2>2. Memory[i + 3 + 1] \in Char
    BY <1>5, <2>1
  <2>3. QED BY <2>2 DEF Byte, At, MaxFront
<1>8. QED BY <1>1, <1>2, <1>6, <1>7

(* A half in every second byte of the memory, s the bytes from c + 2 on.   *)
LEMMA HalfOfStream ==
    ASSUME NEW q \in Seq(Char), Len(q) >= 2, NEW f \in 0 .. 1, NEW s, NEW n \in Nat, NEW c \in Int,
           \A k \in 1 .. n : s[k] = Byte(c + 2 * k), NEW x \in 0 .. n
    PROVE  PrefixEndsWith(s, x, Half(q, f))
           <=> HalfLength(Len(q), f) <= x /\ HalfRead(q, f, c + 2 * x + 2)
<1>1. PICK h \in Nat : h = HalfLength(Len(q), f)
  BY LenType, SplitArithmetic
<1>2. Len(Half(q, f)) = h /\ \A j \in 1 .. h : Half(q, f)[j] = At(q, 2 * j - 2 + f)
  BY <1>1, HalfType
<1>3. ASSUME h <= x, NEW j \in 1 .. h
      PROVE  s[x - h + j] = At(Memory, c + 2 * x + 2 + 3 - 2 - 2 * (h - j))
  <2>1. x - h + j \in 1 .. n
    BY <1>3
  <2>2. PICK k \in 1 .. n : k = x - h + j
    BY <2>1
  <2>3. c + 2 * x + 2 + 3 - 2 - 2 * (h - j) = c + 2 * k + 3
    BY <2>2
  <2>4. s[k] = At(Memory, c + 2 * k + 3)
    BY DEF Byte, MaxFront
  <2>5. QED BY <2>2, <2>3, <2>4
<1>4. PrefixEndsWith(s, x, Half(q, f))
      <=> /\ h <= x
          /\ \A j \in 1 .. h : At(q, 2 * j - 2 + f) = s[x - h + j]
  <2>1. ASSUME NEW w, Len(w) = h, \A j \in 1 .. h : w[j] = At(q, 2 * j - 2 + f)
        PROVE  PrefixEndsWith(s, x, w)
               <=> h <= x /\ \A j \in 1 .. h : At(q, 2 * j - 2 + f) = s[x - h + j]
    BY <2>1 DEF PrefixEndsWith
  <2>2. QED BY <1>2, <2>1
<1>5. HalfRead(q, f, c + 2 * x + 2)
      <=> \A j \in 1 .. h : At(q, 2 * j - 2 + f) = At(Memory, c + 2 * x + 2 + 3 - 2 - 2 * (h - j))
  BY <1>1, SMTT(40) DEF HalfRead, HalfStands, MaxFront
<1>6. QED BY <1>1, <1>3, <1>4, <1>5

(* What the full match compares, from the end of the other half.           *)
LEMMA RestFromEnd ==
    ASSUME NEW h \in Nat, NEW f \in 0 .. 1, NEW i
    PROVE  i \in RestIndices(2 * h - 1 - f) <=> \E k \in 1 .. h : i = 2 * h - 1 - f - 2 * (k - 1)
<1> DEFINE e == 2 * h - 1 - f
<1>1. ASSUME i \in RestIndices(e) PROVE \E k \in 1 .. h : i = e - 2 * (k - 1)
  <2>1. i \in 0 .. e /\ (e - i) % 2 = 0
    BY <1>1 DEF RestIndices
  <2>2. PICK k \in Int : k = (e - i) \div 2
    BY <2>1
  <2>3. k + 1 \in 1 .. h /\ i = e - 2 * ((k + 1) - 1)
    BY <2>1, <2>2
  <2>4. QED BY <2>3
<1>2. ASSUME NEW k \in 1 .. h, i = e - 2 * (k - 1) PROVE i \in RestIndices(e)
  BY <1>2 DEF RestIndices
<1>3. QED BY <1>1, <1>2

-----------------------------------------------------------------------------
(* The first phase: the state is where the bytes read so far lead.         *)

LEMMA SubPatternFields ==
    ASSUME NEW q, NEW n, NEW f
    PROVE  /\ SubPatternOf(q, n, f).iid = n
           /\ SubPatternOf(q, n, f).flag = f
           /\ SubPatternOf(q, n, f).origin = q
           /\ SubPatternOf(q, n, f).patrn = Half(q, f)
           /\ SubPatternOf(q, n, f).start = Start(Len(q), f)
           /\ SubPatternOf(q, n, f).indexEnd = IndexEnd(Len(q), f)
  BY DEF SubPatternOf

LEMMA StreamBegins ==
    ASSUME InputsKept
    PROVE  0 \in States(acsm) /\ Reads(acsm.label, EvenStream, 0, 0)
<1>1. /\ acsm.label \in [States(acsm) -> Seq(Char)] /\ 0 \in States(acsm)
      /\ IsTrie(acsm.label, acsm.plist)
  BY AutomatonFacts DEF InputsKept
<1>2. \A q \in DOMAIN acsm.label : Len(acsm.label[q]) \in Nat
  BY <1>1
<1>3. acsm.label[0] = << >>
  BY <1>1 DEF IsTrie
<1>4. QED BY <1>1, <1>2, <1>3, ReadsStart

LEMMA StreamGoesOn ==
    ASSUME InputsKept, StreamTracked, T < Tend,
           NEW n, n = acsm.acsmNextState[state][At(text, T)]
    PROVE  /\ T + 2 \in Nat /\ (T + 2) % 2 = 0 /\ T + 2 <= Tend + 1
           /\ n \in States(acsm)
           /\ Reads(acsm.label, EvenStream, (T + 2) \div 2, n)
<1>1. /\ acsm.label \in [States(acsm) -> Seq(Char)]
      /\ acsm.acsmNextState \in [States(acsm) -> [Char -> States(acsm)]]
      /\ IsTrie(acsm.label, acsm.plist)
      /\ \A s \in States(acsm), c \in Char :
           IsLongestSuffix(acsm.label, acsm.acsmNextState[s][c], Append(acsm.label[s], c))
  BY AutomatonFacts DEF InputsKept
<1>2. Tend \in Nat /\ At(text, T) \in Char
  BY TextFacts DEF InputsKept, StreamTracked, Tend
<1>3. PICK x \in Nat : x = T \div 2 /\ T = 2 * x /\ (T + 2) \div 2 = x + 1
  BY DEF StreamTracked
<1>4. At(EvenStream, x) = At(text, T)
  <2>1. x + 1 \in 1 .. Tend + 1 /\ 2 * (x + 1) - 2 = T
    BY <1>2, <1>3
  <2>2. EvenStream[x + 1] = Byte(T)
    BY <2>1 DEF EvenStream
  <2>3. Byte(T) = At(text, T)
    BY <1>2, MemoryFacts DEF StreamTracked
  <2>4. At(EvenStream, x) = EvenStream[x + 1]
    BY DEF At
  <2>5. QED BY <2>2, <2>3, <2>4
<1>5. state \in States(acsm) /\ n \in States(acsm)
  BY <1>1, <1>2 DEF StreamTracked
<1>6. IsLongestSuffix(acsm.label, n, Append(acsm.label[state], At(EvenStream, x)))
  BY <1>1, <1>2, <1>4, <1>5
<1>7. Reads(acsm.label, EvenStream, x, state)
  BY <1>3 DEF StreamTracked
<1>8. \A q \in States(acsm) : acsm.label[q] # << >> =>
        \E r \in States(acsm) : IsFrontOf(acsm.label[r], acsm.label[q])
  BY <1>1 DEF IsTrie
<1>9. Reads(acsm.label, EvenStream, x + 1, n)
  <2>1. At(EvenStream, x) \in Char
    BY <1>2, <1>4
  <2> HIDE <1>4
  <2>2. PICK label, strm : /\ label \in [States(acsm) -> Seq(Char)]
                           /\ label = acsm.label
                           /\ strm = EvenStream
    BY <1>1
  <2>3. QED BY <1>3, <1>5, <1>6, <1>7, <1>8, <2>1, <2>2, ReadsNext
<1>10. T + 2 \in Nat /\ (T + 2) % 2 = 0 /\ T + 2 <= Tend + 1
  BY <1>2 DEF StreamTracked
<1>11. QED BY <1>3, <1>5, <1>9, <1>10

(* The list of a state names exactly the halves that end two bytes before  *)
(* t, when it is the state the automaton reaches there.                    *)
LEMMA ListedInState ==
    ASSUME InputsKept, NEW t \in Nat, t % 2 = 0, t <= Tend + 1,
           NEW n \in States(acsm), Reads(acsm.label, EvenStream, t \div 2, n),
           NEW e \in DOMAIN acsm.plist
    PROVE  ListedAt(e, t)
           <=> \E j \in 1 .. Len(acsm.acsmMatchList[n]) : acsm.acsmMatchList[n][j] = e
<1>0. PICK id, f : id = acsm.plist[e].iid /\ f = acsm.plist[e].flag
  OBVIOUS
<1>1. /\ acsm \in Automata
      /\ acsm.label \in [States(acsm) -> Seq(Char)]
      /\ IsTrie(acsm.label, acsm.plist)
      /\ ListsSuffixes(acsm.acsmMatchList[n], acsm.plist, acsm.label[n])
  BY AutomatonFacts DEF InputsKept
<1>2. PICK q : q = acsm.patterns[id]
  OBVIOUS
<1>3. q \in Seq(Char) /\ Len(q) \in Nat /\ Len(q) >= 2 /\ f \in 0 .. 1
      /\ acsm.plist[e].patrn = Half(q, f)
  <2>1. id \in Halved(acsm) /\ f \in 0 .. 1 /\ acsm.plist[e] = SubPatternOf(q, id, f)
    BY <1>0, <1>1, <1>2, PlistFacts
  <2>2. q \in Seq(Char) /\ Len(q) \in Nat /\ Len(q) >= 2
    BY <1>1, <1>2, <2>1, HalvedFacts
  <2>3. QED BY <2>1, <2>2, SubPatternFields
<1>4. (\E j \in 1 .. Len(acsm.acsmMatchList[n]) : acsm.acsmMatchList[n][j] = e)
      <=> EndsWith(acsm.label[n], Half(q, f))
  BY <1>1, <1>3 DEF ListsSuffixes
<1>5. PICK x \in Nat : x = t \div 2 /\ t = 2 * x /\ x <= Tend + 1 /\ Tend \in Nat
  BY MemoryFacts
<1>6. PICK r \in States(acsm) : acsm.label[r] = Half(q, f)
  BY <1>1, <1>3 DEF IsTrie
<1>7. EndsWith(acsm.label[n], acsm.label[r]) <=> PrefixEndsWith(EvenStream, x, acsm.label[r])
  <2>1. \A s \in States(acsm) : Len(acsm.label[s]) \in Nat
    BY <1>1
  <2>2. DOMAIN acsm.label = States(acsm)
    BY <1>1
  <2>3. Reads(acsm.label, EvenStream, x, n)
    BY <1>5
  <2>4. QED BY <1>1, <1>5, <2>1, <2>2, <2>3, ReadsLists
<1>8. PrefixEndsWith(EvenStream, x, Half(q, f)) <=> HalfLength(Len(q), f) <= x /\ HalfRead(q, f, t)
  <2>1. PICK l, c, s : l \in Nat /\ c \in Int /\ l = Tend + 1 /\ c = -2 /\ s = EvenStream
    BY <1>5
  <2>2. \A k \in 1 .. l : s[k] = Byte(c + 2 * k)
    BY <2>1 DEF EvenStream
  <2>3. x \in 0 .. l /\ c + 2 * x + 2 = t
    BY <1>5, <2>1
  <2>4. l \in Nat /\ c \in Int
    BY <2>1
  <2>5. PrefixEndsWith(s, x, Half(q, f)) <=> HalfLength(Len(q), f) <= x /\ HalfRead(q, f, c + 2 * x + 2)
    BY <1>3, <2>2, <2>3, <2>4, HalfOfStream
  <2>6. QED BY <2>1, <2>3, <2>5
<1>9. HalfLength(Len(q), f) \in Nat
  BY <1>3, SplitArithmetic
<1>10. HalfLength(Len(q), f) <= x <=> 2 * HalfLength(Len(q), f) <= t
  BY <1>5, <1>9
<1>11. QED BY <1>0, <1>2, <1>4, <1>6, <1>7, <1>8, <1>10 DEF ListedAt

(* So of the list of the state the automaton is in.                        *)
LEMMA ListedNow ==
    ASSUME InputsKept, StreamTracked, NEW e \in DOMAIN acsm.plist
    PROVE  ListedAt(e, T) <=> \E j \in 1 .. Len(MatchList) : MatchList[j] = e
  BY ListedInState DEF StreamTracked, MatchList

LEMMA ListedWhenRead ==
    ASSUME InputsKept, StreamTracked, NEW e \in DOMAIN acsm.plist,
           NEW id, NEW f, id = acsm.plist[e].iid, f = acsm.plist[e].flag
    PROVE  (\E j \in 1 .. Len(MatchList) : MatchList[j] = e)
           <=> /\ 2 * HalfLength(Len(acsm.patterns[id]), f) <= T
               /\ HalfRead(acsm.patterns[id], f, T)
  BY ListedNow DEF ListedAt

-----------------------------------------------------------------------------
(* The entries of the match list and the places that have their turn.      *)

LEMMA TurnArithmetic ==
    ASSUME NEW m \in Nat, m >= 2, NEW o \in Int, o >= -1
    PROVE  /\ o % 2 \in 0 .. 1
           /\ o + Start(m, o % 2) \in Nat /\ (o + Start(m, o % 2)) % 2 = 0
           /\ 2 * HalfLength(m, o % 2) <= o + Start(m, o % 2)
           /\ o + m <= o + Start(m, o % 2)
<1>1. PICK f \in 0 .. 1 : f = o % 2
  OBVIOUS
<1>2. PICK h \in Nat : h = HalfLength(m, f)
  BY SplitArithmetic
<1>3. PICK st \in m .. m + 1 : st = Start(m, f) /\ st = 2 * h + f
  BY <1>2, SplitArithmetic, ZenonT(40)
<1>4. o + st \in Nat /\ (o + st) % 2 = 0 /\ 2 * h <= o + st /\ o + m <= o + st
  BY <1>1, <1>3
<1>5. QED BY <1>1, <1>2, <1>3, <1>4

LEMMA SeenFacts ==
    ASSUME InputsKept, NEW x \in Seen
    PROVE  /\ x = <<x[1], x[2]>> /\ x[1] \in Halved(acsm)
           /\ x[2] \in Int /\ x[2] \in -1 .. Tend /\ x[2] % 2 \in 0 .. 1
           /\ TurnOf(x[1], x[2]) \in Nat /\ TurnOf(x[1], x[2]) % 2 = 0
           /\ TurnOf(x[1], x[2]) <= Tend + 1
           /\ 2 * HalfLength(Len(acsm.patterns[x[1]]), x[2] % 2) <= TurnOf(x[1], x[2])
           /\ x[2] + Len(acsm.patterns[x[1]]) <= TurnOf(x[1], x[2])
           /\ HalfRead(acsm.patterns[x[1]], x[2] % 2, TurnOf(x[1], x[2]))
<1>1. /\ x = <<x[1], x[2]>> /\ x[1] \in Halved(acsm) /\ x[2] \in -1 .. Tend
      /\ TurnOf(x[1], x[2]) <= Tend + 1
      /\ HalfRead(acsm.patterns[x[1]], x[2] % 2, TurnOf(x[1], x[2]))
  BY DEF Seen
<1>2. Tend \in Nat
  BY MemoryFacts
<1>3. PICK m \in Nat, o \in Int : m = Len(acsm.patterns[x[1]]) /\ m >= 2 /\ o = x[2] /\ o >= -1
  BY <1>1, <1>2, HalvedFacts DEF InputsKept
<1>4. /\ o % 2 \in 0 .. 1
      /\ o + Start(m, o % 2) \in Nat /\ (o + Start(m, o % 2)) % 2 = 0
      /\ 2 * HalfLength(m, o % 2) <= o + Start(m, o % 2)
      /\ o + m <= o + Start(m, o % 2)
  BY <1>3, TurnArithmetic
<1>5. TurnOf(x[1], x[2]) = o + Start(m, o % 2)
  BY <1>3 DEF TurnOf
<1>6. QED BY <1>1, <1>3, <1>4, <1>5

LEMMA EntryIsPlace ==
    ASSUME InputsKept, StreamTracked, NEW j \in 1 .. Len(MatchList),
           NEW p, p = acsm.plist[MatchList[j]], NEW o, o = T - p.start
    PROVE  /\ p.iid \in Halved(acsm) /\ p.flag \in 0 .. 1
           /\ p = SubPatternOf(acsm.patterns[p.iid], p.iid, p.flag)
           /\ o \in Int /\ o % 2 = p.flag
           /\ TurnOf(p.iid, o) = T
           /\ <<p.iid, o>> \in Seen
<1>1. PICK e \in DOMAIN acsm.plist : e = MatchList[j]
  BY AutomatonFacts DEF InputsKept, StreamTracked, MatchList
<1>2. PICK id, f, q : id = p.iid /\ f = p.flag /\ q = acsm.patterns[id]
  OBVIOUS
<1>3. id \in Halved(acsm) /\ f \in 0 .. 1 /\ p = SubPatternOf(q, id, f)
  BY <1>1, <1>2, PlistFacts DEF InputsKept
<1>4. PICK m \in Nat : m = Len(q) /\ m >= 2
  BY <1>2, <1>3, HalvedFacts DEF InputsKept
<1>5. p.start = Start(m, f)
  BY <1>3, <1>4, SubPatternFields
<1>6. 2 * HalfLength(m, f) <= T /\ HalfRead(q, f, T)
  <2>1. \E i \in 1 .. Len(MatchList) : MatchList[i] = e
    BY <1>1
  <2>2. id = acsm.plist[e].iid /\ f = acsm.plist[e].flag
    BY <1>1, <1>2
  <2>3. QED BY <1>2, <1>4, <2>1, <2>2, ListedWhenRead
<1>7. T \in Nat /\ T % 2 = 0 /\ T <= Tend + 1 /\ Tend \in Nat
  BY MemoryFacts DEF StreamTracked
<1>8. o \in Int /\ o % 2 = f
  BY <1>4, <1>3, <1>5, <1>7, StartParity
<1>9. o \in -1 .. Tend
  <2>1. T - Start(m, f) \in -1 .. T
    BY <1>3, <1>4, <1>6, <1>7, ReachOfHalf
  <2>2. PICK st \in m .. m + 1 : st = Start(m, f)
    BY <1>3, <1>4, SplitArithmetic
  <2>3. QED BY <1>4, <1>5, <1>7, <2>1, <2>2, SMTT(40)
<1>10. TurnOf(id, o) = T
  <2>1. PICK st \in m .. m + 1 : st = Start(m, f)
    BY <1>3, <1>4, SplitArithmetic
  <2>2. TurnOf(id, o) = o + st
    BY <1>2, <1>4, <1>8, <2>1 DEF TurnOf
  <2>3. QED BY <1>5, <1>7, <2>1, <2>2
<1>11. <<id, o>> \in Seen
  <2>1. <<id, o>> \in Halved(acsm) \X (-1 .. Tend)
    BY <1>3, <1>9
  <2>2. TurnOf(id, o) <= Tend + 1 /\ HalfRead(acsm.patterns[id], o % 2, TurnOf(id, o))
    BY <1>2, <1>6, <1>7, <1>8, <1>10
  <2>3. QED BY <2>1, <2>2 DEF Seen
<1>12. QED BY <1>2, <1>3, <1>8, <1>10, <1>11

LEMMA PlaceIsListed ==
    ASSUME InputsKept, StreamTracked, NEW x \in Seen, TurnOf(x[1], x[2]) = T
    PROVE  \E j \in 1 .. Len(MatchList) :
             /\ acsm.plist[MatchList[j]].iid = x[1]
             /\ acsm.plist[MatchList[j]].flag = x[2] % 2
<1>1. /\ x[1] \in Halved(acsm) /\ x[2] % 2 \in 0 .. 1
      /\ 2 * HalfLength(Len(acsm.patterns[x[1]]), x[2] % 2) <= T
      /\ HalfRead(acsm.patterns[x[1]], x[2] % 2, T)
  BY SeenFacts
<1>2. PICK e \in DOMAIN acsm.plist : acsm.plist[e].iid = x[1] /\ acsm.plist[e].flag = x[2] % 2
  BY <1>1, HalvesListed DEF InputsKept
<1>3. PICK j \in 1 .. Len(MatchList) : MatchList[j] = e
  BY <1>1, <1>2, ListedWhenRead
<1>4. QED BY <1>2, <1>3

LEMMA ListedOnce ==
    ASSUME InputsKept, StreamTracked, NEW i \in 1 .. Len(MatchList), NEW j \in 1 .. Len(MatchList),
           acsm.plist[MatchList[i]].iid = acsm.plist[MatchList[j]].iid,
           acsm.plist[MatchList[i]].flag = acsm.plist[MatchList[j]].flag
    PROVE  i = j
<1>1. /\ acsm.acsmMatchList[state] \in Seq(DOMAIN acsm.plist)
      /\ ListsSuffixes(acsm.acsmMatchList[state], acsm.plist, acsm.label[state])
  BY AutomatonFacts DEF InputsKept, StreamTracked
<1>2. MatchList[i] \in DOMAIN acsm.plist /\ MatchList[j] \in DOMAIN acsm.plist
  BY <1>1 DEF MatchList
<1>3. MatchList[i] = MatchList[j]
  BY <1>2, HalvesListed DEF InputsKept
<1>4. QED BY <1>1, <1>3 DEF ListsSuffixes, MatchList

(* Two entries of one list that stand for the same place are the same.     *)
LEMMA PlaceListedOnce ==
    ASSUME InputsKept, StreamTracked, NEW i \in 1 .. Len(MatchList), NEW j \in 1 .. Len(MatchList),
           NEW p, p = acsm.plist[MatchList[i]], NEW q, q = acsm.plist[MatchList[j]],
           <<p.iid, T - p.start>> = <<q.iid, T - q.start>>
    PROVE  i = j /\ p = q
<1>1. p.iid = q.iid /\ T - p.start = T - q.start
  OBVIOUS
<1>2. (T - p.start) % 2 = p.flag /\ (T - q.start) % 2 = q.flag
  BY EntryIsPlace
<1>3. p.flag = q.flag
  BY <1>1, <1>2
<1>4. i = j
  BY <1>1, <1>3, ListedOnce
<1>5. QED BY <1>4

-----------------------------------------------------------------------------
(* The second phase: what comparing the other half decides.                *)

(* p is half f of pattern q, and T where its other half is compared.       *)
IsHalf(p, q, f) ==
    /\ q \in Seq(Char) /\ Len(q) \in Nat /\ Len(q) >= 2 /\ f \in 0 .. 1
    /\ p = SubPatternOf(q, p.iid, f)

LEMMA HalfNumbers ==
    ASSUME NEW p, NEW q, NEW f, IsHalf(p, q, f)
    PROVE  /\ p.origin = q /\ p.flag = f /\ p.patrn = Half(q, f)
           /\ p.start = Start(Len(q), f) /\ p.start \in Len(q) .. Len(q) + 1 /\ p.start \in Nat
           /\ p.indexEnd = IndexEnd(Len(q), f) /\ p.indexEnd \in Nat
           /\ HalfLength(Len(q), 1 - f) \in Nat /\ HalfLength(Len(q), 1 - f) >= 1
           /\ p.indexEnd = 2 * HalfLength(Len(q), 1 - f) - 1 - f
           /\ OtherLength(p) = HalfLength(Len(q), 1 - f)
<1>1. PICK m \in Nat, h \in Nat : m = Len(q) /\ m >= 2 /\ h = HalfLength(m, 1 - f) /\ h >= 1
  <2>1. 1 - f \in 0 .. 1
    BY DEF IsHalf
  <2>2. QED BY <2>1, SplitArithmetic DEF IsHalf
<1>2. /\ p.origin = q /\ p.flag = f /\ p.patrn = Half(q, f)
      /\ p.start = Start(m, f) /\ p.indexEnd = IndexEnd(m, f)
  <2>1. PICK n : n = p.iid
    OBVIOUS
  <2>2. p = SubPatternOf(q, n, f)
    BY <2>1 DEF IsHalf
  <2>3. QED BY <1>1, <2>2, SubPatternFields
<1>3. /\ Start(m, f) \in m .. m + 1 /\ IndexEnd(m, f) = 2 * h - 1 - f /\ IndexEnd(m, f) \in m - 2 .. m - 1
  BY <1>1, SplitArithmetic DEF IsHalf
<1>4. OtherLength(p) = h
  <2>1. f \in 0 .. 1
    BY DEF IsHalf
  <2>2. Cardinality(RestIndices(2 * h - 1 - f)) = h
    BY <1>1, <2>1, RestCardinality
  <2>3. QED BY <1>2, <1>3, <2>2 DEF OtherLength
<1>5. p.start \in Nat /\ p.indexEnd \in Nat
  BY <1>1, <1>2, <1>3
<1>6. QED BY <1>1, <1>2, <1>3, <1>4, <1>5

LEMMA EntryIsHalf ==
    ASSUME InputsKept, NEW p, p.iid \in Halved(acsm), p.flag \in 0 .. 1,
           p = SubPatternOf(acsm.patterns[p.iid], p.iid, p.flag)
    PROVE  IsHalf(p, acsm.patterns[p.iid], p.flag)
<1>1. PICK id, f, q : id = p.iid /\ f = p.flag /\ q = acsm.patterns[id]
  OBVIOUS
<1>2. q \in Seq(Char) /\ Len(q) \in Nat /\ Len(q) >= 2
  BY <1>1, HalvedFacts DEF InputsKept
<1>3. QED BY <1>1, <1>2 DEF IsHalf

(* Once a half has been read, the full match decides the whole pattern.    *)
LEMMA FullMatchDecides ==
    ASSUME NEW p, NEW q, NEW f, IsHalf(p, q, f), NEW x \in Nat, HalfRead(q, f, x)
    PROVE  Agree(p, x - p.start, RestIndices(p.indexEnd)) <=> Stands(q, x - p.start)
<1>1. PICK m \in Nat, h \in Nat, ie \in Nat, st \in Nat :
        /\ m = Len(q) /\ m >= 2 /\ h = HalfLength(m, f)
        /\ ie = p.indexEnd /\ ie = IndexEnd(m, f) /\ st = p.start /\ st = Start(m, f)
  <2>1. Len(q) \in Nat /\ Len(q) >= 2 /\ f \in 0 .. 1
    BY DEF IsHalf
  <2>2. HalfLength(Len(q), f) \in Nat
    BY <2>1, SplitArithmetic
  <2>3. /\ p.indexEnd \in Nat /\ p.indexEnd = IndexEnd(Len(q), f)
        /\ p.start \in Nat /\ p.start = Start(Len(q), f)
    BY HalfNumbers
  <2>4. QED BY <2>1, <2>2, <2>3
<1>2. f \in 0 .. 1 /\ p.origin = q
  BY HalfNumbers DEF IsHalf
<1>3. st = 2 * h + f /\ ie \in m - 2 .. m - 1
  <2>1. Start(m, f) = 2 * HalfLength(m, f) + f /\ IndexEnd(m, f) \in m - 2 .. m - 1
    <3>1. m >= 2
      BY <1>1
    <3>2. QED BY <1>2, <3>1, SplitArithmetic
  <2>2. QED BY <1>1, <2>1
<1>4. Cover(m, f, h, ie)
  BY <1>1, <1>2, HalvesCover DEF Cover
<1>5. HalfStands(q, Memory, f, h, x + 3)
  BY <1>1 DEF HalfRead, MaxFront
<1>6. OtherHalfStands(q, Memory, ie, (x + 3) - (2 * h + f)) <=> AllStands(q, Memory, m, (x + 3) - (2 * h + f))
  <2>1. x + 3 \in Nat
    OBVIOUS
  <2>2. QED BY <1>2, <1>3, <1>4, <1>5, <2>1, BytesAgree
<1>7. (x + 3) - (2 * h + f) = (x - st) + 3
  BY <1>2, <1>3
<1>8. Agree(p, x - st, RestIndices(ie)) <=> OtherHalfStands(q, Memory, ie, (x - st) + 3)
  <2>1. ASSUME NEW i \in RestIndices(ie) PROVE Byte(x - st + i) = At(Memory, (x - st) + 3 + i)
    <3>1. i \in Int /\ x - st + i + 3 = (x - st) + 3 + i
      BY DEF RestIndices
    <3>2. QED BY <3>1 DEF Byte, MaxFront
  <2>2. QED BY <1>2, <2>1 DEF Agree, OtherHalfStands
<1>9. Stands(q, x - st) <=> AllStands(q, Memory, m, (x - st) + 3)
  BY <1>1 DEF Stands, MaxFront
<1>10. QED BY <1>1, <1>6, <1>7, <1>8, <1>9

(* The same comparison from the end of the other half.                     *)
LEMMA AgreeFromEnd ==
    ASSUME NEW p, NEW q, NEW f, IsHalf(p, q, f), NEW x \in Nat
    PROVE  Agree(p, x - p.start, RestIndices(p.indexEnd))
           <=> \A k \in 1 .. OtherLength(p) : OtherFromEnd(p, k) = Byte(x - Offset(p) - 2 * (k - 1))
<1>1. PICK h \in Nat, ie \in Nat, st \in Nat :
        /\ h = OtherLength(p) /\ ie = p.indexEnd /\ st = p.start /\ ie = 2 * h - 1 - f
  BY HalfNumbers
<1>2. f \in 0 .. 1
  BY DEF IsHalf
<1>3. \A i : i \in RestIndices(ie) <=> \E k \in 1 .. h : i = ie - 2 * (k - 1)
  <2>1. \A i : i \in RestIndices(2 * h - 1 - f) <=> \E k \in 1 .. h : i = 2 * h - 1 - f - 2 * (k - 1)
    BY <1>2, RestFromEnd
  <2>2. 2 * h - 1 - f = ie
    BY <1>1
  <2>3. QED BY <2>1, <2>2
<1>4. ASSUME NEW k \in 1 .. h
      PROVE  /\ OtherFromEnd(p, k) = At(p.origin, ie - 2 * (k - 1))
             /\ Byte(x - Offset(p) - 2 * (k - 1)) = Byte(x - st + (ie - 2 * (k - 1)))
  <2>1. x - (st - ie) - 2 * (k - 1) = x - st + (ie - 2 * (k - 1))
    OBVIOUS
  <2>2. QED BY <1>1, <2>1 DEF OtherFromEnd, Offset
<1>5. QED BY <1>1, <1>3, <1>4 DEF Agree

(* The last byte first, and the others when it agrees.                     *)
LEMMA LastByteFirst ==
    ASSUME NEW p, NEW q, NEW f, IsHalf(p, q, f), NEW x \in Nat
    PROVE  Agree(p, x - p.start, RestIndices(p.indexEnd))
           <=> /\ OtherFromEnd(p, 1) = Byte(x - Offset(p))
               /\ Agree(p, x - p.start, RestIndices(p.indexEnd - 2))
<1>1. PICK ie \in Nat, st \in Nat : ie = p.indexEnd /\ st = p.start
  BY HalfNumbers
<1>2. \A i : i \in RestIndices(ie) <=> i = ie \/ i \in RestIndices(ie - 2)
  <2>1. ASSUME NEW i \in RestIndices(ie), i # ie PROVE i \in RestIndices(ie - 2)
    BY <2>1 DEF RestIndices
  <2>2. ie \in RestIndices(ie)
    BY DEF RestIndices
  <2>3. ASSUME NEW i \in RestIndices(ie - 2) PROVE i \in RestIndices(ie)
    <3>1. i \in 0 .. ie - 2 /\ ((ie - 2) - i) % 2 = 0
      BY DEF RestIndices
    <3>2. i \in 0 .. ie /\ (ie - i) % 2 = 0
      BY <3>1
    <3>3. QED BY <3>2 DEF RestIndices
  <2>4. QED BY <2>1, <2>2, <2>3
<1>3. OtherFromEnd(p, 1) = At(p.origin, ie) /\ Byte(x - Offset(p)) = Byte(x - st + ie)
  <2>1. ie - 2 * (1 - 1) = ie /\ x - (st - ie) = x - st + ie
    OBVIOUS
  <2>2. QED BY <1>1, <2>1 DEF OtherFromEnd, Offset
<1>4. QED BY <1>1, <1>2, <1>3 DEF Agree

(* How far behind the last byte of the other half T is.                    *)
LEMMA OffsetValue ==
    ASSUME NEW p, NEW q, NEW f, IsHalf(p, q, f)
    PROVE  Offset(p) = IF EndsHere(p) THEN 3 ELSE 1
<1>1. PICK m \in Nat : m = Len(q) /\ m >= 2
  BY DEF IsHalf
<1>2. f \in 0 .. 1 /\ p.origin = q /\ p.flag = f /\ p.start = Start(m, f) /\ p.indexEnd = IndexEnd(m, f)
  BY <1>1, HalfNumbers DEF IsHalf
<1>3. Start(m, f) - IndexEnd(m, f) = IF f = Same(m) THEN 3 ELSE 1
  <2>1. PICK b \in 0 .. 1 : b = Same(m)
    BY DEF Same
  <2>2. Start(m, f) = IF f = b THEN m + 1 ELSE m
    BY <2>1 DEF Start
  <2>3. IndexEnd(m, f) = IF f = 0 THEN m + b - 2 ELSE m - b - 1
    BY <2>1 DEF IndexEnd
  <2>4. QED BY <1>1, <1>2, <2>1, <2>2, <2>3
<1>4. QED BY <1>1, <1>2, <1>3 DEF Offset, EndsHere

(* The places mode 4 looks for in the wrong place are those of the short   *)
(* patterns whose other half ends behind the half that is read.            *)
LEMMA MisplacedEntry ==
    ASSUME NEW p, NEW q, NEW f, IsHalf(p, q, f), q = acsm.patterns[p.iid],
           T \in Nat, T % 2 = 0
    PROVE  Misplaced(<<p.iid, T - p.start>>) <=> mode = 4 /\ Len(p.origin) < 4 /\ ~EndsHere(p)
<1>1. PICK m \in Nat : m = Len(q) /\ m >= 2
  BY DEF IsHalf
<1>2. f \in 0 .. 1 /\ p.origin = q /\ p.flag = f /\ p.start = Start(m, f)
  <2>1. f \in 0 .. 1 /\ q \in Seq(Char) /\ Len(q) >= 2 /\ p = SubPatternOf(q, p.iid, f)
    BY DEF IsHalf
  <2>2. QED BY <1>1, <2>1, HalfFacts
<1>3. PICK b \in 0 .. 1 : b = Same(m)
  BY DEF Same
<1>4. Start(m, f) = IF f = b THEN m + 1 ELSE m
  BY <1>3 DEF Start
<1>5. (T - Start(m, f)) + m = IF f = b THEN T - 1 ELSE T
  BY <1>1, <1>2, <1>3, <1>4
<1>6. ((T - Start(m, f)) + m) % 2 = 0 <=> f # b
  BY <1>2, <1>3, <1>5
<1>7. EndsHere(p) <=> f = b
  BY <1>1, <1>2, <1>3 DEF EndsHere
<1>8. QED BY <1>1, <1>2, <1>6, <1>7 DEF Misplaced

-----------------------------------------------------------------------------
(* What the callbacks that go through the list decide for an entry.        *)

LEMMA EntryDecided ==
    ASSUME InputsKept, StreamTracked, NEW j \in 1 .. Len(MatchList),
           NEW p, p = acsm.plist[MatchList[j]]
    PROVE  /\ IsHalf(p, acsm.patterns[p.iid], p.flag)
           /\ HalfRead(acsm.patterns[p.iid], p.flag, T)
           /\ Agree(p, T - p.start, RestIndices(p.indexEnd)) <=> Stands(acsm.patterns[p.iid], T - p.start)
           /\ mode = 12 => (Accepted(p.iid, T - p.start) <=> DigestAgrees(p, T))
           /\ mode # 12 /\ ~Misplaced(<<p.iid, T - p.start>>)
                => (Accepted(p.iid, T - p.start) <=> Agree(p, T - p.start, RestIndices(p.indexEnd)))
<1>1. PICK id, f, q, o : id = p.iid /\ f = p.flag /\ q = acsm.patterns[id] /\ o = T - p.start
  OBVIOUS
<1>2. /\ id \in Halved(acsm) /\ f \in 0 .. 1 /\ p = SubPatternOf(q, id, f)
      /\ o \in Int /\ o % 2 = f /\ TurnOf(id, o) = T /\ <<id, o>> \in Seen
  BY <1>1, EntryIsPlace
<1>3. IsHalf(p, q, f)
  BY <1>1, <1>2, EntryIsHalf
<1>4. HalfRead(q, f, T)
  BY <1>1, <1>2, SeenFacts
<1>5. Agree(p, o, RestIndices(p.indexEnd)) <=> Stands(q, o)
  <2>1. T \in Nat
    BY DEF StreamTracked
  <2>2. Agree(p, T - p.start, RestIndices(p.indexEnd)) <=> Stands(q, T - p.start)
    BY <1>3, <1>4, <2>1, FullMatchDecides
  <2>3. QED BY <1>1, <2>2
<1>6. ASSUME mode = 12 PROVE Accepted(id, o) <=> DigestAgrees(p, T)
  BY <1>1, <1>2, <1>6 DEF Accepted
<1>7. ASSUME mode # 12, ~Misplaced(<<id, o>>)
      PROVE  Accepted(id, o) <=> Agree(p, o, RestIndices(p.indexEnd))
  BY <1>1, <1>5, <1>7 DEF Accepted
<1>8. QED BY <1>1, <1>3, <1>4, <1>5, <1>6, <1>7

LEMMA VisitDecides ==
    ASSUME InputsKept, StreamTracked, mlist \in 1 .. Len(MatchList)
    PROVE  /\ mode \notin {4, 12} => (FullMatch <=> Accepted(Entry.iid, T - Entry.start))
           /\ mode \notin {4, 12} => (LastCharMatch <=> Accepted(Entry.iid, T - Entry.start))
           /\ mode = 12 => (filter(Entry) = digest(Entry) /\ AllButLast
                            <=> Accepted(Entry.iid, T - Entry.start))
<1>1. PICK p : p = Entry /\ p = acsm.plist[MatchList[mlist]]
  BY DEF Entry
<1>2. PICK q, f : q = acsm.patterns[p.iid] /\ f = p.flag
  OBVIOUS
<1>3. /\ IsHalf(p, q, f)
      /\ mode = 12 => (Accepted(p.iid, T - p.start) <=> DigestAgrees(p, T))
      /\ mode \notin {4, 12} => (Accepted(p.iid, T - p.start) <=> Agree(p, T - p.start, RestIndices(p.indexEnd)))
  BY <1>1, <1>2, EntryDecided DEF Misplaced
<1>4. FullMatch <=> Agree(p, T - p.start, RestIndices(p.indexEnd))
  BY <1>1 DEF FullMatch
<1>5. LastCharMatch <=> Agree(p, T - p.start, RestIndices(p.indexEnd))
  <2>1. T \in Nat
    BY DEF StreamTracked
  <2>2. Agree(p, T - p.start, RestIndices(p.indexEnd))
        <=> /\ OtherFromEnd(p, 1) = Byte(T - Offset(p))
            /\ Agree(p, T - p.start, RestIndices(p.indexEnd - 2))
    BY <1>3, <2>1, LastByteFirst
  <2>3. QED BY <1>1, <2>2 DEF LastCharMatch, AllButLast
<1>6. filter(Entry) = digest(Entry) /\ AllButLast <=> DigestAgrees(p, T)
  BY <1>1 DEF AllButLast, DigestAgrees, digest
<1>7. QED BY <1>1, <1>3, <1>4, <1>5, <1>6

-----------------------------------------------------------------------------
(* What depends on the inputs alone.                                       *)

LEMMA PlacesKept ==
    ASSUME UNCHANGED searchVars
    PROVE  /\ Memory' = Memory /\ Tend' = Tend
           /\ Seen' = Seen /\ Total' = Total /\ AllStrays' = AllStrays /\ RunTotal' = RunTotal
           /\ \A x : TurnOf(x[1], x[2])' = TurnOf(x[1], x[2])
           /\ InputsKept => InputsKept'
<1>1. /\ acsm' = acsm /\ text' = text /\ before' = before /\ after' = after /\ mode' = mode
  BY DEF searchVars
<1>2. Memory' = Memory /\ Tend' = Tend /\ Behind' = Behind
  BY <1>1 DEF Memory, Tend, Behind
<1>3. ASSUME NEW i PROVE Byte(i)' = Byte(i)
  BY <1>2 DEF Byte
<1>4. ASSUME NEW x PROVE TurnOf(x[1], x[2])' = TurnOf(x[1], x[2])
  BY <1>1 DEF TurnOf
<1>5. ASSUME NEW q, NEW f, NEW x PROVE HalfRead(q, f, x)' = HalfRead(q, f, x)
  BY <1>2 DEF HalfRead
<1>6. ASSUME NEW q, NEW o PROVE Stands(q, o)' = Stands(q, o)
  BY <1>2 DEF Stands
<1>7. Seen' = Seen
  BY <1>1, <1>2 DEF Seen, TurnOf, HalfRead
<1>8. SmallPlaces' = SmallPlaces
  BY <1>1, <1>2 DEF SmallPlaces, Stands
<1>9. ASSUME NEW n, NEW x PROVE DepthAt(n, x)' = DepthAt(n, x)
  BY <1>1, <1>2 DEF DepthAt, EvenStream, Byte
<1>10. ASSUME NEW id, NEW o PROVE FoundEarly(id, o)' = FoundEarly(id, o)
  BY <1>1, <1>5, <1>9 DEF FoundEarly, TurnOf
<1>11. ASSUME NEW id, NEW o
       PROVE  DigestAgrees(SubPatternOf(acsm.patterns[id], id, o % 2), TurnOf(id, o))'
              = DigestAgrees(SubPatternOf(acsm.patterns[id], id, o % 2), TurnOf(id, o))
  BY <1>1, <1>2, Zenon DEF DigestAgrees, Byte, Agree, TurnOf
<1>12. ASSUME NEW id, NEW o PROVE Accepted(id, o)' = Accepted(id, o)
  BY <1>1, <1>6, <1>10, <1>11 DEF Accepted, Misplaced
<1>13. Total' = Total
  BY <1>1, <1>2, <1>7, <1>8, <1>12 DEF Total
<1>14. ASSUME NEW e, NEW x PROVE UnmarkedAt(e, x)' = UnmarkedAt(e, x)
  <2>1. ASSUME NEW i PROVE ListedAt(i, x)' = ListedAt(i, x)
    BY <1>1, <1>5 DEF ListedAt
  <2>2. ASSUME NEW n
        PROVE  EntriesOf(acsm.acsmNextState[0][Byte(x - 1 - 2 * n)])'
               = EntriesOf(acsm.acsmNextState[0][Byte(x - 1 - 2 * n)])
    BY <1>1, <1>3 DEF EntriesOf
  <2>3. QED BY <1>1, <1>9, <2>1, <2>2 DEF UnmarkedAt
<1>15. AllStrays' = AllStrays
  BY <1>1, <1>2, <1>14 DEF AllStrays
<1>16. RunTotal' = RunTotal
  BY <1>13, <1>15 DEF RunTotal
<1>17. InputsKept => InputsKept'
  BY <1>1, <1>2 DEF InputsKept
<1>18. QED BY <1>2, <1>4, <1>7, <1>13, <1>15, <1>16, <1>17

(* There are as many sub patterns as pairs of a pattern and a half.        *)
LEMMA PlistFinite ==
    ASSUME InputsKept, IsFiniteSet(DOMAIN acsm.patterns)
    PROVE  IsFiniteSet(DOMAIN acsm.plist)
<1> DEFINE halves == {x \in (DOMAIN acsm.patterns) \X (0 .. 1) :
                        \E e \in DOMAIN acsm.plist :
                            acsm.plist[e].iid = x[1] /\ acsm.plist[e].flag = x[2]}
           entry == [x \in halves |-> CHOOSE e \in DOMAIN acsm.plist :
                        acsm.plist[e].iid = x[1] /\ acsm.plist[e].flag = x[2]]
<1>1. IsFiniteSet(halves)
  <2>1. IsFiniteSet(0 .. 1)
    <3>1. 0 \in Int /\ 1 \in Int
      OBVIOUS
    <3>2. QED BY <3>1, FS_Interval, Zenon
  <2>2. IsFiniteSet((DOMAIN acsm.patterns) \X (0 .. 1))
    BY <2>1, FS_Product
  <2>3. QED BY <2>2, FS_Subset
<1>2. ASSUME NEW x \in halves
      PROVE  /\ entry[x] \in DOMAIN acsm.plist
             /\ acsm.plist[entry[x]].iid = x[1] /\ acsm.plist[entry[x]].flag = x[2]
  OBVIOUS
<1>3. ASSUME NEW e \in DOMAIN acsm.plist PROVE \E x \in halves : entry[x] = e
  <2>1. acsm.plist[e].iid \in DOMAIN acsm.patterns /\ acsm.plist[e].flag \in 0 .. 1
    BY PlistFacts, HalvedFacts DEF InputsKept
  <2>2. PICK x \in halves : x = <<acsm.plist[e].iid, acsm.plist[e].flag>>
    BY <2>1
  <2>3. entry[x] \in DOMAIN acsm.plist /\ acsm.plist[entry[x]].iid = acsm.plist[e].iid
        /\ acsm.plist[entry[x]].flag = acsm.plist[e].flag
    BY <1>2, <2>2
  <2>4. QED BY <2>2, <2>3, HalvesListed DEF InputsKept
<1>4. entry \in [halves -> DOMAIN acsm.plist]
  BY <1>2
<1>5. entry \in Surjection(halves, DOMAIN acsm.plist)
  <2> HIDE DEF entry
  <2>1. QED BY <1>3, <1>4 DEF Surjection
<1>6. QED BY <1>1, <1>5, FS_Surjection

LEMMA PlacesFinite ==
    ASSUME InputsKept
    PROVE  IsFiniteSet(Seen) /\ IsFiniteSet(Total) /\ IsFiniteSet(AllStrays)
<1>1. Tend \in Nat
  BY MemoryFacts
<1>2. IsFiniteSet(DOMAIN acsm.patterns)
  <2>1. PICK q \in Seq(Seq(Char)) : q = acsm.patterns
    BY AutomatonFacts DEF InputsKept
  <2>2. DOMAIN q = 1 .. Len(q) /\ Len(q) \in Nat
    OBVIOUS
  <2>3. IsFiniteSet(1 .. Len(q))
    BY <2>2, FS_Interval
  <2>4. QED BY <2>1, <2>2, <2>3
<1>3. IsFiniteSet(-1 .. Tend)
  BY <1>1, FS_Interval
<1>4. IsFiniteSet((DOMAIN acsm.patterns) \X (-1 .. Tend))
  BY <1>2, <1>3, FS_Product
<1>5. Seen \subseteq (DOMAIN acsm.patterns) \X (-1 .. Tend)
  BY DEF Seen, Halved
<1>6. SmallPlaces \subseteq (DOMAIN acsm.patterns) \X (-1 .. Tend)
  <2>1. 0 .. Tend \subseteq -1 .. Tend
    BY <1>1
  <2>2. QED BY <2>1 DEF SmallPlaces
<1>7. Total \subseteq (DOMAIN acsm.patterns) \X (-1 .. Tend)
  BY <1>5, <1>6 DEF Total
<1>8. IsFiniteSet(AllStrays)
  <2>1. IsFiniteSet(DOMAIN acsm.plist) /\ IsFiniteSet(0 .. Tend + 1)
    BY <1>1, <1>2, PlistFinite, FS_Interval
  <2>2. IsFiniteSet((DOMAIN acsm.plist) \X (0 .. Tend + 1))
    BY <2>1, FS_Product
  <2>3. AllStrays \subseteq (DOMAIN acsm.plist) \X (0 .. Tend + 1)
    BY DEF AllStrays
  <2>4. QED BY <2>2, <2>3, FS_Subset
<1>9. QED BY <1>4, <1>5, <1>7, <1>8, FS_Subset

LEMMA RunTotalType ==
    ASSUME InputsKept
    PROVE  RunTotal \in Nat
<1>1. Cardinality(Total) \in Nat /\ Cardinality(AllStrays) \in Nat
  BY PlacesFinite, FS_CardinalityType
<1>2. QED BY <1>1 DEF RunTotal

LEMMA CounterType ==
    ASSUME InputsKept, CallbackInv, run \in Nat, mode \notin {9, 14}
    PROVE  foundCounter \in Nat
<1>1. hits \subseteq Total /\ strays \subseteq AllStrays
  BY DEF CallbackInv
<1>2. IsFiniteSet(hits) /\ IsFiniteSet(strays)
  BY <1>1, PlacesFinite, FS_Subset
<1>3. Cardinality(hits) \in Nat /\ Cardinality(strays) \in Nat
  BY <1>2, FS_CardinalityType
<1>4. PICK c \in Nat : c = run * RunTotal
  BY RunTotalType
<1>5. foundCounter = c + Cardinality(hits) + Cardinality(strays)
  BY <1>4 DEF CallbackInv
<1>6. QED BY <1>3, <1>5

LEMMA DisjointUnion ==
    ASSUME NEW A, NEW B, IsFiniteSet(A), IsFiniteSet(B), A \cap B = {}
    PROVE  IsFiniteSet(A \cup B) /\ Cardinality(A \cup B) = Cardinality(A) + Cardinality(B)
<1>1. Cardinality(A \cup B) = Cardinality(A) + Cardinality(B) - Cardinality(A \cap B)
      /\ IsFiniteSet(A \cup B)
  BY FS_Union
<1>2. Cardinality(A \cap B) = 0
  BY FS_EmptySet
<1>3. Cardinality(A) \in Nat /\ Cardinality(B) \in Nat
  BY FS_CardinalityType
<1>4. QED BY <1>1, <1>2, <1>3

-----------------------------------------------------------------------------
(* A pass of the loop over the match list, and the list as a whole.        *)

LEMMA ListLength ==
    ASSUME InputsKept, StreamTracked
    PROVE  /\ Len(MatchList) \in Nat /\ DOMAIN MatchList = 1 .. Len(MatchList)
           /\ \A j \in 1 .. Len(MatchList) : MatchList[j] \in DOMAIN acsm.plist
           /\ Entries = {acsm.plist[MatchList[j]] : j \in 1 .. Len(MatchList)}
<1>1. MatchList \in Seq(DOMAIN acsm.plist)
  BY AutomatonFacts DEF InputsKept, StreamTracked, MatchList
<1>2. Len(MatchList) \in Nat /\ DOMAIN MatchList = 1 .. Len(MatchList)
  BY <1>1
<1>3. \A j \in 1 .. Len(MatchList) : MatchList[j] \in DOMAIN acsm.plist
  BY <1>1
<1>4. Entries = {acsm.plist[MatchList[j]] : j \in 1 .. Len(MatchList)}
  BY <1>2 DEF Entries, EntriesOf, MatchList
<1>5. QED BY <1>2, <1>3, <1>4

LEMMA PlaceOfEntry ==
    ASSUME InputsKept, StreamTracked, NEW x \in Seen, TurnOf(x[1], x[2]) = T,
           NEW j \in 1 .. Len(MatchList), NEW p, p = acsm.plist[MatchList[j]],
           p.iid = x[1], p.flag = x[2] % 2
    PROVE  x = <<p.iid, T - p.start>>
<1>1. PICK id, o : id = x[1] /\ o = x[2] /\ x = <<id, o>> /\ o \in Int /\ o % 2 \in 0 .. 1
  BY SeenFacts
<1>2. PICK y : y = T - p.start
  OBVIOUS
<1>3. y \in Int /\ TurnOf(id, y) = T /\ y % 2 = p.flag /\ id \in Halved(acsm)
  BY <1>1, <1>2, EntryIsPlace, ZenonT(40)
<1>4. PICK st \in Nat : st = Start(Len(acsm.patterns[id]), o % 2)
  <2>1. Len(acsm.patterns[id]) \in Nat /\ Len(acsm.patterns[id]) >= 2
    BY <1>3, HalvedFacts DEF InputsKept
  <2>2. QED BY <1>1, <2>1, StartType
<1>5. o + st = T /\ y + st = T
  BY <1>1, <1>3, <1>4 DEF TurnOf
<1>6. o = y
  <2>1. o \in Int /\ y \in Int /\ st \in Int /\ o + st = y + st
    BY <1>1, <1>3, <1>4, <1>5
  <2>2. QED BY <2>1
<1>7. QED BY <1>1, <1>2, <1>6

LEMMA TurnTaken ==
    ASSUME InputsKept, StreamTracked, mlist \in 1 .. Len(MatchList),
           UNCHANGED <<searchVars, T, state>>, mlist' = mlist + 1,
           NEW x, x = <<Entry.iid, T - Entry.start>>
    PROVE  Passed' = Passed \cup {x} /\ x \in Seen \ Passed
<1>1. PICK p : p = Entry /\ p = acsm.plist[MatchList[mlist]]
  BY DEF Entry
<1>2. PICK id, o : id = p.iid /\ o = T - p.start /\ x = <<id, o>>
  BY <1>1
<1>3. o \in Int /\ o % 2 = p.flag /\ TurnOf(id, o) = T /\ x \in Seen
  BY <1>1, <1>2, EntryIsPlace
<1>4. T \in Nat /\ mlist \in Nat /\ Len(MatchList) \in Nat
  BY ListLength DEF StreamTracked
<1>5. x \notin Passed
  <2>1. SUFFICES ASSUME HadTurn(x) PROVE FALSE
    BY DEF Passed
  <2>2. x[1] = id /\ x[2] = o
    BY <1>2
  <2>3. PICK j \in 1 .. Len(MatchList) :
          j < mlist /\ acsm.plist[MatchList[j]].iid = id /\ acsm.plist[MatchList[j]].flag = o % 2
    BY <1>3, <1>4, <2>1, <2>2, SMTT(40) DEF HadTurn
  <2>4. j = mlist
    BY <1>1, <1>2, <1>3, <2>3, ListedOnce
  <2>5. QED BY <1>4, <2>3, <2>4
<1>6. MatchList' = MatchList /\ T' = T /\ acsm' = acsm /\ Seen' = Seen
  BY PlacesKept DEF MatchList, searchVars
<1>7. ASSUME NEW y \in Seen PROVE HadTurn(y)' <=> HadTurn(y) \/ y = x
  <2>1. HadTurn(y)' <=> \/ TurnOf(y[1], y[2]) < T
                        \/ /\ TurnOf(y[1], y[2]) = T
                           /\ \E j \in 1 .. Len(MatchList) :
                                /\ j < mlist + 1
                                /\ acsm.plist[MatchList[j]].iid = y[1]
                                /\ acsm.plist[MatchList[j]].flag = y[2] % 2
    BY <1>6 DEF HadTurn, TurnOf
  <2>2. ASSUME HadTurn(y)', ~HadTurn(y) PROVE y = x
    <3>1. PICK j \in 1 .. Len(MatchList) :
            /\ j < mlist + 1
            /\ acsm.plist[MatchList[j]].iid = y[1]
            /\ acsm.plist[MatchList[j]].flag = y[2] % 2
      BY <2>1, <2>2 DEF HadTurn
    <3>2. TurnOf(y[1], y[2]) = T
      BY <2>1, <2>2 DEF HadTurn
    <3>3. ~(j < mlist)
      BY <2>2, <3>1, <3>2 DEF HadTurn
    <3>4. j = mlist
      BY <1>4, <3>1, <3>3
    <3>5. p.iid = y[1] /\ p.flag = y[2] % 2
      BY <1>1, <3>1, <3>4
    <3>6. y = <<p.iid, T - p.start>>
      BY <1>1, <3>2, <3>5, PlaceOfEntry
    <3>7. QED BY <1>2, <3>6
  <2>3. ASSUME y = x PROVE HadTurn(y)'
    <3>1. y[1] = id /\ y[2] = o
      BY <1>2, <2>3
    <3>2. mlist < mlist + 1
      BY <1>4
    <3>3. QED BY <1>1, <1>2, <1>3, <2>1, <3>1, <3>2
  <2>4. ASSUME HadTurn(y) PROVE HadTurn(y)'
    <3>1. CASE TurnOf(y[1], y[2]) < T
      BY <2>1, <3>1
    <3>2. ASSUME TurnOf(y[1], y[2]) = T, NEW j \in 1 .. Len(MatchList), j < mlist,
                 acsm.plist[MatchList[j]].iid = y[1], acsm.plist[MatchList[j]].flag = y[2] % 2
          PROVE  HadTurn(y)'
      <4>1. j < mlist + 1
        BY <1>4, <3>2
      <4>2. QED BY <2>1, <3>2, <4>1
    <3>3. QED BY <2>4, <3>1, <3>2 DEF HadTurn
  <2>5. QED BY <2>2, <2>3, <2>4
<1>8. Passed' = {y \in Seen : HadTurn(y)'}
  BY <1>6 DEF Passed
<1>9. Passed' = Passed \cup {x}
  BY <1>3, <1>7, <1>8 DEF Passed
<1>10. QED BY <1>3, <1>5, <1>9

LEMMA TurnsTaken ==
    ASSUME InputsKept, StreamTracked, mlist = 1,
           UNCHANGED <<searchVars, T, state>>, mlist' = Len(MatchList) + 1,
           NEW N, N = {<<p.iid, T - p.start>> : p \in Entries}
    PROVE  Passed' = Passed \cup N /\ N \subseteq Seen \ Passed
<1>1. T \in Nat /\ Len(MatchList) \in Nat /\ Entries = {acsm.plist[MatchList[j]] : j \in 1 .. Len(MatchList)}
  BY ListLength DEF StreamTracked
<1>2. \A y : HadTurn(y) <=> TurnOf(y[1], y[2]) < T
  <2>1. \A j \in 1 .. Len(MatchList) : ~(j < mlist)
    BY <1>1
  <2>2. QED BY <2>1 DEF HadTurn
<1>3. ASSUME NEW y \in N
      PROVE  y \in Seen /\ y \notin Passed
  <2>1. PICK j \in 1 .. Len(MatchList) :
          y = <<acsm.plist[MatchList[j]].iid, T - acsm.plist[MatchList[j]].start>>
    BY <1>1
  <2>2. PICK p : p = acsm.plist[MatchList[j]]
    OBVIOUS
  <2>3. PICK id, o : id = p.iid /\ o = T - p.start
    OBVIOUS
  <2>4. y = <<id, o>> /\ y[1] = id /\ y[2] = o
    BY <2>1, <2>2, <2>3
  <2>5. TurnOf(id, o) = T /\ <<id, o>> \in Seen
    BY <2>2, <2>3, EntryIsPlace
  <2>6. ~HadTurn(y)
    BY <1>1, <1>2, <2>4, <2>5
  <2>7. QED BY <2>4, <2>5, <2>6 DEF Passed
<1>4. MatchList' = MatchList /\ T' = T /\ acsm' = acsm /\ Seen' = Seen
  BY PlacesKept DEF MatchList, searchVars
<1>5. ASSUME NEW y \in Seen PROVE HadTurn(y)' <=> HadTurn(y) \/ y \in N
  <2>1. HadTurn(y)' <=> \/ TurnOf(y[1], y[2]) < T
                        \/ /\ TurnOf(y[1], y[2]) = T
                           /\ \E j \in 1 .. Len(MatchList) :
                                /\ j < Len(MatchList) + 1
                                /\ acsm.plist[MatchList[j]].iid = y[1]
                                /\ acsm.plist[MatchList[j]].flag = y[2] % 2
    BY <1>4 DEF HadTurn, TurnOf
  <2>2. ASSUME HadTurn(y)', ~HadTurn(y) PROVE y \in N
    <3>1. PICK j \in 1 .. Len(MatchList) :
            /\ acsm.plist[MatchList[j]].iid = y[1]
            /\ acsm.plist[MatchList[j]].flag = y[2] % 2
            /\ TurnOf(y[1], y[2]) = T
      BY <1>2, <2>1, <2>2
    <3>2. PICK p : p = acsm.plist[MatchList[j]]
      OBVIOUS
    <3>3. y = <<p.iid, T - p.start>>
      BY <3>1, <3>2, PlaceOfEntry
    <3>4. p \in Entries
      BY <1>1, <3>2
    <3>5. QED BY <3>3, <3>4
  <2>3. ASSUME y \in N PROVE HadTurn(y)'
    <3>1. PICK j \in 1 .. Len(MatchList) :
            y = <<acsm.plist[MatchList[j]].iid, T - acsm.plist[MatchList[j]].start>>
      BY <1>1, <2>3
    <3>2. PICK p : p = acsm.plist[MatchList[j]]
      OBVIOUS
    <3>3. PICK id, o : id = p.iid /\ o = T - p.start
      OBVIOUS
    <3>4. y[1] = id /\ y[2] = o
      BY <3>1, <3>2, <3>3
    <3>5. o % 2 = p.flag /\ TurnOf(id, o) = T
      BY <3>2, <3>3, EntryIsPlace
    <3>6. j < Len(MatchList) + 1
      BY <1>1
    <3>7. QED BY <2>1, <3>2, <3>3, <3>4, <3>5, <3>6
  <2>4. HadTurn(y) => HadTurn(y)'
    BY <1>2, <2>1
  <2>5. QED BY <2>2, <2>3, <2>4
<1>6. Passed' = {y \in Seen : HadTurn(y)'}
  BY <1>4 DEF Passed
<1>7. Passed' = Passed \cup N
  BY <1>3, <1>5, <1>6 DEF Passed
<1>8. QED BY <1>3, <1>7

(* Only the marks of mode 4 count halves outside the list.                 *)
LEMMA NoStrays ==
    ASSUME mode # 4
    PROVE  AllStrays = {}
  BY DEF AllStrays

(* What a step reports of the places it passes, and counts: F of them      *)
(* accepted, and the strays in G.                                          *)
LEMMA Reported ==
    ASSUME InputsKept, StreamTracked, CallbackInv, run \in Nat, mode \notin {9, 14},
           UNCHANGED <<searchVars, run, T, state, queue>>, mlist' \in 1 .. Len(MatchList) + 1,
           NEW N, Passed' = Passed \cup N, N \subseteq Seen \ Passed,
           NEW F, F = N \cap Total, hits' = hits \cup F,
           NEW G, strays' = strays \cup G, strays \cap G = {},
           strays' = {x \in AllStrays : x[2] < T \/ (x[2] = T /\ mlist' > Len(MatchList))},
           foundCounter' = foundCounter + Cardinality(F) + Cardinality(G)
    PROVE  CallbackInv'
<1>1. /\ acsm' = acsm /\ mode' = mode /\ MatchList' = MatchList /\ queue' = queue /\ run' = run
      /\ T' = T /\ Total' = Total /\ AllStrays' = AllStrays /\ RunTotal' = RunTotal
  BY PlacesKept DEF MatchList, searchVars
<1>2. /\ foundCounter = run * RunTotal + Cardinality(hits) + Cardinality(strays)
      /\ hits = Total \cap Passed /\ queue = << >>
  BY DEF CallbackInv
<1>3. IsFiniteSet(hits) /\ IsFiniteSet(F) /\ hits \cap F = {}
  <2>1. hits \subseteq Total /\ F \subseteq Total
    BY <1>2
  <2>2. QED BY <1>2, <2>1, PlacesFinite, FS_Subset
<1>4. IsFiniteSet(strays) /\ IsFiniteSet(G)
  <2>1. strays \subseteq AllStrays /\ G \subseteq AllStrays
    OBVIOUS
  <2>2. QED BY <2>1, PlacesFinite, FS_Subset
<1>5. /\ Cardinality(hits') = Cardinality(hits) + Cardinality(F)
      /\ Cardinality(strays') = Cardinality(strays) + Cardinality(G)
  BY <1>3, <1>4, DisjointUnion
<1>6. PICK c \in Nat : c = run * RunTotal
  BY RunTotalType
<1>7. foundCounter' = (run * RunTotal + Cardinality(hits) + Cardinality(strays))'
  <2>1. /\ Cardinality(hits) \in Nat /\ Cardinality(F) \in Nat
        /\ Cardinality(strays) \in Nat /\ Cardinality(G) \in Nat
    BY <1>3, <1>4, FS_CardinalityType
  <2>2. PICK h \in Nat, g \in Nat, d \in Nat, e \in Nat :
          h = Cardinality(hits) /\ g = Cardinality(F) /\ d = Cardinality(strays) /\ e = Cardinality(G)
    BY <2>1
  <2>3. foundCounter = c + h + d
    BY <1>2, <1>6, <2>2
  <2>4. foundCounter' = (c + h + d) + g + e
    BY <2>2, <2>3
  <2>5. Cardinality(hits') = h + g /\ Cardinality(strays') = d + e
    BY <1>5, <2>2
  <2>6. foundCounter' = c + Cardinality(hits') + Cardinality(strays')
    BY <2>4, <2>5
  <2>7. QED BY <1>1, <1>6, <2>6
<1>8. hits' = Total' \cap Passed'
  BY <1>1, <1>2
<1>9. (mode \in {1, 2} => \A s \in States(acsm) : \A p \in EntriesOf(s) : ~ReverseCrashes(p))'
  BY <1>1 DEF CallbackInv, EntriesOf
<1>10. strays' = {x \in AllStrays : StrayHadTurn(x)}'
  BY <1>1 DEF StrayHadTurn
<1>11. QED BY <1>1, <1>2, <1>7, <1>8, <1>9, <1>10 DEF CallbackInv

-----------------------------------------------------------------------------
(* One entry compared, or all of them.                                     *)

LEMMA VisitKeeps ==
    ASSUME InputsKept, StreamTracked, CallbackInv, run \in Nat, mode \notin {9, 14},
           mode # 4,
           NEW found \in BOOLEAN, found <=> Accepted(Entry.iid, T - Entry.start), Visit(found)
    PROVE  CallbackInv'
<1>1. /\ mlist <= Len(MatchList) /\ mlist' = mlist + 1
      /\ UNCHANGED <<searchVars, run, T, state, queue, strays>>
      /\ Report(found, Entry, T - Entry.start)
  BY DEF Visit
<1>2. Len(MatchList) \in Nat /\ mlist \in 1 .. Len(MatchList) + 1
  BY ListLength DEF CallbackInv
<1>3. mlist \in 1 .. Len(MatchList) /\ mlist' \in 1 .. Len(MatchList) + 1
  BY <1>1, <1>2
<1>4. PICK x, id, o : x = <<id, o>> /\ id = Entry.iid /\ o = T - Entry.start
  OBVIOUS
<1>5. PICK N, F : N = {x} /\ F = N \cap Total
  OBVIOUS
<1>6. Passed' = Passed \cup N /\ N \subseteq Seen \ Passed
  <2>1. Passed' = Passed \cup {x} /\ x \in Seen \ Passed
    BY <1>1, <1>3, <1>4, TurnTaken
  <2>2. QED BY <1>5, <2>1
<1>7. x \in Total <=> found
  <2>1. x \in Seen /\ x[1] = id /\ x[2] = o
    BY <1>4, <1>5, <1>6
  <2>2. found <=> Accepted(id, o)
    BY <1>4
  <2>3. QED BY <2>1, <2>2 DEF Total
<1>8. hits' = hits \cup F /\ foundCounter' = foundCounter + Cardinality(F) + 0
  <2>0. foundCounter \in Nat
    BY CounterType
  <2>1. CASE found
    <3>1. F = {x}
      BY <1>5, <1>7, <2>1
    <3>2. Cardinality(F) = 1
      BY <3>1, FS_Singleton
    <3>3. hits' = hits \cup F /\ foundCounter' = foundCounter + 1
      BY <1>1, <1>4, <2>1, <3>1 DEF Report
    <3>4. QED BY <2>0, <3>2, <3>3
  <2>2. CASE ~found
    <3>1. F = {}
      BY <1>5, <1>7, <2>2
    <3>2. Cardinality(F) = 0
      BY <3>1, FS_EmptySet
    <3>3. foundCounter' = foundCounter /\ hits' = hits
      BY <1>1, <2>2 DEF Report
    <3>4. QED BY <2>0, <3>1, <3>2, <3>3
  <2>3. QED BY <2>1, <2>2
<1>9. PICK G : G = {}
  OBVIOUS
<1>10. AllStrays = {} /\ strays = {}
  <2>1. AllStrays = {}
    BY NoStrays
  <2>2. QED BY <2>1 DEF CallbackInv
<1>11. strays' = {y \in AllStrays : y[2] < T \/ (y[2] = T /\ mlist' > Len(MatchList))}
  BY <1>1, <1>10
<1>12. strays' = strays \cup G /\ strays \cap G = {}
  BY <1>1, <1>9
<1>13. Cardinality(G) = 0
  BY <1>9, FS_EmptySet
<1>14. foundCounter' = foundCounter + Cardinality(F) + Cardinality(G)
  BY <1>8, <1>13
<1>15. QED BY <1>1, <1>3, <1>5, <1>6, <1>8, <1>11, <1>12, <1>14, Reported

LEMMA VisitAllKeeps ==
    ASSUME InputsKept, StreamTracked, CallbackInv, run \in Nat, mode \notin {9, 12, 14},
           NEW found, found = {p \in Entries : Accepted(p.iid, T - p.start)},
           NEW G, G = {x \in AllStrays : x[2] = T}, strays' = strays \cup G,
           NEW number, number = Cardinality(found) + Cardinality(G), VisitAll(found, number)
    PROVE  CallbackInv'
<1>1. /\ mlist = 1 /\ MatchList # << >> /\ mlist' = Len(MatchList) + 1
      /\ foundCounter' = foundCounter + number
      /\ hits' = hits \cup {<<p.iid, T - p.start>> : p \in found}
      /\ UNCHANGED <<searchVars, run, T, state, queue>>
  BY DEF VisitAll
<1>2. Len(MatchList) \in Nat /\ Entries = {acsm.plist[MatchList[j]] : j \in 1 .. Len(MatchList)}
  BY ListLength
<1>3. mlist' \in 1 .. Len(MatchList) + 1
  BY <1>1, <1>2
<1>4. PICK N : N = {<<p.iid, T - p.start>> : p \in Entries}
  OBVIOUS
<1>5. Passed' = Passed \cup N /\ N \subseteq Seen \ Passed
  BY <1>1, <1>4, TurnsTaken
<1>6. PICK F : F = N \cap Total
  OBVIOUS
<1>7. ASSUME NEW p \in Entries PROVE <<p.iid, T - p.start>> \in Total <=> p \in found
  <2>1. PICK id, o : id = p.iid /\ o = T - p.start
    OBVIOUS
  <2>2. <<id, o>> \in Seen
    BY <1>4, <1>5, <2>1
  <2>3. <<id, o>> \in Total <=> Accepted(id, o)
    BY <2>2 DEF Total
  <2>4. QED BY <2>1, <2>3
<1>8. F = {<<p.iid, T - p.start>> : p \in found}
  BY <1>4, <1>6, <1>7
<1>9. IsFiniteSet(F)
  BY <1>6, PlacesFinite, FS_Subset
<1>10. Cardinality(F) = Cardinality(found)
  <2> DEFINE g == [p \in found |-> <<p.iid, T - p.start>>]
  <2>1. \A p \in found : g[p] \in F
    BY <1>8
  <2>2. ASSUME NEW p \in found, NEW q \in found, g[p] = g[q] PROVE p = q
    <3>1. PICK i \in 1 .. Len(MatchList) : p = acsm.plist[MatchList[i]]
      BY <1>2
    <3>2. PICK j \in 1 .. Len(MatchList) : q = acsm.plist[MatchList[j]]
      BY <1>2
    <3>3. <<p.iid, T - p.start>> = <<q.iid, T - q.start>>
      BY <2>2
    <3>4. QED BY <3>1, <3>2, <3>3, PlaceListedOnce
  <2>3. \A x \in F : \E p \in found : g[p] = x
    BY <1>8
  <2>4. g \in [found -> F]
    BY <2>1
  <2>5. g \in Bijection(found, F)
    <3> HIDE DEF g
    <3>1. QED BY <2>2, <2>3, <2>4 DEF Bijection, Injection, Surjection, IsInjective
  <2>6. g \in Injection(found, F)
    BY <2>5 DEF Bijection
  <2>7. IsFiniteSet(found)
    BY <1>9, <2>6, FS_Injection
  <2>8. ExistsBijection(found, F)
    BY <2>5 DEF ExistsBijection
  <2>9. QED BY <2>7, <2>8, FS_Bijection
<1>11. T \in Nat /\ mlist <= Len(MatchList)
  <2>1. MatchList \in Seq(DOMAIN acsm.plist)
    BY AutomatonFacts DEF InputsKept, StreamTracked, MatchList
  <2>2. QED BY <1>1, <1>2, <2>1 DEF StreamTracked
<1>12. strays = {x \in AllStrays : x[2] < T}
  BY <1>2, <1>11 DEF CallbackInv, StrayHadTurn
<1>13. strays \cap G = {}
  BY <1>11, <1>12
<1>14. strays' = {x \in AllStrays : x[2] < T \/ (x[2] = T /\ mlist' > Len(MatchList))}
  BY <1>1, <1>2, <1>12
<1>15. foundCounter' = foundCounter + Cardinality(F) + Cardinality(G)
  <2>1. foundCounter \in Nat
    BY CounterType
  <2>2. IsFiniteSet(G)
    BY PlacesFinite, FS_Subset
  <2>3. Cardinality(F) \in Nat /\ Cardinality(G) \in Nat
    BY <1>9, <2>2, FS_CardinalityType
  <2>4. QED BY <1>1, <1>10, <2>1, <2>3
<1>16. hits' = hits \cup F
  BY <1>1, <1>8
<1>17. QED BY <1>1, <1>3, <1>5, <1>6, <1>13, <1>14, <1>15, <1>16, Reported

-----------------------------------------------------------------------------
(* A recursive function that takes a step for every number has a value.    *)

Iteration(f, S, b, n, G) ==
    /\ f \in [0 .. n -> S]
    /\ f[0] = b
    /\ \A k \in 1 .. n : f[k] = G[k][f[k - 1]]

LEMMA IterationExists ==
    ASSUME NEW S, NEW b \in S, NEW n \in Nat, NEW G \in [1 .. n -> [S -> S]]
    PROVE  \E f : Iteration(f, S, b, n, G)
<1> DEFINE Iterates(f, m) == f[0] = b /\ \A k \in 1 .. m : f[k] = G[k][f[k - 1]]
           Bad == {m \in Nat : m <= n /\ ~ \E f \in [0 .. m -> S] : Iterates(f, m)}
<1>1. SUFFICES Bad = {}
  BY SMTT(40) DEF Iteration
<1>2. SUFFICES ASSUME Bad # {} PROVE FALSE
  OBVIOUS
<1>3. PICK m \in Bad : \A k \in Bad : m <= k
  <2>1. Bad \subseteq Nat
    OBVIOUS
  <2> HIDE DEF Bad
  <2>2. QED BY <1>2, <2>1, SmallestNumber
<1>4. m \in Nat /\ m <= n /\ ~ \E f \in [0 .. m -> S] : Iterates(f, m)
  OBVIOUS
<1>5. CASE m = 0
  <2> DEFINE f == [k \in 0 .. 0 |-> b]
  <2>1. f \in [0 .. m -> S] /\ Iterates(f, m)
    BY <1>5
  <2>2. QED BY <1>4, <2>1
<1>6. CASE m # 0
  <2>1. m - 1 \in Nat /\ m - 1 <= n /\ ~ (m <= m - 1)
    BY <1>4, <1>6
  <2>2. m - 1 \notin Bad
    BY <1>3, <2>1
  <2>3. PICK f \in [0 .. m - 1 -> S] : Iterates(f, m - 1)
    BY <2>1, <2>2
  <2> DEFINE v == G[m][f[m - 1]]
             g == [k \in 0 .. m |-> IF k = m THEN v ELSE f[k]]
  <2>4. v \in S
    <3>1. m \in 1 .. n /\ m - 1 \in 0 .. m - 1
      BY <1>4, <1>6
    <3>2. G[m] \in [S -> S] /\ f[m - 1] \in S
      BY <2>3, <3>1
    <3>3. QED BY <3>2
  <2>5. g \in [0 .. m -> S]
    <3>1. \A k \in 0 .. m : k # m => k \in 0 .. m - 1
      BY <1>4
    <3> HIDE DEF v
    <3>2. QED BY <2>3, <2>4, <3>1
  <2>6. ASSUME NEW k \in 1 .. m PROVE g[k] = G[k][g[k - 1]]
    <3>1. k - 1 \in 0 .. m /\ k - 1 # m
      BY <1>4
    <3>2. g[k - 1] = f[k - 1]
      BY <3>1
    <3>3. CASE k = m
      <4>1. g[k] = v
        BY <1>4, <3>3
      <4>2. QED BY <3>2, <3>3, <4>1
    <3>4. CASE k # m
      <4>1. k \in 1 .. m - 1
        BY <1>4, <3>4
      <4>2. g[k] = f[k] /\ f[k] = G[k][f[k - 1]]
        BY <2>3, <3>4, <4>1
      <4>3. QED BY <3>2, <4>2
    <3>5. QED BY <3>3, <3>4
  <2>7. g[0] = b
    <3>1. 0 \in 0 .. m /\ 0 # m
      BY <1>4, <1>6
    <3>2. QED BY <2>3, <3>1
  <2>8. Iterates(g, m)
    BY <2>6, <2>7
  <2>9. QED BY <1>4, <2>5, <2>8
<1>7. QED BY <1>5, <1>6

-----------------------------------------------------------------------------
(* The sub patterns of the list, as a set.                                 *)

LEMMA EntriesFinite ==
    ASSUME InputsKept, StreamTracked
    PROVE  IsFiniteSet(Entries)
<1>1. Len(MatchList) \in Nat /\ Entries = {acsm.plist[MatchList[j]] : j \in 1 .. Len(MatchList)}
  BY ListLength
<1> DEFINE g == [j \in 1 .. Len(MatchList) |-> acsm.plist[MatchList[j]]]
<1>2. g \in Surjection(1 .. Len(MatchList), Entries)
  BY <1>1 DEF Surjection
<1>3. IsFiniteSet(1 .. Len(MatchList))
  BY <1>1, FS_Interval
<1>4. QED BY <1>2, <1>3, FS_Surjection

(* A list settled at once, where no marks are used.                        *)
LEMMA VisitAllUnmarked ==
    ASSUME InputsKept, StreamTracked, CallbackInv, run \in Nat, mode \notin {4, 9, 12, 14},
           NEW found, found = {p \in Entries : Accepted(p.iid, T - p.start)},
           VisitAll(found, Cardinality(found)), UNCHANGED strays
    PROVE  CallbackInv'
<1>1. PICK G : G = {}
  OBVIOUS
<1>2. G = {x \in AllStrays : x[2] = T} /\ strays' = strays \cup G
  BY <1>1, NoStrays
<1>3. Cardinality(found) = Cardinality(found) + Cardinality(G)
  <2>1. Cardinality(G) = 0
    BY <1>1, FS_EmptySet
  <2>2. IsFiniteSet(found)
    BY EntriesFinite, FS_Subset
  <2>3. QED BY <2>1, <2>2, FS_CardinalityType
<1>4. QED BY <1>2, <1>3, VisitAllKeeps

LEMMA OwnHalf ==
    ASSUME InputsKept, StreamTracked, NEW p \in Entries
    PROVE  /\ IsHalf(p, acsm.patterns[p.iid], p.flag)
           /\ HalfRead(acsm.patterns[p.iid], p.flag, T)
           /\ OtherLength(p) \in Nat /\ OtherLength(p) >= 1
           /\ Offset(p) = IF EndsHere(p) THEN 3 ELSE 1
<1>1. PICK j \in 1 .. Len(MatchList) : p = acsm.plist[MatchList[j]]
  BY ListLength
<1>2. PICK q, f : q = acsm.patterns[p.iid] /\ f = p.flag
  OBVIOUS
<1>3. IsHalf(p, q, f) /\ HalfRead(q, f, T)
  BY <1>1, <1>2, EntryDecided
<1>4. OtherLength(p) \in Nat /\ OtherLength(p) >= 1
  <2>1. OtherLength(p) = HalfLength(Len(q), 1 - f) /\ HalfLength(Len(q), 1 - f) \in Nat
        /\ HalfLength(Len(q), 1 - f) >= 1
    BY <1>3, HalfNumbers
  <2>2. QED BY <2>1
<1>5. Offset(p) = IF EndsHere(p) THEN 3 ELSE 1
  BY <1>3, OffsetValue
<1>6. QED BY <1>2, <1>3, <1>4, <1>5

LEMMA OwnDecided ==
    ASSUME InputsKept, StreamTracked, NEW p \in Entries,
           mode # 12, ~Misplaced(<<p.iid, T - p.start>>)
    PROVE  Accepted(p.iid, T - p.start)
           <=> \A k \in 1 .. OtherLength(p) :
                  OtherFromEnd(p, k) = Byte(T - Offset(p) - 2 * (k - 1))
<1>1. PICK j \in 1 .. Len(MatchList) : p = acsm.plist[MatchList[j]]
  BY ListLength
<1>2. PICK q, f : q = acsm.patterns[p.iid] /\ f = p.flag
  OBVIOUS
<1>3. /\ IsHalf(p, q, f)
      /\ Accepted(p.iid, T - p.start) <=> Agree(p, T - p.start, RestIndices(p.indexEnd))
  BY <1>1, <1>2, EntryDecided
<1>4. T \in Nat
  BY DEF StreamTracked
<1>5. QED BY <1>3, <1>4, AgreeFromEnd

-----------------------------------------------------------------------------
(* Mode 6: one comparison with the longest other half.                     *)

LEMMA NearHolds ==
    ASSUME InputsKept, StreamTracked, mlist \in Nat, mlist >= 1
    PROVE  NearInv
<1>1. acsm \in Automata /\ text \in Texts /\ state \in States(acsm) /\ T \in Nat /\ T <= Tend + 1
  BY DEF InputsKept, StreamTracked
<1>2. PrefixEndsWith(EvenStream, T \div 2, acsm.label[state])
  BY DEF StreamTracked, Reads
<1>3. Len(acsm.label[state]) \in Nat
  BY <1>1, AutomatonFacts, LenType
<1>4. 2 * Len(acsm.label[state]) <= T
  <2>1. Len(acsm.label[state]) <= T \div 2
    BY <1>2 DEF PrefixEndsWith
  <2>2. QED BY <1>1, <1>3, <2>1
<1>5. QED BY <1>1, <1>4 DEF NearInv

LEMMA LongestFacts ==
    ASSUME InputsKept, StreamTracked, mlist \in Nat, mlist >= 1, Entries # {}
    PROVE  Longest(Entries) \in Entries /\ \A p \in Entries : OtherLength(p) <= OtherLength(Longest(Entries))
<1> DEFINE S == {OtherLength(p) : p \in Entries}
<1>1. NearInv /\ T + 1 \in Nat
  BY NearHolds DEF StreamTracked
<1>2. S \subseteq Nat /\ S # {} /\ \A x \in S : x <= T + 1
  BY <1>1, TreeWordShort
<1>3. PICK x \in S : \A y \in S : y <= x
  <2> HIDE DEF S
  <2>1. QED BY <1>1, <1>2, LargestNumber
<1>4. \E p \in Entries : \A q \in Entries : OtherLength(q) <= OtherLength(p)
  BY <1>3
<1>5. QED BY <1>4 DEF Longest

(* The sum as far as k is the number of other halves of at most k bytes.   *)
IsSum(f, A, n) == f = [k \in 0 .. n |-> IF k = 0 THEN 0 ELSE f[k - 1] + A[k - 1]]

LEMMA SumExists ==
    ASSUME NEW n \in Nat, NEW A \in [0 .. n - 1 -> Nat]
    PROVE  \E f : IsSum(f, A, n)
<1> DEFINE G == [k \in 1 .. n |-> [v \in Nat |-> v + A[k - 1]]]
<1>1. ASSUME NEW k \in 1 .. n PROVE A[k - 1] \in Nat
  <2>1. k - 1 \in 0 .. n - 1
    OBVIOUS
  <2>2. QED BY <2>1
<1>2. G \in [1 .. n -> [Nat -> Nat]]
  BY <1>1
<1>3. \A k \in 1 .. n, v \in Nat : G[k][v] = v + A[k - 1]
  OBVIOUS
<1> HIDE DEF G
<1>4. PICK f : Iteration(f, Nat, 0, n, G)
  BY <1>2, IterationExists
<1>5. ASSUME NEW k \in 0 .. n PROVE f[k] = IF k = 0 THEN 0 ELSE f[k - 1] + A[k - 1]
  <2>1. CASE k = 0
    BY <1>4, <2>1 DEF Iteration
  <2>2. CASE k # 0
    <3>1. k \in 1 .. n /\ k - 1 \in 0 .. n
      BY <2>2
    <3>2. f[k - 1] \in Nat /\ f[k] = G[k][f[k - 1]]
      BY <1>4, <3>1 DEF Iteration
    <3>3. QED BY <1>3, <2>2, <3>1, <3>2
  <2>3. QED BY <2>1, <2>2
<1>6. f = [k \in 0 .. n |-> f[k]]
  BY <1>4 DEF Iteration
<1>7. QED BY <1>5, <1>6 DEF IsSum

LEMMA AddedFacts ==
    ASSUME NEW n \in Nat, n = OtherLength(Longest(Entries)), NEW A, A = subPatternArray(Entries),
           A \in [0 .. n - 1 -> Nat]
    PROVE  /\ Added[0] = 0
           /\ \A k \in 1 .. n : Added[k] = Added[k - 1] + A[k - 1]
<1>1. Added = CHOOSE f : IsSum(f, A, n)
  BY DEF Added, IsSum
<1>2. \E f : IsSum(f, A, n)
  BY SumExists
<1>3. IsSum(Added, A, n)
  BY <1>1, <1>2, Zenon
<1>4. PICK f : f = Added
  OBVIOUS
<1>5. f = [k \in 0 .. n |-> IF k = 0 THEN 0 ELSE f[k - 1] + A[k - 1]]
  BY <1>3, <1>4 DEF IsSum
<1>6. f[0] = 0
  BY <1>5
<1>7. ASSUME NEW k \in 1 .. n PROVE f[k] = f[k - 1] + A[k - 1]
  BY <1>5
<1>8. QED BY <1>4, <1>6, <1>7

LEMMA AddedCounts ==
    ASSUME InputsKept, StreamTracked, mlist \in Nat, mlist >= 1, Entries # {},
           NEW k \in 0 .. OtherLength(Longest(Entries))
    PROVE  Added[k] = Cardinality({p \in Entries : OtherLength(p) <= k})
<1> DEFINE UpTo(i) == {p \in Entries : OtherLength(p) <= i}
<1>1. PICK n \in Nat : n = OtherLength(Longest(Entries))
  BY LongestFacts, OwnHalf
<1>2. PICK A : A = subPatternArray(Entries)
  OBVIOUS
<1>3. ASSUME NEW i \in 0 .. n - 1
      PROVE  A[i] = Cardinality({p \in Entries : OtherLength(p) - 1 = i}) /\ A[i] \in Nat
  <2>1. A[i] = Cardinality({p \in Entries : OtherLength(p) - 1 = i})
    BY <1>1, <1>2 DEF subPatternArray
  <2>2. IsFiniteSet({p \in Entries : OtherLength(p) - 1 = i})
    BY EntriesFinite, FS_Subset
  <2>3. QED BY <2>1, <2>2, FS_CardinalityType
<1>4. A \in [0 .. n - 1 -> Nat]
  <2>1. A = [i \in 0 .. n - 1 |-> Cardinality({p \in Entries : OtherLength(p) - 1 = i})]
    BY <1>1, <1>2 DEF subPatternArray
  <2>2. QED BY <1>3, <2>1
<1>5. Added[0] = 0 /\ \A i \in 1 .. n : Added[i] = Added[i - 1] + A[i - 1]
  BY <1>1, <1>2, <1>4, AddedFacts
<1>6. Cardinality(UpTo(0)) = 0
  <2>1. UpTo(0) = {}
    BY OwnHalf
  <2>2. QED BY <2>1, FS_EmptySet
<1>7. ASSUME NEW i \in 1 .. n PROVE Cardinality(UpTo(i)) = Cardinality(UpTo(i - 1)) + A[i - 1]
  <2>1. PICK U, V, W : U = UpTo(i - 1) /\ V = {p \in Entries : OtherLength(p) - 1 = i - 1} /\ W = UpTo(i)
    OBVIOUS
  <2>2. ASSUME NEW p \in Entries
        PROVE  /\ p \in W <=> p \in U \/ p \in V
               /\ ~ (p \in U /\ p \in V)
    <3>1. PICK l \in Nat : l = OtherLength(p)
      BY OwnHalf
    <3>2. /\ p \in W <=> l <= i
          /\ p \in U <=> l <= i - 1
          /\ p \in V <=> l - 1 = i - 1
      BY <2>1, <3>1
    <3>3. QED BY <3>2
  <2>3. U \subseteq Entries /\ V \subseteq Entries /\ W \subseteq Entries
    BY <2>1
  <2>4. W = U \cup V /\ U \cap V = {}
    BY <2>2, <2>3
  <2>5. IsFiniteSet(U) /\ IsFiniteSet(V)
    BY <2>3, EntriesFinite, FS_Subset
  <2>6. Cardinality(W) = Cardinality(U) + Cardinality(V) - Cardinality(U \cap V)
    BY <2>4, <2>5, FS_Union
  <2>7. Cardinality(U \cap V) = 0
    BY <2>4, FS_EmptySet
  <2>8. Cardinality(U) \in Nat /\ Cardinality(V) \in Nat
    BY <2>5, FS_CardinalityType
  <2>9. i - 1 \in 0 .. n - 1
    OBVIOUS
  <2>10. A[i - 1] = Cardinality(V)
    BY <1>3, <2>1, <2>9
  <2>11. QED BY <2>1, <2>6, <2>7, <2>8, <2>10
<1> HIDE DEF UpTo
<1>8. \A i \in 0 .. n : Added[i] = Cardinality(UpTo(i))
  <2> DEFINE Bad == {i \in Nat : i <= n /\ Added[i] # Cardinality(UpTo(i))}
  <2>1. SUFFICES ASSUME Bad # {} PROVE FALSE
    OBVIOUS
  <2>2. PICK i \in Bad : \A l \in Bad : i <= l
    <3>1. Bad \subseteq Nat
      OBVIOUS
    <3> HIDE DEF Bad
    <3>2. QED BY <2>1, <3>1, SmallestNumber
  <2>3. i \in Nat /\ i <= n /\ Added[i] # Cardinality(UpTo(i))
    OBVIOUS
  <2>4. i # 0
    BY <1>5, <1>6, <2>3
  <2>5. i \in 1 .. n /\ i - 1 \in Nat /\ i - 1 <= n /\ ~ (i <= i - 1)
    BY <2>3, <2>4
  <2>6. i - 1 \notin Bad
    BY <2>2, <2>5
  <2>7. Added[i - 1] = Cardinality(UpTo(i - 1))
    BY <2>5, <2>6
  <2>8. QED BY <1>5, <1>7, <2>3, <2>5, <2>7
<1>9. Added[k] = Cardinality(UpTo(k))
  BY <1>1, <1>8
<1>10. QED BY <1>9 DEF UpTo

-----------------------------------------------------------------------------
LEMMA ReversedType ==
    ASSUME NEW p, NEW q, NEW f, IsHalf(p, q, f)
    PROVE  /\ Reversed(p) \in Seq(Char)
           /\ Len(Reversed(p)) = OtherLength(p) /\ OtherLength(p) \in Nat /\ OtherLength(p) >= 1
           /\ \A k \in 1 .. OtherLength(p) : Reversed(p)[k] = OtherFromEnd(p, k)
<1>1. PICK h \in Nat, ie \in Nat, m \in Nat :
        h = OtherLength(p) /\ h >= 1 /\ ie = p.indexEnd /\ ie = 2 * h - 1 - f /\ m = Len(q) /\ ie <= m - 1
  <2>1. /\ OtherLength(p) = HalfLength(Len(q), 1 - f) /\ HalfLength(Len(q), 1 - f) \in Nat
        /\ HalfLength(Len(q), 1 - f) >= 1 /\ p.indexEnd \in Nat
        /\ p.indexEnd = 2 * HalfLength(Len(q), 1 - f) - 1 - f /\ p.indexEnd = IndexEnd(Len(q), f)
    BY HalfNumbers
  <2>2. PICK m \in Nat : m = Len(q) /\ m >= 2 /\ f \in 0 .. 1
    BY DEF IsHalf
  <2>3. IndexEnd(m, f) <= m - 1
    <3>1. IndexEnd(m, f) \in m - 2 .. m - 1
      BY <2>2, SplitArithmetic
    <3>2. QED BY <2>2, <3>1
  <2>4. QED BY <2>1, <2>2, <2>3
<1>2. q \in Seq(Char) /\ p.origin = q /\ f \in 0 .. 1
  BY HalfNumbers DEF IsHalf
<1>3. ASSUME NEW k \in 1 .. h PROVE OtherFromEnd(p, k) \in Char
  <2>1. ie - 2 * (k - 1) + 1 \in 1 .. m
    <3>1. PICK g \in 0 .. 1 : g = f
      BY <1>2
    <3>2. ie = 2 * h - 1 - g /\ ie <= m - 1 /\ k <= h /\ k >= 1
      BY <1>1, <3>1
    <3>3. QED BY <3>2
  <2>2. q[ie - 2 * (k - 1) + 1] \in Char
    BY <1>1, <1>2, <2>1
  <2>3. QED BY <1>1, <1>2, <2>2 DEF OtherFromEnd, At
<1>4. Reversed(p) = [k \in 1 .. h |-> OtherFromEnd(p, k)]
  BY <1>1 DEF Reversed
<1>5. QED BY <1>1, <1>3, <1>4

LEMMA PrefixElements ==
    ASSUME NEW C, NEW s \in Seq(C), NEW t \in Seq(C), IsPrefix(s, t)
    PROVE  Len(s) <= Len(t) /\ \A k \in 1 .. Len(s) : s[k] = t[k]
<1>1. Len(s) <= Len(t) /\ SubSeq(s, 1, Len(s)) = SubSeq(t, 1, Len(s))
  BY DEF IsPrefix
<1>2. ASSUME NEW k \in 1 .. Len(s) PROVE s[k] = t[k]
  <2>1. SubSeq(s, 1, Len(s))[k] = s[k]
    OBVIOUS
  <2>2. SubSeq(t, 1, Len(s))[k] = t[k]
    BY <1>1
  <2>3. QED BY <1>1, <2>1, <2>2
<1>3. QED BY <1>1, <1>2

LEMMA SynthesisDecides ==
    ASSUME InputsKept, StreamTracked, mlist \in Nat, mlist >= 1, mode = 6, Entries # {},
           SuffixSubPattern(Entries)
    PROVE  /\ lengthMatch \in 0 .. OtherLength(Longest(Entries))
           /\ {p \in Entries : OtherLength(p) <= lengthMatch}
                = {p \in Entries : Accepted(p.iid, T - p.start)}
<1>1. PICK L \in Entries : L = Longest(Entries) /\ \A p \in Entries : OtherLength(p) <= OtherLength(L)
  BY LongestFacts
<1>2. PICK n \in Nat, c \in Int : n = OtherLength(L) /\ c = T - Offset(L)
  BY <1>1, OwnHalf DEF StreamTracked
<1> DEFINE agree(k) == \A j \in 1 .. k : OtherFromEnd(L, j) = Byte(c - 2 * (j - 1))
           A == {k \in 0 .. n : agree(k)}
<1>3. \E k \in A : \A l \in A : l <= k
  <2>1. A \subseteq Nat /\ 0 \in A /\ \A k \in A : k <= n
    OBVIOUS
  <2> HIDE DEF A
  <2>2. QED BY <2>1, LargestNumber
<1>4. lengthMatch = CHOOSE k \in 0 .. n : agree(k) /\ \A l \in 0 .. n : agree(l) => l <= k
  BY <1>1, <1>2 DEF lengthMatch
<1>5. \E k \in 0 .. n : agree(k) /\ \A l \in 0 .. n : agree(l) => l <= k
  BY <1>3
<1>6. lengthMatch \in 0 .. n /\ agree(lengthMatch) /\ \A l \in 0 .. n : agree(l) => l <= lengthMatch
  <2> HIDE DEF agree
  <2>1. QED BY <1>4, <1>5
<1>7. ASSUME NEW p \in Entries
      PROVE  OtherLength(p) <= lengthMatch <=> Accepted(p.iid, T - p.start)
  <2>1. PICK h \in Nat : h = OtherLength(p) /\ h <= n
    BY <1>1, <1>2, OwnHalf
  <2>2. Offset(p) = Offset(L)
    <3>1. EndsHere(p) = EndsHere(L)
      BY <1>1 DEF SuffixSubPattern
    <3>2. QED BY <1>1, <3>1, OwnHalf
  <2>3. \A k \in 1 .. h : OtherFromEnd(p, k) = OtherFromEnd(L, k)
    <3>1. IsPrefix(Reversed(p), Reversed(L))
      BY <1>1 DEF SuffixSubPattern
    <3>2. /\ Reversed(p) \in Seq(Char) /\ Len(Reversed(p)) = h
          /\ \A k \in 1 .. h : Reversed(p)[k] = OtherFromEnd(p, k)
      BY <2>1, OwnHalf, ReversedType
    <3>3. /\ Reversed(L) \in Seq(Char)
          /\ \A k \in 1 .. n : Reversed(L)[k] = OtherFromEnd(L, k)
      BY <1>1, <1>2, OwnHalf, ReversedType
    <3>4. \A k \in 1 .. h : Reversed(p)[k] = Reversed(L)[k]
      BY <3>1, <3>2, <3>3, PrefixElements
    <3>5. \A k \in 1 .. h : k \in 1 .. n
      BY <2>1
    <3>6. QED BY <3>2, <3>3, <3>4, <3>5
  <2>4. Accepted(p.iid, T - p.start) <=> agree(h)
    <3>1. Accepted(p.iid, T - p.start)
          <=> \A k \in 1 .. h : OtherFromEnd(p, k) = Byte(T - Offset(p) - 2 * (k - 1))
      BY <2>1, OwnDecided DEF Misplaced
    <3>2. \A k \in 1 .. h : Byte(T - Offset(p) - 2 * (k - 1)) = Byte(c - 2 * (k - 1))
      BY <1>2, <2>2
    <3>3. QED BY <2>3, <3>1, <3>2
  <2>5. agree(h) <=> h <= lengthMatch
    <3>1. ASSUME h <= lengthMatch PROVE agree(h)
      <4>1. \A j \in 1 .. h : j \in 1 .. lengthMatch
        BY <1>6, <3>1
      <4>2. QED BY <1>6, <4>1
    <3>2. ASSUME agree(h) PROVE h <= lengthMatch
      <4>1. h \in 0 .. n
        BY <2>1
      <4> HIDE DEF agree
      <4>2. QED BY <1>6, <3>2, <4>1
    <3>3. QED BY <3>1, <3>2
  <2>6. QED BY <2>1, <2>4, <2>5
<1>8. QED BY <1>1, <1>2, <1>6, <1>7

LEMMA SynthesisKeeps ==
    ASSUME InputsKept, StreamTracked, CallbackInv, run \in Nat, fullMatchSynthesis
    PROVE  CallbackInv'
<1>1. mode = 6 /\ mode # 4 /\ mode \notin {4, 9, 12, 14}
  BY DEF fullMatchSynthesis
<1>2. mlist \in Nat /\ mlist >= 1
  BY ListLength DEF CallbackInv
<1>3. ASSUME SuffixSubPattern(Entries) PROVE CallbackInv'
  <2>1. PICK found, number :
          /\ found = {p \in Entries : OtherLength(p) <= lengthMatch}
          /\ number = Added[lengthMatch]
    OBVIOUS
  <2>2. VisitAll(found, number) /\ UNCHANGED strays
    BY <1>3, <2>1 DEF fullMatchSynthesis
  <2>3. Entries # {}
    <3>1. MatchList # << >>
      BY <2>2 DEF VisitAll
    <3>2. MatchList \in Seq(DOMAIN acsm.plist)
      BY AutomatonFacts DEF InputsKept, StreamTracked, MatchList
    <3>3. 1 \in 1 .. Len(MatchList)
      BY <3>1, <3>2
    <3>4. QED BY <3>3, ListLength
  <2>4. /\ lengthMatch \in 0 .. OtherLength(Longest(Entries))
        /\ found = {p \in Entries : Accepted(p.iid, T - p.start)}
    BY <1>1, <1>2, <1>3, <2>1, <2>3, SynthesisDecides
  <2>5. number = Cardinality(found)
    BY <1>2, <2>1, <2>3, <2>4, AddedCounts
  <2>6. QED BY <1>1, <2>2, <2>4, <2>5, VisitAllUnmarked
<1>4. ASSUME ~SuffixSubPattern(Entries) PROVE CallbackInv'
  <2>1. Visit(FullMatch)
    BY <1>4 DEF fullMatchSynthesis
  <2>2. mlist \in 1 .. Len(MatchList)
    BY <1>2, <2>1, ListLength DEF Visit, CallbackInv
  <2>3. FullMatch <=> Accepted(Entry.iid, T - Entry.start)
    BY <1>1, <2>2, VisitDecides
  <2>4. PICK found \in BOOLEAN : found <=> FullMatch
    OBVIOUS
  <2>5. Visit(found)
    BY <2>1, <2>4 DEF Visit, Report
  <2>6. QED BY <1>1, <2>3, <2>4, <2>5, VisitKeeps
<1>5. QED BY <1>3, <1>4

-----------------------------------------------------------------------------
(* Modes 1 and 2: one walk down the tree.                                  *)

LEMMA PathFacts ==
    ASSUME NEW k \in Nat
    PROVE  /\ Len(PathToNode(k)) = k
           /\ DOMAIN PathToNode(k) = 1 .. k
           /\ \A j \in 1 .. k : PathToNode(k)[j] = Byte(T - 1 - 2 * j)
           /\ \A i \in 1 .. k : SubSeq(PathToNode(k), 1, i) = PathToNode(i)
<1> DEFINE C == {Byte(i) : i \in {T - 1 - 2 * j : j \in 1 .. k}}
<1>1. PICK w : w = PathToNode(k)
  OBVIOUS
<1>2. w = [j \in 1 .. k |-> Byte(T - 1 - 2 * j)]
  BY <1>1 DEF PathToNode
<1>3. \A j \in 1 .. k : Byte(T - 1 - 2 * j) \in C
  OBVIOUS
<1> HIDE DEF C
<1>4. w \in Seq(C) /\ Len(w) = k /\ DOMAIN w = 1 .. k
  BY <1>2, <1>3
<1>5. ASSUME NEW i \in 1 .. k PROVE SubSeq(w, 1, i) = PathToNode(i)
  <2>1. SubSeq(w, 1, i) = [j \in 1 .. i |-> w[j]]
    <3>1. SubSeq(w, 1, i) \in Seq(C) /\ Len(SubSeq(w, 1, i)) = i
      BY <1>4
    <3>2. \A j \in 1 .. i : SubSeq(w, 1, i)[j] = w[j]
      BY <1>4
    <3>3. SubSeq(w, 1, i) = [j \in 1 .. i |-> SubSeq(w, 1, i)[j]]
      BY <3>1
    <3>4. QED BY <3>2, <3>3
  <2>2. \A j \in 1 .. i : w[j] = Byte(T - 1 - 2 * j)
    <3>1. \A j \in 1 .. i : j \in 1 .. k
      OBVIOUS
    <3>2. QED BY <1>2, <3>1
  <2>3. QED BY <2>1, <2>2 DEF PathToNode
<1>6. QED BY <1>1, <1>2, <1>4, <1>5

LEMMA TreeWordFacts ==
    ASSUME NEW p, NEW q, NEW f, IsHalf(p, q, f)
    PROVE  /\ TreeWord(p) \in Seq(Char)
           /\ firstChar(p) = OtherFromEnd(p, 1)
           /\ EndsHere(p) => /\ Len(TreeWord(p)) = OtherLength(p)
                             /\ \A k \in 1 .. OtherLength(p) : TreeWord(p)[k] = OtherFromEnd(p, k)
           /\ ~EndsHere(p) => /\ Len(TreeWord(p)) = OtherLength(p) - 1
                              /\ \A k \in 1 .. OtherLength(p) - 1 :
                                   TreeWord(p)[k] = OtherFromEnd(p, k + 1)
<1>1. PICK r \in Seq(Char), h \in Nat :
        /\ r = Reversed(p) /\ h = OtherLength(p) /\ Len(r) = h /\ h >= 1
        /\ \A k \in 1 .. h : r[k] = OtherFromEnd(p, k)
  BY ReversedType
<1>2. Head(r) = r[1] /\ r # << >>
  BY <1>1
<1>3. /\ Tail(r) \in Seq(Char) /\ Len(Tail(r)) = h - 1
      /\ \A k \in 1 .. h - 1 : Tail(r)[k] = r[k + 1]
  BY <1>1, <1>2
<1>4. firstChar(p) = OtherFromEnd(p, 1)
  BY <1>1, <1>2 DEF firstChar
<1>5. TreeWord(p) = IF EndsHere(p) THEN r ELSE Tail(r)
  BY <1>1 DEF TreeWord
<1>6. \A k \in 1 .. h - 1 : k + 1 \in 1 .. h
  OBVIOUS
<1>7. \A k \in 1 .. h - 1 : Tail(r)[k] = OtherFromEnd(p, k + 1)
  BY <1>1, <1>3, <1>6
<1>8. QED BY <1>1, <1>3, <1>4, <1>5, <1>7

LEMMA TreeDecides ==
    ASSUME InputsKept, StreamTracked, mode \notin {4, 12}, NEW p \in Entries
    PROVE  /\ Len(TreeWord(p)) \in Nat
           /\ \A k \in Nat : TreeWord(p) = PathToNode(k) => k = Len(TreeWord(p))
           /\ Accepted(p.iid, T - p.start)
                <=> /\ TreeWord(p) = PathToNode(Len(TreeWord(p)))
                    /\ EndsHere(p) \/ firstChar(p) = Byte(T - 1)
<1>1. PICK w \in Seq(Char), l \in Nat : w = TreeWord(p) /\ l = Len(w)
  BY OwnHalf, TreeWordFacts, LenType
<1>2. w = PathToNode(l) <=> \A k \in 1 .. l : w[k] = Byte(T - 1 - 2 * k)
  <2>1. w = [k \in 1 .. l |-> w[k]]
    BY <1>1
  <2>2. PathToNode(l) = [k \in 1 .. l |-> Byte(T - 1 - 2 * k)]
    BY DEF PathToNode
  <2>3. ASSUME \A k \in 1 .. l : w[k] = Byte(T - 1 - 2 * k) PROVE w = PathToNode(l)
    BY <2>1, <2>2, <2>3
  <2>4. ASSUME w = PathToNode(l) PROVE \A k \in 1 .. l : w[k] = Byte(T - 1 - 2 * k)
    BY <2>2, <2>4
  <2>5. QED BY <2>3, <2>4
<1>3. ASSUME NEW k \in Nat, w = PathToNode(k) PROVE k = l
  BY <1>1, <1>3, PathFacts
<1>4. PICK h \in Nat : h = OtherLength(p) /\ h >= 1
  BY OwnHalf
<1>5. Accepted(p.iid, T - p.start)
      <=> \A k \in 1 .. h : OtherFromEnd(p, k) = Byte(T - Offset(p) - 2 * (k - 1))
  BY <1>4, OwnDecided DEF Misplaced
<1>6. T \in Nat
  BY DEF StreamTracked
<1>7. CASE EndsHere(p)
  <2>1. Offset(p) = 3 /\ l = h /\ \A k \in 1 .. h : w[k] = OtherFromEnd(p, k)
    BY <1>1, <1>4, <1>7, OwnHalf, TreeWordFacts
  <2>2. \A k \in 1 .. h : T - 3 - 2 * (k - 1) = T - 1 - 2 * k
    BY <1>6
  <2>3. Accepted(p.iid, T - p.start) <=> \A k \in 1 .. l : w[k] = Byte(T - 1 - 2 * k)
    BY <1>5, <2>1, <2>2
  <2>4. QED BY <1>1, <1>2, <1>3, <1>7, <2>3
<1>8. CASE ~EndsHere(p)
  <2>1. /\ Offset(p) = 1 /\ l = h - 1 /\ \A k \in 1 .. h - 1 : w[k] = OtherFromEnd(p, k + 1)
        /\ firstChar(p) = OtherFromEnd(p, 1)
    BY <1>1, <1>4, <1>8, OwnHalf, TreeWordFacts
  <2>2. Accepted(p.iid, T - p.start)
        <=> \A k \in 1 .. h : OtherFromEnd(p, k) = Byte(T - 1 - 2 * (k - 1))
    BY <1>5, <2>1
  <2>3. ASSUME \A k \in 1 .. h : OtherFromEnd(p, k) = Byte(T - 1 - 2 * (k - 1))
        PROVE  firstChar(p) = Byte(T - 1) /\ \A k \in 1 .. l : w[k] = Byte(T - 1 - 2 * k)
    <3>1. 1 \in 1 .. h /\ T - 1 - 2 * (1 - 1) = T - 1
      BY <1>4, <1>6
    <3>2. firstChar(p) = Byte(T - 1)
      BY <2>1, <2>3, <3>1
    <3>3. ASSUME NEW k \in 1 .. l PROVE w[k] = Byte(T - 1 - 2 * k)
      <4>1. k + 1 \in 1 .. h /\ T - 1 - 2 * ((k + 1) - 1) = T - 1 - 2 * k
        BY <1>6, <2>1
      <4>2. OtherFromEnd(p, k + 1) = Byte(T - 1 - 2 * ((k + 1) - 1))
        BY <2>3, <4>1
      <4>3. QED BY <2>1, <4>1, <4>2
    <3>4. QED BY <3>2, <3>3
  <2>4. ASSUME firstChar(p) = Byte(T - 1), \A k \in 1 .. l : w[k] = Byte(T - 1 - 2 * k),
               NEW k \in 1 .. h
        PROVE  OtherFromEnd(p, k) = Byte(T - 1 - 2 * (k - 1))
    <3>1. CASE k = 1
      <4>1. T - 1 - 2 * (1 - 1) = T - 1
        BY <1>6
      <4>2. QED BY <2>1, <2>4, <3>1, <4>1
    <3>2. CASE k # 1
      <4>1. PICK i \in 1 .. l : k = i + 1
        <5>1. k - 1 \in 1 .. l /\ k = (k - 1) + 1
          BY <2>1, <3>2
        <5>2. QED BY <5>1
      <4>2. w[i] = OtherFromEnd(p, i + 1) /\ w[i] = Byte(T - 1 - 2 * i)
        BY <2>1, <2>4
      <4>3. T - 1 - 2 * (k - 1) = T - 1 - 2 * i
        BY <4>1
      <4>4. QED BY <4>1, <4>2, <4>3
    <3>3. QED BY <3>1, <3>2
  <2>5. QED BY <1>1, <1>2, <1>3, <1>8, <2>2, <2>3, <2>4
<1>9. QED BY <1>7, <1>8

-----------------------------------------------------------------------------
LEMMA TreeFound ==
    ASSUME InputsKept, StreamTracked, mode \notin {4, 12}, NEW d \in Nat,
           \A p \in Entries : TreeWord(p) # << >>
    PROVE  /\ NodeList(Entries, PathToNode(d))
                = {p \in Entries : TreeWord(p) = PathToNode(Len(TreeWord(p))) /\ Len(TreeWord(p)) <= d}
           /\ CountedAt(PathToNode(d))
                = {p \in Entries : Accepted(p.iid, T - p.start) /\ Len(TreeWord(p)) <= d}
<1>1. ASSUME NEW p \in Entries
      PROVE  Len(TreeWord(p)) \in Nat /\ Len(TreeWord(p)) >= 1
  <2>1. TreeWord(p) \in Seq(Char) /\ TreeWord(p) # << >>
    BY OwnHalf, TreeWordFacts
  <2>2. QED BY <2>1
<1>2. ASSUME NEW p
      PROVE  p \in NodeList(Entries, PathToNode(d))
             <=> p \in Entries /\ TreeWord(p) = PathToNode(Len(TreeWord(p))) /\ Len(TreeWord(p)) <= d
  <2>1. p \in NodeList(Entries, PathToNode(d))
        <=> \E k \in 1 .. d : p \in Entries /\ TreeWord(p) = PathToNode(k)
    <3>1. Len(PathToNode(d)) = d /\ \A k \in 1 .. d : SubSeq(PathToNode(d), 1, k) = PathToNode(k)
      BY PathFacts
    <3>2. p \in NodeList(Entries, PathToNode(d))
          <=> \E k \in 1 .. d : p \in OwnList(Entries, SubSeq(PathToNode(d), 1, k))
      BY <3>1 DEF NodeList
    <3>3. QED BY <3>1, <3>2 DEF OwnList
  <2>2. ASSUME NEW k \in 1 .. d, p \in Entries, TreeWord(p) = PathToNode(k)
        PROVE  TreeWord(p) = PathToNode(Len(TreeWord(p))) /\ Len(TreeWord(p)) <= d
    <3>1. k = Len(TreeWord(p))
      BY <2>2, TreeDecides
    <3>2. QED BY <2>2, <3>1
  <2>3. ASSUME p \in Entries, TreeWord(p) = PathToNode(Len(TreeWord(p))), Len(TreeWord(p)) <= d
        PROVE  \E k \in 1 .. d : TreeWord(p) = PathToNode(k)
    <3>1. Len(TreeWord(p)) \in 1 .. d
      BY <1>1, <2>3
    <3>2. QED BY <2>3, <3>1
  <2>4. QED BY <2>1, <2>2, <2>3
<1>3. CountedAt(PathToNode(d)) \subseteq Entries
  BY <1>2 DEF CountedAt
<1>4. ASSUME NEW p \in Entries
      PROVE  p \in CountedAt(PathToNode(d))
             <=> Accepted(p.iid, T - p.start) /\ Len(TreeWord(p)) <= d
  <2>1. Accepted(p.iid, T - p.start)
        <=> TreeWord(p) = PathToNode(Len(TreeWord(p))) /\ (EndsHere(p) \/ firstChar(p) = Byte(T - 1))
    BY TreeDecides
  <2>2. QED BY <1>2, <2>1 DEF CountedAt
<1>5. NodeList(Entries, PathToNode(d)) \subseteq Entries
  BY <1>2
<1>6. QED BY <1>2, <1>3, <1>4, <1>5

LEMMA WalkReaches ==
    ASSUME InputsKept, StreamTracked, mode \notin {4, 12}, NEW p \in Entries,
           TreeWord(p) # << >>, Accepted(p.iid, T - p.start)
    PROVE  Len(TreeWord(p)) \in PathLengths
<1>1. PICK w \in Seq(Char), l \in Nat : w = TreeWord(p) /\ l = Len(w) /\ l >= 1
  <2>1. TreeWord(p) \in Seq(Char)
    BY OwnHalf, TreeWordFacts
  <2>2. QED BY <2>1
<1>2. w = PathToNode(l)
  BY <1>1, TreeDecides
<1>3. SubSeq(w, 1, l) = w
  BY <1>1
<1>4. w \in Nodes(Entries)
  <2>1. l \in 1 .. Len(TreeWord(p)) /\ w = SubSeq(TreeWord(p), 1, l)
    BY <1>1, <1>3
  <2>2. w \in {SubSeq(TreeWord(p), 1, k) : k \in 1 .. Len(TreeWord(p))}
    BY <2>1
  <2>3. QED BY <2>2 DEF Nodes
<1>5. QED BY <1>1, <1>2, <1>4 DEF PathLengths

LEMMA DeepestFacts ==
    ASSUME InputsKept, StreamTracked, mlist \in Nat, mlist >= 1,
           NEW lengths, lengths \subseteq PathLengths, lengths # {}
    PROVE  /\ Deepest(lengths) \in lengths /\ Deepest(lengths) \in Nat
           /\ \A k \in lengths : k <= Deepest(lengths)
<1>1. NearInv /\ T \in Nat
  BY NearHolds DEF StreamTracked
<1>2. \A k \in lengths : k \in Nat /\ k <= T
  <2>1. ASSUME NEW k \in lengths PROVE k \in Nat /\ k <= T
    <3>1. k \in PathLengths
      OBVIOUS
    <3>2. k \in Nat /\ 2 * k <= T
      BY <1>1, <3>1, WalkShort
    <3>3. QED BY <1>1, <3>2
  <2>2. QED BY <2>1
<1>3. lengths \subseteq Nat /\ \A k \in lengths : k <= T
  BY <1>2
<1>4. \E k \in lengths : \A l \in lengths : l <= k
  BY <1>1, <1>3, LargestNumber
<1>5. QED BY <1>3, <1>4 DEF Deepest

LEMMA TreesKeep ==
    ASSUME InputsKept, StreamTracked, CallbackInv, run \in Nat,
           fullMatchCharTree \/ fullMatchBitmapTree
    PROVE  CallbackInv'
<1>1. mode \in {1, 2} /\ mode \notin {4, 9, 12, 14} /\ mode \notin {4, 12}
  BY DEF fullMatchCharTree, fullMatchBitmapTree
<1>2. mlist \in Nat /\ mlist >= 1
  BY ListLength DEF CallbackInv
<1>3. \A p \in Entries : TreeWord(p) # << >>
  BY <1>1 DEF CallbackInv, StreamTracked, Entries, ReverseCrashes
<1>4. ASSUME NEW p \in Entries, Accepted(p.iid, T - p.start)
      PROVE  Len(TreeWord(p)) \in PathLengths
  BY <1>1, <1>3, <1>4, WalkReaches
<1>5. PathLengths # {}
  <2>1. << >> \in Nodes(Entries) /\ Len(<< >>) = 0
    BY DEF Nodes
  <2>2. PathToNode(0) = << >>
    BY DEF PathToNode
  <2>3. QED BY <2>1, <2>2 DEF PathLengths
<1>6. PICK all : all = {p \in Entries : Accepted(p.iid, T - p.start)}
  OBVIOUS
<1>7. PICK lengths : /\ VisitTree(lengths)
                     /\ lengths = IF mode = 1
                                  THEN IF Deepest(PathLengths) \in FinalLengths THEN PathLengths ELSE {}
                                  ELSE FinalLengths
  BY DEF fullMatchCharTree, fullMatchBitmapTree
<1>8. FinalLengths \subseteq PathLengths
  BY DEF FinalLengths
<1>9. ASSUME NEW k \in PathLengths PROVE k \in Nat
  BY <1>2, <1>9, NearHolds, WalkShort
<1>10. ASSUME NEW k \in PathLengths, k \notin FinalLengths, NEW p \in all
       PROVE  ~ (Len(TreeWord(p)) <= k)
  <2>1. NodeList(Entries, PathToNode(k)) = {}
    BY <1>10 DEF FinalLengths, isFinalNode
  <2>2. p \in CountedAt(PathToNode(k)) <=> Len(TreeWord(p)) <= k
    BY <1>1, <1>3, <1>6, <1>9, <1>10, TreeFound
  <2>3. QED BY <2>1, <2>2 DEF CountedAt
<1>11. ASSUME NEW p \in all PROVE Len(TreeWord(p)) \in FinalLengths
  <2>1. Len(TreeWord(p)) \in PathLengths
    BY <1>4, <1>6
  <2>2. Len(TreeWord(p)) \in Nat /\ Len(TreeWord(p)) <= Len(TreeWord(p))
    BY <1>9, <2>1
  <2>3. QED BY <1>10, <2>1, <2>2
<1>12. CASE lengths = {}
  <2>1. all = {}
    <3>1. SUFFICES ASSUME NEW p \in all PROVE FALSE
      OBVIOUS
    <3>2. Len(TreeWord(p)) \in FinalLengths /\ Len(TreeWord(p)) \in PathLengths
      BY <1>8, <1>11
    <3>3. mode = 1 /\ Deepest(PathLengths) \notin FinalLengths
      BY <1>5, <1>7, <1>12, <3>2
    <3>4. /\ Deepest(PathLengths) \in PathLengths
          /\ Len(TreeWord(p)) <= Deepest(PathLengths)
      BY <1>2, <1>5, <3>2, DeepestFacts
    <3>5. QED BY <1>10, <3>3, <3>4
  <2>2. VisitAll({}, Cardinality({})) /\ UNCHANGED strays
    BY <1>7, <1>12 DEF VisitTree
  <2>3. VisitAll(all, Cardinality(all))
    BY <2>1, <2>2
  <2>4. QED BY <1>1, <1>6, <2>2, <2>3, VisitAllUnmarked
<1>13. CASE lengths # {}
  <2>1. lengths \subseteq PathLengths
    BY <1>7, <1>8
  <2>2. PICK d \in Nat : d = Deepest(lengths) /\ \A k \in lengths : k <= d
    BY <1>2, <1>13, <2>1, DeepestFacts
  <2>3. \A p \in all : Len(TreeWord(p)) <= d
    BY <1>7, <1>8, <1>11, <1>13, <2>2
  <2>4. CountedAt(PathToNode(d)) = all
    <3>1. CountedAt(PathToNode(d))
            = {p \in Entries : Accepted(p.iid, T - p.start) /\ Len(TreeWord(p)) <= d}
      BY <1>1, <1>3, TreeFound
    <3>2. QED BY <1>6, <2>3, <3>1
  <2>5. VisitAll(all, Cardinality(all)) /\ UNCHANGED strays
    BY <1>7, <1>13, <2>2, <2>4 DEF VisitTree
  <2>6. QED BY <1>1, <1>6, <2>5, VisitAllUnmarked
<1>14. QED BY <1>12, <1>13

-----------------------------------------------------------------------------
(* Mode 4: the automaton reads the skipped bytes.                          *)

LEMMA OtherHalfRead ==
    ASSUME NEW p, NEW q, NEW f, IsHalf(p, q, f), NEW x \in Nat, NEW y \in Int, y = x - Offset(p) + 2
    PROVE  HalfRead(q, 1 - f, y)
           <=> \A k \in 1 .. OtherLength(p) : OtherFromEnd(p, k) = Byte(x - Offset(p) - 2 * (k - 1))
<1>1. PICK h \in Nat, ie \in Nat, c \in Int :
        /\ h = OtherLength(p) /\ h = HalfLength(Len(q), 1 - f) /\ h >= 1
        /\ ie = p.indexEnd /\ ie = 2 * h - 1 - f /\ c = Offset(p) /\ p.origin = q
  <2>1. Offset(p) \in Int
    BY OffsetValue
  <2>2. QED BY <2>1, HalfNumbers, ZenonT(40)
<1>2. PICK g \in 0 .. 1 : g = f
  BY DEF IsHalf
<1>3. HalfRead(q, 1 - g, y)
      <=> \A j \in 1 .. h : At(q, 2 * j - 2 + (1 - g)) = At(Memory, y + 3 - 2 - 2 * (h - j))
  <2>1. HalfLength(Len(q), 1 - g) = h /\ 1 - f = 1 - g
    BY <1>1, <1>2
  <2>2. HalfRead(q, 1 - g, y) <=> HalfStands(q, Memory, 1 - g, h, y + 3)
    BY <2>1 DEF HalfRead, MaxFront
  <2>3. QED BY <2>2 DEF HalfStands
<1>4. ASSUME NEW j \in 1 .. h, NEW k \in 1 .. h, j + k = h + 1
      PROVE  /\ OtherFromEnd(p, k) = At(q, 2 * j - 2 + (1 - g))
             /\ Byte(x - c - 2 * (k - 1)) = At(Memory, y + 3 - 2 - 2 * (h - j))
  <2>1. ie - 2 * (k - 1) = 2 * j - 2 + (1 - g)
    <3>1. ie = 2 * h - 1 - g
      BY <1>1, <1>2
    <3>2. k = h + 1 - j
      BY ONLY <1>4, h \in Nat
    <3>3. QED BY <3>1, <3>2
  <2>2. x - c - 2 * (k - 1) + 3 = y + 3 - 2 - 2 * (h - j)
    <3>1. y = x - c + 2
      BY <1>1
    <3>2. k = h + 1 - j
      BY ONLY <1>4, h \in Nat
    <3>3. QED BY <3>1, <3>2
  <2>3. QED BY <1>1, <2>1, <2>2 DEF OtherFromEnd, Byte, MaxFront
<1>5. ASSUME NEW k \in 1 .. h PROVE \E j \in 1 .. h : j + k = h + 1
  <2>1. h + 1 - k \in 1 .. h /\ (h + 1 - k) + k = h + 1
    OBVIOUS
  <2>2. QED BY <2>1
<1>6. ASSUME HalfRead(q, 1 - g, y), NEW k \in 1 .. h
      PROVE  OtherFromEnd(p, k) = Byte(x - c - 2 * (k - 1))
  <2>1. PICK j \in 1 .. h : j + k = h + 1
    BY <1>5
  <2>2. QED BY <1>3, <1>4, <1>6, <2>1
<1>7. ASSUME \A k \in 1 .. h : OtherFromEnd(p, k) = Byte(x - c - 2 * (k - 1)), NEW j \in 1 .. h
      PROVE  At(q, 2 * j - 2 + (1 - g)) = At(Memory, y + 3 - 2 - 2 * (h - j))
  <2>1. PICK k \in 1 .. h : k + j = h + 1 /\ j + k = h + 1
    BY <1>5
  <2>2. QED BY <1>4, <1>7, <2>1
<1>8. QED BY <1>1, <1>2, <1>3, <1>6, <1>7

(* The states of the second walk: the recursive definition has a value.    *)
IsWalk(f, m) ==
    f = [n \in 0 .. m |->
            IF n = 0 THEN 0 ELSE acsm.acsmNextState[f[n - 1]][Byte(T - 1 - 2 * (m - n))]]

LEMMA DepthFacts ==
    ASSUME InputsKept, StreamTracked, mlist \in Nat, mlist >= 1
    PROVE  /\ Depth \in Nat /\ 2 * Depth <= T /\ T \in Nat
           /\ mode = 4 => \A n \in 1 .. Depth + 1 : Byte(T - 1 - 2 * ((Depth + 1) - n)) \in Char
<1>1. NearInv
  BY NearHolds
<1>2. Depth \in Nat /\ 2 * Depth <= T /\ T \in Nat
  BY <1>1, AutomatonFacts, LenType DEF NearInv, Depth
<1>3. Tend \in Nat /\ Behind \in 1 .. 2 /\ T <= Tend + 1
      /\ \A i \in -3 .. Tend + Behind - 1 : Byte(i) \in Char
  BY MemoryFacts DEF StreamTracked
<1>4. ASSUME NEW n \in 1 .. Depth + 1 PROVE Byte(T - 1 - 2 * ((Depth + 1) - n)) \in Char
  <2>1. T - 1 - 2 * ((Depth + 1) - n) \in -3 .. Tend
    BY <1>2, <1>3
  <2>2. T - 1 - 2 * ((Depth + 1) - n) \in -3 .. Tend + Behind - 1
    BY <1>3, <2>1
  <2>3. QED BY <1>3, <2>2
<1>5. QED BY <1>2, <1>4

LEMMA WalkExists ==
    ASSUME InputsKept, NEW m \in Nat, \A n \in 1 .. m : Byte(T - 1 - 2 * (m - n)) \in Char
    PROVE  \E f : IsWalk(f, m) /\ f \in [0 .. m -> States(acsm)]
<1>1. PICK S, next : /\ S = States(acsm) /\ next = acsm.acsmNextState
                     /\ next \in [S -> [Char -> S]] /\ 0 \in S
  BY AutomatonFacts DEF InputsKept
<1> DEFINE G == [n \in 1 .. m |-> [s \in S |-> next[s][Byte(T - 1 - 2 * (m - n))]]]
<1>2. G \in [1 .. m -> [S -> S]]
  BY <1>1
<1>3. \A n \in 1 .. m, s \in S : G[n][s] = next[s][Byte(T - 1 - 2 * (m - n))]
  OBVIOUS
<1> HIDE DEF G
<1>4. PICK f : Iteration(f, S, 0, m, G)
  BY <1>1, <1>2, IterationExists
<1>5. f \in [0 .. m -> S]
  BY <1>4 DEF Iteration
<1>6. ASSUME NEW n \in 0 .. m
      PROVE  f[n] = IF n = 0 THEN 0 ELSE next[f[n - 1]][Byte(T - 1 - 2 * (m - n))]
  <2>1. CASE n = 0
    BY <1>4, <2>1 DEF Iteration
  <2>2. CASE n # 0
    <3>1. n \in 1 .. m /\ n - 1 \in 0 .. m
      BY <2>2
    <3>2. f[n - 1] \in S /\ f[n] = G[n][f[n - 1]]
      BY <1>4, <1>5, <3>1 DEF Iteration
    <3>3. QED BY <1>3, <2>2, <3>1, <3>2
  <2>3. QED BY <2>1, <2>2
<1>7. f = [n \in 0 .. m |-> f[n]]
  BY <1>5
<1>8. f = [n \in 0 .. m |-> IF n = 0 THEN 0 ELSE next[f[n - 1]][Byte(T - 1 - 2 * (m - n))]]
  BY <1>6, <1>7
<1>9. QED BY <1>1, <1>5, <1>8 DEF IsWalk

LEMMA WalkUnique ==
    ASSUME NEW m \in Nat, NEW f, IsWalk(f, m), NEW g, IsWalk(g, m)
    PROVE  f = g
<1> DEFINE Bad == {n \in Nat : n <= m /\ f[n] # g[n]}
<1>1. /\ \A n \in 0 .. m : f[n] = IF n = 0 THEN 0 ELSE acsm.acsmNextState[f[n - 1]][Byte(T - 1 - 2 * (m - n))]
      /\ f = [n \in 0 .. m |-> f[n]]
  BY DEF IsWalk
<1>2. /\ \A n \in 0 .. m : g[n] = IF n = 0 THEN 0 ELSE acsm.acsmNextState[g[n - 1]][Byte(T - 1 - 2 * (m - n))]
      /\ g = [n \in 0 .. m |-> g[n]]
  BY DEF IsWalk
<1>3. Bad = {}
  <2>1. SUFFICES ASSUME Bad # {} PROVE FALSE
    OBVIOUS
  <2>2. PICK n \in Bad : \A k \in Bad : n <= k
    <3>1. Bad \subseteq Nat
      OBVIOUS
    <3> HIDE DEF Bad
    <3>2. QED BY <2>1, <3>1, SmallestNumber
  <2>3. n \in 0 .. m /\ f[n] # g[n]
    OBVIOUS
  <2>4. n # 0
    BY <1>1, <1>2, <2>3
  <2>5. n - 1 \in Nat /\ n - 1 <= m /\ ~ (n <= n - 1)
    BY <2>3, <2>4
  <2>6. f[n - 1] = g[n - 1]
    BY <2>2, <2>5
  <2>7. QED BY <1>1, <1>2, <2>3, <2>4, <2>6, ZenonT(40)
<1>4. \A n \in 0 .. m : f[n] = g[n]
  BY <1>3
<1>5. QED
  <2> HIDE DEF Bad
  <2>1. QED BY <1>1, <1>2, <1>4

-----------------------------------------------------------------------------
SkippedStream(m) == [k \in 1 .. m |-> Byte(T - 1 - 2 * (m - k))]

IsSubStates(f) ==
    f = [n \in 0 .. Depth + 1 |->
            IF n = 0 THEN 0 ELSE acsm.acsmNextState[f[n - 1]][Byte(T - 1 - 2 * (Depth + 1 - n))]]

LEMMA SubStatesIsWalk ==
    ASSUME T \in Nat, Depth \in Nat, NEW m \in Nat, m = Depth + 1, NEW f
    PROVE  IsSubStates(f) <=> IsWalk(f, m)
<1>1. 0 .. Depth + 1 = 0 .. m
  OBVIOUS
<1>2. \A n \in 0 .. m : Byte(T - 1 - 2 * (Depth + 1 - n)) = Byte(T - 1 - 2 * (m - n))
  <2>1. \A n \in 0 .. m : T - 1 - 2 * (Depth + 1 - n) = T - 1 - 2 * (m - n)
    OBVIOUS
  <2>2. QED BY <2>1
<1> DEFINE g == [n \in 0 .. Depth + 1 |->
                    IF n = 0 THEN 0 ELSE acsm.acsmNextState[f[n - 1]][Byte(T - 1 - 2 * (Depth + 1 - n))]]
           h == [n \in 0 .. m |->
                    IF n = 0 THEN 0 ELSE acsm.acsmNextState[f[n - 1]][Byte(T - 1 - 2 * (m - n))]]
<1>3. \A n \in 0 .. m : g[n] = h[n]
  BY <1>1, <1>2
<1>4. g = [n \in 0 .. m |-> g[n]] /\ h = [n \in 0 .. m |-> h[n]]
  BY <1>1
<1>5. g = h
  <2> HIDE DEF g, h
  <2>1. QED BY <1>3, <1>4
<1>6. QED BY <1>5 DEF IsSubStates, IsWalk

LEMMA SubStatesWalk ==
    ASSUME InputsKept, StreamTracked, mlist \in Nat, mlist >= 1, mode = 4,
           NEW m \in Nat, m = Depth + 1
    PROVE  /\ SubStates \in [0 .. m -> States(acsm)]
           /\ SubStates[0] = 0
           /\ \A n \in 1 .. m : /\ SkippedStream(m)[n] \in Char
                                /\ SubStates[n] = acsm.acsmNextState[SubStates[n - 1]][SkippedStream(m)[n]]
<1>1. \A n \in 1 .. m : Byte(T - 1 - 2 * (m - n)) \in Char
  BY DepthFacts
<1>2. PICK f : IsWalk(f, m) /\ f \in [0 .. m -> States(acsm)]
  BY <1>1, WalkExists
<1>3. SubStates = CHOOSE g : IsSubStates(g)
  BY DEF SubStates, IsSubStates
<1>4. IsWalk(SubStates, m)
  <2>1. IsSubStates(f)
    BY <1>2, DepthFacts, SubStatesIsWalk
  <2>2. IsSubStates(SubStates)
    BY <1>3, <2>1, Zenon
  <2>3. QED BY <2>2, DepthFacts, SubStatesIsWalk
<1>5. SubStates = f
  BY <1>2, <1>4, WalkUnique
<1>6. f[0] = 0 /\ \A n \in 1 .. m : f[n] = acsm.acsmNextState[f[n - 1]][Byte(T - 1 - 2 * (m - n))]
  BY <1>2, SMTT(90) DEF IsWalk
<1>7. \A n \in 1 .. m : SkippedStream(m)[n] = Byte(T - 1 - 2 * (m - n))
  BY DEF SkippedStream
<1>8. QED BY <1>1, <1>2, <1>5, <1>6, <1>7

LEMMA SubStatesRead ==
    ASSUME InputsKept, StreamTracked, mlist \in Nat, mlist >= 1, mode = 4,
           NEW m \in Nat, m = Depth + 1, NEW i \in 0 .. m
    PROVE  SubStates[i] \in States(acsm) /\ Reads(acsm.label, SkippedStream(m), i, SubStates[i])
<1>1. /\ acsm.label \in [States(acsm) -> Seq(Char)]
      /\ acsm.acsmNextState \in [States(acsm) -> [Char -> States(acsm)]]
      /\ IsTrie(acsm.label, acsm.plist)
      /\ \A s \in States(acsm), c \in Char :
           IsLongestSuffix(acsm.label, acsm.acsmNextState[s][c], Append(acsm.label[s], c))
  BY AutomatonFacts DEF InputsKept
<1>2. PICK S, label, next, strm, walk :
        /\ S = States(acsm) /\ label = acsm.label /\ next = acsm.acsmNextState
        /\ label \in [S -> Seq(Char)]
        /\ strm = SkippedStream(m) /\ walk = SubStates
  BY <1>1
<1>3. /\ walk \in [0 .. m -> S] /\ walk[0] = 0
      /\ \A n \in 1 .. m : strm[n] \in Char /\ walk[n] = next[walk[n - 1]][strm[n]]
  BY <1>2, SubStatesWalk
<1>4. /\ \A q \in S : label[q] # << >> => \E r \in S : IsFrontOf(label[r], label[q])
      /\ label[0] = << >>
      /\ \A q \in S : Len(label[q]) \in Nat
      /\ DOMAIN label = S
  BY <1>1, <1>2 DEF IsTrie
<1>5. \A s \in S, c \in Char : IsLongestSuffix(label, next[s][c], Append(label[s], c))
  BY <1>1, <1>2
<1> DEFINE Bad == {n \in Nat : n <= m /\ ~ Reads(label, strm, n, walk[n])}
<1>6. Bad = {}
  <2>1. SUFFICES ASSUME Bad # {} PROVE FALSE
    OBVIOUS
  <2>2. PICK n \in Bad : \A k \in Bad : n <= k
    <3>1. Bad \subseteq Nat
      OBVIOUS
    <3> HIDE DEF Bad
    <3>2. QED BY <2>1, <3>1, SmallestNumber
  <2>3. n \in Nat /\ n <= m /\ ~ Reads(label, strm, n, walk[n])
    OBVIOUS
  <2>4. n # 0
    <3>1. Reads(label, strm, 0, 0)
      BY <1>4, ReadsStart
    <3>2. QED BY <1>3, <2>3, <3>1
  <2>5. PICK x \in Nat : n = x + 1 /\ x <= m /\ ~ (n <= x)
    <3>1. n - 1 \in Nat /\ n = (n - 1) + 1 /\ n - 1 <= m /\ ~ (n <= n - 1)
      BY <2>3, <2>4
    <3>2. QED BY <3>1
  <2>6. Reads(label, strm, x, walk[x])
    BY <2>2, <2>5
  <2>7. n \in 1 .. m /\ n - 1 = x /\ x \in 0 .. m /\ n \in 0 .. m
    BY <2>3, <2>5
  <2>8. At(strm, x) = strm[n] /\ At(strm, x) \in Char /\ walk[n] = next[walk[x]][At(strm, x)]
    BY <1>3, <2>5, <2>7 DEF At
  <2>9. walk[x] \in S /\ walk[n] \in S
    BY <1>3, <2>7
  <2>10. IsLongestSuffix(label, walk[n], Append(label[walk[x]], At(strm, x)))
    BY <1>5, <2>8, <2>9
  <2>11. Reads(label, strm, x + 1, walk[n])
    BY <1>2, <1>4, <2>6, <2>8, <2>9, <2>10, ReadsNext
  <2>12. QED BY <2>3, <2>5, <2>11
<1>7. QED
  <2>1. i \in Nat /\ i <= m /\ walk[i] \in S
    BY <1>3
  <2>2. Reads(label, strm, i, walk[i])
    BY <1>6, <2>1
  <2>3. QED BY <1>2, <2>1, <2>2

(* A half in the list of the n-th of these states.                         *)
LEMMA SiblingListed ==
    ASSUME InputsKept, StreamTracked, mlist \in Nat, mlist >= 1, mode = 4,
           NEW m \in Nat, m = Depth + 1, NEW n \in 0 .. m,
           NEW e \in DOMAIN acsm.plist, NEW q, q = acsm.patterns[acsm.plist[e].iid],
           NEW f, f = acsm.plist[e].flag,
           NEW y \in Int, y = T + 1 - 2 * (m - n)
    PROVE  acsm.plist[e] \in EntriesOf(SubStates[n])
           <=> HalfLength(Len(q), f) <= n /\ HalfRead(q, f, y)
<1>1. PICK s : s = SubStates[n] /\ s \in States(acsm) /\ Reads(acsm.label, SkippedStream(m), n, s)
  BY SubStatesRead
<1>2. /\ acsm \in Automata
      /\ acsm.label \in [States(acsm) -> Seq(Char)]
      /\ IsTrie(acsm.label, acsm.plist)
      /\ ListsSuffixes(acsm.acsmMatchList[s], acsm.plist, acsm.label[s])
      /\ acsm.acsmMatchList[s] \in Seq(DOMAIN acsm.plist)
  BY <1>1, AutomatonFacts DEF InputsKept
<1>3. q \in Seq(Char) /\ Len(q) \in Nat /\ Len(q) >= 2 /\ f \in 0 .. 1
      /\ acsm.plist[e].patrn = Half(q, f)
  <2>1. PICK id : id = acsm.plist[e].iid
    OBVIOUS
  <2>2. id \in Halved(acsm) /\ f \in 0 .. 1 /\ acsm.plist[e] = SubPatternOf(q, id, f)
    BY <1>2, <2>1, PlistFacts
  <2>3. q \in Seq(Char) /\ Len(q) \in Nat /\ Len(q) >= 2
    BY <1>2, <2>1, <2>2, HalvedFacts
  <2>4. PICK p : p = acsm.plist[e]
    OBVIOUS
  <2>5. p = SubPatternOf(q, id, f)
    BY <2>2, <2>4
  <2>6. p.patrn = Half(q, f)
    BY <2>5, SubPatternFields
  <2>7. QED BY <2>2, <2>3, <2>4, <2>6
<1>4. acsm.plist[e] \in EntriesOf(s)
      <=> \E j \in 1 .. Len(acsm.acsmMatchList[s]) : acsm.acsmMatchList[s][j] = e
  <2>1. PICK w \in Seq(DOMAIN acsm.plist) : w = acsm.acsmMatchList[s]
    BY <1>2
  <2>2. DOMAIN w = 1 .. Len(w) /\ \A j \in 1 .. Len(w) : w[j] \in DOMAIN acsm.plist
    OBVIOUS
  <2>3. acsm.plist[e] \in EntriesOf(s) <=> \E j \in 1 .. Len(w) : acsm.plist[e] = acsm.plist[w[j]]
    BY <2>1, <2>2 DEF EntriesOf
  <2>4. ASSUME NEW j \in 1 .. Len(w), acsm.plist[e] = acsm.plist[w[j]] PROVE w[j] = e
    <3>1. PICK d \in DOMAIN acsm.plist : d = w[j]
      BY <2>2
    <3>2. acsm.plist[d].iid = acsm.plist[e].iid /\ acsm.plist[d].flag = acsm.plist[e].flag
      BY <2>4, <3>1
    <3>3. QED BY <1>2, <3>1, <3>2, HalvesListed
  <2>5. QED BY <2>1, <2>3, <2>4
<1>5. acsm.plist[e] \in EntriesOf(s) <=> EndsWith(acsm.label[s], Half(q, f))
  BY <1>2, <1>3, <1>4 DEF ListsSuffixes
<1>6. PICK r \in States(acsm) : acsm.label[r] = Half(q, f)
  BY <1>2, <1>3 DEF IsTrie
<1>7. EndsWith(acsm.label[s], acsm.label[r]) <=> PrefixEndsWith(SkippedStream(m), n, acsm.label[r])
  <2>1. \A i \in States(acsm) : Len(acsm.label[i]) \in Nat
    BY <1>2
  <2>2. DOMAIN acsm.label = States(acsm)
    BY <1>2
  <2>3. n \in Nat
    OBVIOUS
  <2>4. QED BY <1>1, <2>1, <2>2, <2>3, ReadsLists
<1>8. PrefixEndsWith(SkippedStream(m), n, Half(q, f)) <=> HalfLength(Len(q), f) <= n /\ HalfRead(q, f, y)
  <2>1. T \in Nat
    BY DEF StreamTracked
  <2>2. PICK c, strm : c \in Int /\ c = T - 1 - 2 * m /\ strm = SkippedStream(m)
    BY <2>1
  <2>3. \A k \in 1 .. m : strm[k] = Byte(c + 2 * k)
    <3>1. \A k \in 1 .. m : T - 1 - 2 * (m - k) = c + 2 * k
      BY <2>1, <2>2
    <3>2. QED BY <2>2, <3>1 DEF SkippedStream
  <2>4. c + 2 * n + 2 = y
    BY <2>1, <2>2
  <2>5. c \in Int
    BY <2>2
  <2>6. PrefixEndsWith(strm, n, Half(q, f)) <=> HalfLength(Len(q), f) <= n /\ HalfRead(q, f, c + 2 * n + 2)
    BY <1>3, <2>3, <2>5, HalfOfStream, ZenonT(40)
  <2>7. QED BY <2>2, <2>4, <2>6
<1>9. QED BY <1>1, <1>5, <1>6, <1>7, <1>8

LEMMA HalfListed ==
    ASSUME InputsKept, StreamTracked, mlist \in Nat, mlist >= 1, mode = 4,
           NEW e \in DOMAIN acsm.plist, NEW q, q = acsm.patterns[acsm.plist[e].iid],
           NEW f, f = acsm.plist[e].flag
    PROVE  \A n \in 0 .. Depth + 1 :
             acsm.plist[e] \in EntriesOf(SubStates[n])
             <=> HalfLength(Len(q), f) <= n /\ HalfRead(q, f, T + 1 - 2 * ((Depth + 1) - n))
<1>1. PICK m \in Nat : m = Depth + 1 /\ T \in Nat
  BY DepthFacts
<1>2. ASSUME NEW n \in 0 .. m
      PROVE  acsm.plist[e] \in EntriesOf(SubStates[n])
             <=> HalfLength(Len(q), f) <= n /\ HalfRead(q, f, T + 1 - 2 * (m - n))
  <2>1. PICK y \in Int : y = T + 1 - 2 * (m - n)
    BY <1>1
  <2>2. acsm.plist[e] \in EntriesOf(SubStates[n]) <=> HalfLength(Len(q), f) <= n /\ HalfRead(q, f, y)
    BY <1>1, <2>1, SiblingListed
  <2>3. QED BY <2>1, <2>2
<1>3. QED BY <1>1, <1>2

-----------------------------------------------------------------------------
(* What the second walk finds: the halves it meets where they are marked,  *)
(* by a half of the list or, at 0, by none.                                *)
Marked ==
    {x \in (0 .. Depth + 1) \X (DOMAIN acsm.plist) :
        /\ acsm.plist[x[2]] \in EntriesOf(SubStates[x[1]])
        /\ selfMark(acsm.plist[x[2]]) = x[1] - 1}

Paired == {x \in Marked : Siblings(acsm.plist[x[2]]) # {}}

Unpaired == {x \in Marked : Siblings(acsm.plist[x[2]]) = {}}

(* After how many of its bytes the mark wants the other half of p. *)
OtherEnd(p) == IF Len(p.origin) < 4 \/ EndsHere(p) THEN Depth ELSE Depth + 1

(* The depth of the state is that of any state the bytes read lead to.     *)
LEMMA DepthNow ==
    ASSUME InputsKept, StreamTracked, NEW n
    PROVE  Depth \in Nat /\ (DepthAt(n, T) <=> n = Depth)
<1>1. /\ acsm.label \in [States(acsm) -> Seq(Char)] /\ state \in States(acsm)
      /\ Reads(acsm.label, EvenStream, T \div 2, state)
  BY AutomatonFacts DEF InputsKept, StreamTracked
<1>2. DOMAIN acsm.label = States(acsm) /\ \A s \in States(acsm) : Len(acsm.label[s]) \in Nat
  BY <1>1
<1>3. ASSUME NEW s \in States(acsm), Reads(acsm.label, EvenStream, T \div 2, s)
      PROVE  Len(acsm.label[s]) = Len(acsm.label[state])
  <2>1. /\ Len(acsm.label[s]) <= Len(acsm.label[state])
        /\ Len(acsm.label[state]) <= Len(acsm.label[s])
    BY <1>1, <1>2, <1>3 DEF Reads
  <2>2. Len(acsm.label[s]) \in Nat /\ Len(acsm.label[state]) \in Nat
    BY <1>1, <1>2
  <2>3. QED BY <2>1, <2>2
<1>4. QED BY <1>1, <1>2, <1>3 DEF DepthAt, Depth

LEMMA SiblingMark ==
    ASSUME InputsKept, StreamTracked, mlist \in Nat, mlist >= 1, mode = 4,
           NEW p \in Entries, NEW e \in DOMAIN acsm.plist,
           acsm.plist[e].iid = p.iid, acsm.plist[e].flag # p.flag
    PROVE  /\ OtherEnd(p) \in 0 .. Depth + 1
           /\ selfMark(acsm.plist[e]) = OtherEnd(p) - 1
           /\ acsm.plist[e] \in EntriesOf(SubStates[OtherEnd(p)]) <=> Accepted(p.iid, T - p.start)
<1>1. PICK q, f, id, o : q = acsm.patterns[id] /\ f = p.flag /\ id = p.iid /\ o = T - p.start
  OBVIOUS
<1>2. PICK i \in 1 .. Len(MatchList) : p = acsm.plist[MatchList[i]]
  BY ListLength
<1>3. /\ IsHalf(p, q, f) /\ id \in Halved(acsm) /\ f \in 0 .. 1
      /\ p.origin = q
  <2>1. IsHalf(p, q, f)
    BY <1>1, OwnHalf
  <2>2. id \in Halved(acsm)
    BY <1>1, <1>2, EntryIsPlace
  <2>3. QED BY <2>1, <2>2, HalfNumbers DEF IsHalf
<1>4. PICK l \in Nat : l = Len(q) /\ l >= 2
  BY <1>3 DEF IsHalf
<1>5. acsm.plist[e].flag = 1 - f
  <2>1. acsm.plist[e].flag \in 0 .. 1
    BY PlistFacts DEF InputsKept
  <2>2. QED BY <1>1, <1>3, <2>1
<1>6. PICK D \in Nat : D = Depth /\ T \in Nat
  BY DepthFacts
<1>7. OtherEnd(p) \in 0 .. Depth + 1 /\ OtherEnd(p) \in Nat
  BY <1>6 DEF OtherEnd
<1>8. selfMark(acsm.plist[e]) = OtherEnd(p) - 1
  <2>1. PICK b : b = acsm.plist[e]
    OBVIOUS
  <2>2. p \in Siblings(b)
    BY <2>1 DEF Siblings
  <2>3. ASSUME NEW s \in Siblings(b) PROVE s = p
    <3>1. PICK j \in 1 .. Len(MatchList) : s = acsm.plist[MatchList[j]]
      BY ListLength DEF Siblings
    <3>2. s.flag \in 0 .. 1
      BY <3>1, EntryIsPlace
    <3>3. s.iid = p.iid /\ s.flag = p.flag
      BY <1>1, <1>3, <1>5, <2>1, <3>2 DEF Siblings
    <3>4. i = j
      BY <1>2, <3>1, <3>3, ListedOnce
    <3>5. QED BY <1>2, <3>1, <3>4
  <2>4. (CHOOSE s \in Siblings(b) : TRUE) = p
    <3>1. (CHOOSE s \in Siblings(b) : TRUE) \in Siblings(b)
      BY <2>2
    <3>2. QED BY <2>3, <3>1
  <2>5. selfMark(b) = matchDepth(p)
    BY <2>2, <2>4 DEF selfMark
  <2>6. matchDepth(p) = OtherEnd(p) - 1
    BY <1>6 DEF matchDepth, OtherEnd
  <2>7. QED BY <2>1, <2>5, <2>6
<1>9. PICK h \in Nat : h = HalfLength(l, 1 - f)
  <2>1. 1 - f \in 0 .. 1 /\ l >= 2
    BY <1>3, <1>4
  <2>2. QED BY <2>1, HalvesAlike
<1>10. PICK y \in Int : y = T + 1 - 2 * ((D + 1) - OtherEnd(p))
  BY <1>6, <1>7
<1>11. acsm.plist[e] \in EntriesOf(SubStates[OtherEnd(p)])
       <=> h <= OtherEnd(p) /\ HalfRead(q, 1 - f, y)
  <2>1. PICK m \in Nat, n \in Nat : /\ m = Depth + 1 /\ n = OtherEnd(p) /\ n \in 0 .. m
                                    /\ y = T + 1 - 2 * (m - n)
    BY <1>6, <1>7, <1>10, SMTT(40)
  <2>2. q = acsm.patterns[acsm.plist[e].iid] /\ 1 - f = acsm.plist[e].flag
    BY <1>1, <1>5
  <2>3. PICK g : g = 1 - f /\ g = acsm.plist[e].flag
    BY <2>2
  <2>4. acsm.plist[e] \in EntriesOf(SubStates[n]) <=> HalfLength(Len(q), g) <= n /\ HalfRead(q, g, y)
    <3>1. \A k \in 0 .. Depth + 1 :
            acsm.plist[e] \in EntriesOf(SubStates[k])
            <=> /\ HalfLength(Len(q), g) <= k
                /\ HalfRead(q, g, T + 1 - 2 * ((Depth + 1) - k))
      BY <2>2, <2>3, HalfListed
    <3>2. n \in 0 .. Depth + 1 /\ y = T + 1 - 2 * ((Depth + 1) - n)
      BY <2>1
    <3>3. QED BY <3>1, <3>2
  <2>5. QED BY <1>4, <1>9, <2>1, <2>3, <2>4
<1>12. Misplaced(<<id, o>>) <=> Len(p.origin) < 4 /\ ~EndsHere(p)
  BY <1>1, <1>3, MisplacedEntry DEF StreamTracked
<1>13. ASSUME ~Misplaced(<<id, o>>)
       PROVE  h <= OtherEnd(p) /\ HalfRead(q, 1 - f, y) <=> Accepted(id, o)
  <2>1. OtherEnd(p) = IF EndsHere(p) THEN D ELSE D + 1
    BY <1>6, <1>12, <1>13 DEF OtherEnd
  <2>2. h <= OtherEnd(p)
    <3>1. PICK g \in Nat : g = HalfLength(l, f) /\ g <= D
      <4>1. acsm \in Automata /\ state \in States(acsm)
        BY DEF InputsKept, StreamTracked
      <4>2. HalfLength(Len(p.origin), p.flag) <= Len(acsm.label[state])
        BY <1>2, <4>1, EntryFacts DEF MatchList
      <4>3. HalfLength(l, f) \in Nat
        BY <1>3, <1>4, HalvesAlike
      <4>4. QED BY <1>1, <1>3, <1>4, <1>6, <4>2, <4>3 DEF Depth
    <3>2. /\ f = Same(l) => 2 * h <= 2 * g
          /\ f # Same(l) => 2 * (h - 1) <= 2 * g
      BY <1>3, <1>4, <1>9, <3>1, HalvesAlike
    <3>3. EndsHere(p) <=> f = Same(l)
      BY <1>1, <1>3, <1>4 DEF EndsHere
    <3>4. CASE EndsHere(p)
      BY <1>6, <2>1, <3>1, <3>2, <3>3, <3>4
    <3>5. CASE ~EndsHere(p)
      BY <1>6, <2>1, <3>1, <3>2, <3>3, <3>5
    <3>6. QED BY <3>4, <3>5
  <2>3. y = T - Offset(p) + 2
    <3>1. Offset(p) = IF EndsHere(p) THEN 3 ELSE 1
      BY OwnHalf
    <3>2. QED BY <1>6, <1>10, <2>1, <3>1
  <2>4. HalfRead(q, 1 - f, y)
        <=> \A k \in 1 .. OtherLength(p) : OtherFromEnd(p, k) = Byte(T - Offset(p) - 2 * (k - 1))
    BY <1>3, <1>6, <1>10, <2>3, OtherHalfRead
  <2>5. QED BY <1>1, <1>13, <2>2, <2>4, OwnDecided
<1>14. ASSUME Misplaced(<<id, o>>)
       PROVE  h <= OtherEnd(p) /\ HalfRead(q, 1 - f, y) <=> Accepted(id, o)
  <2>1. OtherEnd(p) = D /\ y = T - 1
    <3>1. OtherEnd(p) = D
      BY <1>6, <1>12, <1>14 DEF OtherEnd
    <3>2. QED BY <1>6, <1>10, <3>1
  <2>2. Accepted(id, o) <=> FoundEarly(id, o)
    BY <1>14 DEF Accepted
  <2>3. o % 2 = f /\ TurnOf(id, o) = T
    BY <1>1, <1>2, EntryIsPlace
  <2>4. FoundEarly(id, o)
        <=> \E n \in Nat : DepthAt(n, T) /\ HalfLength(Len(q), 1 - f) <= n /\ HalfRead(q, 1 - f, T - 1)
    BY <1>1, <2>3 DEF FoundEarly
  <2>5. \A n : DepthAt(n, T) <=> n = D
    BY <1>6, DepthNow
  <2>6. QED BY <1>4, <1>9, <2>1, <2>2, <2>4, <2>5
<1>15. QED BY <1>1, <1>7, <1>8, <1>11, <1>13, <1>14

LEMMA MarkedHasSibling ==
    ASSUME InputsKept, StreamTracked, mlist \in Nat, mlist >= 1, mode = 4, NEW x \in Paired
    PROVE  \E p \in Entries :
             /\ acsm.plist[x[2]].iid = p.iid /\ acsm.plist[x[2]].flag # p.flag
             /\ x[1] = OtherEnd(p) /\ Accepted(p.iid, T - p.start)
<1>1. PICK n \in 0 .. Depth + 1, e \in DOMAIN acsm.plist :
        /\ x = <<n, e>> /\ acsm.plist[e] \in EntriesOf(SubStates[n])
        /\ selfMark(acsm.plist[e]) = n - 1 /\ Siblings(acsm.plist[e]) # {}
  BY DEF Marked, Paired
<1>2. PICK D \in Nat : D = Depth /\ T \in Nat
  BY DepthFacts
<1>3. PICK b : b = acsm.plist[e]
  OBVIOUS
<1>4. PICK p \in Entries : p.iid = b.iid /\ p.flag # b.flag
  BY <1>1, <1>3 DEF Siblings
<1>5. /\ selfMark(acsm.plist[e]) = OtherEnd(p) - 1
      /\ acsm.plist[e] \in EntriesOf(SubStates[OtherEnd(p)]) <=> Accepted(p.iid, T - p.start)
      /\ OtherEnd(p) \in 0 .. Depth + 1
  <2>1. acsm.plist[e].iid = p.iid /\ acsm.plist[e].flag # p.flag
    BY <1>3, <1>4
  <2>2. QED BY <2>1, SiblingMark
<1>6. n = OtherEnd(p)
  <2>1. n - 1 = OtherEnd(p) - 1 /\ n \in Int /\ OtherEnd(p) \in Int
    BY <1>1, <1>2, <1>5
  <2>2. QED BY <2>1
<1>7. x[1] = n /\ x[2] = e
  BY <1>1
<1>8. QED BY <1>1, <1>3, <1>4, <1>5, <1>6, <1>7

-----------------------------------------------------------------------------
(* The marked halves are, one for one, the siblings of the entries whose   *)
(* pattern stands there.                                                   *)
LEMMA MarkedCount ==
    ASSUME InputsKept, StreamTracked, mlist \in Nat, mlist >= 1, mode = 4,
           NEW all, all = {p \in Entries : Accepted(p.iid, T - p.start)}
    PROVE  /\ {p \in Entries : \E x \in Paired :
                  acsm.plist[x[2]].iid = p.iid /\ acsm.plist[x[2]].flag # p.flag} = all
           /\ Cardinality(Paired) = Cardinality(all) /\ IsFiniteSet(Paired)
<1>1. ASSUME NEW p \in Entries
      PROVE  p.iid \in Halved(acsm) /\ p.flag \in 0 .. 1
  <2>1. PICK i \in 1 .. Len(MatchList) : p = acsm.plist[MatchList[i]]
    BY ListLength
  <2>2. QED BY <2>1, EntryIsPlace
<1>2. ASSUME NEW p \in Entries, NEW s \in Entries, p.iid = s.iid, p.flag = s.flag
      PROVE  p = s
  <2>1. PICK i \in 1 .. Len(MatchList) : p = acsm.plist[MatchList[i]]
    BY ListLength
  <2>2. PICK j \in 1 .. Len(MatchList) : s = acsm.plist[MatchList[j]]
    BY ListLength
  <2>3. i = j
    BY <1>2, <2>1, <2>2, ListedOnce
  <2>4. QED BY <2>1, <2>2, <2>3
<1>3. ASSUME NEW e \in DOMAIN acsm.plist PROVE acsm.plist[e].flag \in 0 .. 1
  BY PlistFacts DEF InputsKept
<1>4. ASSUME NEW p \in all
      PROVE  \E x \in Paired : /\ acsm.plist[x[2]].iid = p.iid /\ acsm.plist[x[2]].flag # p.flag
                               /\ x[2] \in DOMAIN acsm.plist /\ x = <<OtherEnd(p), x[2]>>
  <2>1. p \in Entries /\ Accepted(p.iid, T - p.start)
    OBVIOUS
  <2>2. PICK f \in 0 .. 1 : f # p.flag /\ f = 1 - p.flag
    BY <1>1, <2>1
  <2>3. PICK e \in DOMAIN acsm.plist : acsm.plist[e].iid = p.iid /\ acsm.plist[e].flag = f
    BY <1>1, <2>1, HalvesListed DEF InputsKept
  <2>4. /\ OtherEnd(p) \in 0 .. Depth + 1 /\ selfMark(acsm.plist[e]) = OtherEnd(p) - 1
        /\ acsm.plist[e] \in EntriesOf(SubStates[OtherEnd(p)])
    BY <2>1, <2>2, <2>3, SiblingMark
  <2>5. PICK x : x = <<OtherEnd(p), e>>
    OBVIOUS
  <2>6. x[1] = OtherEnd(p) /\ x[2] = e /\ x \in (0 .. Depth + 1) \X (DOMAIN acsm.plist)
    BY <2>4, <2>5
  <2>7. x \in Paired
    <3>1. p \in Siblings(acsm.plist[e])
      BY <2>1, <2>2, <2>3 DEF Siblings
    <3>2. QED BY <2>4, <2>6, <3>1 DEF Marked, Paired
  <2>8. QED BY <2>2, <2>3, <2>5, <2>6, <2>7
<1>5. ASSUME NEW x \in Paired
      PROVE  \E p \in all : /\ acsm.plist[x[2]].iid = p.iid /\ acsm.plist[x[2]].flag # p.flag
                            /\ x[2] \in DOMAIN acsm.plist /\ x = <<OtherEnd(p), x[2]>>
  <2>1. x[2] \in DOMAIN acsm.plist /\ x = <<x[1], x[2]>>
    BY DEF Marked, Paired
  <2>2. QED BY <2>1, MarkedHasSibling
<1>6. ASSUME NEW x \in Paired, NEW p \in Entries,
             acsm.plist[x[2]].iid = p.iid, acsm.plist[x[2]].flag # p.flag
      PROVE  p \in all
  <2>1. PICK s \in all : acsm.plist[x[2]].iid = s.iid /\ acsm.plist[x[2]].flag # s.flag
                         /\ x[2] \in DOMAIN acsm.plist
    BY <1>5
  <2>2. s \in Entries /\ s.flag \in 0 .. 1 /\ p.flag \in 0 .. 1 /\ acsm.plist[x[2]].flag \in 0 .. 1
    BY <1>1, <1>3, <2>1
  <2>3. s.iid = p.iid /\ s.flag = p.flag
    BY <1>6, <2>1, <2>2
  <2>4. QED BY <1>2, <2>1, <2>2, <2>3
<1>7. {p \in Entries : \E x \in Paired :
          acsm.plist[x[2]].iid = p.iid /\ acsm.plist[x[2]].flag # p.flag} = all
  BY <1>4, <1>6
<1> DEFINE sibling(p, x) == acsm.plist[x[2]].iid = p.iid /\ acsm.plist[x[2]].flag # p.flag
           g == [p \in all |-> CHOOSE x \in Paired : sibling(p, x)]
<1>8. ASSUME NEW p \in all PROVE g[p] \in Paired /\ sibling(p, g[p])
  <2>1. \E x \in Paired : sibling(p, x)
    BY <1>4
  <2>2. g[p] = CHOOSE x \in Paired : sibling(p, x)
    OBVIOUS
  <2> HIDE DEF sibling
  <2>3. QED BY <2>1, <2>2
<1>9. ASSUME NEW x \in Paired, NEW y \in Paired, NEW p \in Entries, sibling(p, x), sibling(p, y)
      PROVE  x = y
  <2>1. PICK s \in all : /\ sibling(s, x)
                         /\ x[2] \in DOMAIN acsm.plist /\ x = <<OtherEnd(s), x[2]>>
    BY <1>5
  <2>2. PICK t \in all : /\ sibling(t, y)
                         /\ y[2] \in DOMAIN acsm.plist /\ y = <<OtherEnd(t), y[2]>>
    BY <1>5
  <2>3. /\ s \in Entries /\ t \in Entries
        /\ s.flag \in 0 .. 1 /\ t.flag \in 0 .. 1 /\ p.flag \in 0 .. 1
        /\ acsm.plist[x[2]].flag \in 0 .. 1 /\ acsm.plist[y[2]].flag \in 0 .. 1
    BY <1>1, <1>3, <2>1, <2>2
  <2>4. s = p /\ t = p
    <3>1. s.iid = p.iid /\ s.flag = p.flag /\ t.iid = p.iid /\ t.flag = p.flag
      BY <1>9, <2>1, <2>2, <2>3
    <3>2. QED BY <1>2, <2>3, <3>1
  <2>5. acsm.plist[x[2]].iid = acsm.plist[y[2]].iid /\ acsm.plist[x[2]].flag = acsm.plist[y[2]].flag
    BY <1>9, <2>3
  <2>6. x[2] = y[2]
    BY <2>1, <2>2, <2>5, HalvesListed DEF InputsKept
  <2>7. QED BY <2>1, <2>2, <2>4, <2>6
<1>10. ASSUME NEW p \in all, NEW s \in all, g[p] = g[s] PROVE p = s
  <2>1. g[p] \in Paired /\ sibling(p, g[p]) /\ sibling(s, g[s])
    BY <1>8
  <2>2. PICK x \in Paired : sibling(p, x) /\ sibling(s, x)
    <3> HIDE DEF g, sibling
    <3>1. QED BY <1>10, <2>1
  <2>3. PICK e \in DOMAIN acsm.plist : e = x[2]
    BY DEF Marked, Paired
  <2>4. PICK fp, fs, fe : fp = p.flag /\ fs = s.flag /\ fe = acsm.plist[e].flag
    OBVIOUS
  <2>5. p.iid = s.iid /\ fe # fp /\ fe # fs
    BY <2>2, <2>3, <2>4
  <2>6. p \in Entries /\ s \in Entries
    OBVIOUS
  <2>7. p.flag \in 0 .. 1 /\ s.flag \in 0 .. 1 /\ acsm.plist[e].flag \in 0 .. 1
    BY <1>1, <1>3, <2>6
  <2>8. fp \in 0 .. 1 /\ fs \in 0 .. 1 /\ fe \in 0 .. 1
    BY <2>7, <2>4
  <2>9. fp = fs
    BY ONLY <2>5, <2>8
  <2>10. p.iid = s.iid /\ p.flag = s.flag
    BY <2>4, <2>5, <2>9
  <2>11. QED BY <1>2, <2>6, <2>10
<1>11. ASSUME NEW x \in Paired PROVE \E p \in all : g[p] = x
  <2>1. PICK p \in all : sibling(p, x)
    BY <1>5
  <2>2. g[p] \in Paired /\ sibling(p, g[p]) /\ p \in Entries
    BY <1>8
  <2> HIDE DEF g, sibling
  <2>3. QED BY <1>9, <2>1, <2>2
<1>12. g \in [all -> Paired]
  BY <1>8
<1>13. g \in Bijection(all, Paired)
  <2> HIDE DEF g
  <2>1. QED BY <1>10, <1>11, <1>12 DEF Bijection, Injection, Surjection, IsInjective
<1>14. IsFiniteSet(all)
  BY EntriesFinite, FS_Subset
<1>15. ExistsBijection(all, Paired)
  BY <1>13 DEF ExistsBijection
<1>16. Cardinality(Paired) = Cardinality(all) /\ IsFiniteSet(Paired)
  BY <1>14, <1>15, FS_Bijection
<1>17. QED BY <1>7, <1>16

-----------------------------------------------------------------------------
(* The halves found with no mark are the strays of T.                      *)

LEMMA NoSiblings ==
    ASSUME InputsKept, StreamTracked, NEW b
    PROVE  Siblings(b) = {}
           <=> \A i \in DOMAIN acsm.plist :
                  ListedAt(i, T) /\ acsm.plist[i].iid = b.iid => acsm.plist[i].flag = b.flag
<1>1. /\ \A j \in 1 .. Len(MatchList) : MatchList[j] \in DOMAIN acsm.plist
      /\ Entries = {acsm.plist[MatchList[j]] : j \in 1 .. Len(MatchList)}
  BY ListLength
<1>2. ASSUME NEW i \in DOMAIN acsm.plist, ListedAt(i, T) PROVE acsm.plist[i] \in Entries
  BY <1>1, <1>2, ListedNow
<1>3. ASSUME NEW p \in Entries
      PROVE  \E i \in DOMAIN acsm.plist : ListedAt(i, T) /\ p = acsm.plist[i]
  <2>1. PICK j \in 1 .. Len(MatchList) : p = acsm.plist[MatchList[j]]
    BY <1>1
  <2>2. ListedAt(MatchList[j], T)
    BY <1>1, ListedNow
  <2>3. QED BY <1>1, <2>1, <2>2
<1>4. QED BY <1>2, <1>3 DEF Siblings

LEMMA StrayNow ==
    ASSUME InputsKept, StreamTracked, mlist \in Nat, mlist >= 1, mode = 4, MatchList # << >>,
           NEW e \in DOMAIN acsm.plist
    PROVE  <<e, T>> \in AllStrays
           <=> Siblings(acsm.plist[e]) = {} /\ acsm.plist[e] \in EntriesOf(SubStates[1])
<1>1. PICK m \in Nat : m = Depth + 1 /\ T \in Nat /\ Depth \in Nat
  BY DepthFacts
<1>2. SubStates[1] = acsm.acsmNextState[0][Byte(T - 1 - 2 * Depth)]
  <2>1. 1 \in 1 .. m /\ T - 1 - 2 * (m - 1) = T - 1 - 2 * Depth
    BY <1>1
  <2>2. SubStates[1] = acsm.acsmNextState[SubStates[0]][SkippedStream(m)[1]] /\ SubStates[0] = 0
    <3>1. /\ SubStates[0] = 0
          /\ \A n \in 1 .. m : SubStates[n] = acsm.acsmNextState[SubStates[n - 1]][SkippedStream(m)[n]]
      BY <1>1, SubStatesWalk
    <3>2. 1 - 1 = 0
      OBVIOUS
    <3>3. QED BY <2>1, <3>1, <3>2
  <2>3. SkippedStream(m)[1] = Byte(T - 1 - 2 * (m - 1))
    BY <2>1 DEF SkippedStream
  <2>4. QED BY <2>1, <2>2, <2>3
<1>3. \E i \in DOMAIN acsm.plist : ListedAt(i, T)
  <2>1. MatchList \in Seq(DOMAIN acsm.plist)
    BY AutomatonFacts DEF InputsKept, StreamTracked, MatchList
  <2>2. 1 \in 1 .. Len(MatchList) /\ MatchList[1] \in DOMAIN acsm.plist
    BY <2>1
  <2>3. QED BY <2>2, ListedNow
<1>4. (\E n \in Nat : /\ DepthAt(n, T)
                      /\ acsm.plist[e] \in EntriesOf(acsm.acsmNextState[0][Byte(T - 1 - 2 * n)]))
      <=> acsm.plist[e] \in EntriesOf(SubStates[1])
  <2>1. \A n : DepthAt(n, T) <=> n = Depth
    BY DepthNow
  <2>2. QED BY <1>1, <1>2, <2>1
<1>5. UnmarkedAt(e, T) <=> Siblings(acsm.plist[e]) = {} /\ acsm.plist[e] \in EntriesOf(SubStates[1])
  <2>1. PICK b : b = acsm.plist[e]
    OBVIOUS
  <2>2. Siblings(b) = {}
        <=> \A i \in DOMAIN acsm.plist :
               ListedAt(i, T) /\ acsm.plist[i].iid = b.iid => acsm.plist[i].flag = b.flag
    BY NoSiblings
  <2>3. QED BY <1>3, <1>4, <2>1, <2>2 DEF UnmarkedAt
<1>6. T \in 0 .. Tend + 1 /\ T % 2 = 0
  BY MemoryFacts DEF StreamTracked
<1>7. <<e, T>> \in AllStrays <=> UnmarkedAt(e, T)
  <2>1. PICK x : x = <<e, T>>
    OBVIOUS
  <2>2. x[1] = e /\ x[2] = T /\ x \in (DOMAIN acsm.plist) \X (0 .. Tend + 1)
    BY <1>6, <2>1
  <2>3. x \in AllStrays <=> UnmarkedAt(x[1], x[2])
    BY <1>6, <2>2 DEF AllStrays
  <2>4. QED BY <2>1, <2>2, <2>3
<1>8. QED BY <1>5, <1>7

LEMMA UnpairedCount ==
    ASSUME InputsKept, StreamTracked, mlist \in Nat, mlist >= 1, mode = 4, MatchList # << >>,
           NEW G, G = {x \in AllStrays : x[2] = T}
    PROVE  /\ {<<x[2], T>> : x \in Unpaired} = G
           /\ IsFiniteSet(Unpaired) /\ Cardinality(Unpaired) = Cardinality(G)
<1>1. Depth \in Nat
  BY DepthFacts
<1>2. ASSUME NEW x \in Unpaired
      PROVE  x = <<1, x[2]>> /\ x[2] \in DOMAIN acsm.plist /\ <<x[2], T>> \in G
  <2>1. PICK n \in 0 .. Depth + 1, e \in DOMAIN acsm.plist :
          /\ x = <<n, e>> /\ acsm.plist[e] \in EntriesOf(SubStates[n])
          /\ selfMark(acsm.plist[e]) = n - 1 /\ Siblings(acsm.plist[e]) = {}
    BY DEF Marked, Unpaired
  <2>2. selfMark(acsm.plist[e]) = 0
    BY <2>1 DEF selfMark
  <2>3. n = 1
    BY <1>1, <2>1, <2>2
  <2>4. <<e, T>> \in AllStrays
    BY <2>1, <2>3, StrayNow
  <2>5. QED BY <2>1, <2>3, <2>4
<1>3. ASSUME NEW y \in G
      PROVE  \E x \in Unpaired : y = <<x[2], T>>
  <2>1. PICK e \in DOMAIN acsm.plist : y = <<e, T>> /\ y \in AllStrays
    BY DEF AllStrays
  <2>2. Siblings(acsm.plist[e]) = {} /\ acsm.plist[e] \in EntriesOf(SubStates[1])
    BY <2>1, StrayNow
  <2>3. selfMark(acsm.plist[e]) = 1 - 1
    BY <2>2 DEF selfMark
  <2>4. PICK x : x = <<1, e>>
    OBVIOUS
  <2>5. x[1] = 1 /\ x[2] = e /\ x \in (0 .. Depth + 1) \X (DOMAIN acsm.plist)
    BY <1>1, <2>4
  <2>6. x \in Unpaired
    BY <2>2, <2>3, <2>5 DEF Marked, Unpaired
  <2>7. QED BY <2>1, <2>5, <2>6
<1>4. {<<x[2], T>> : x \in Unpaired} = G
  BY <1>2, <1>3
<1> DEFINE g == [x \in Unpaired |-> <<x[2], T>>]
<1>5. g \in [Unpaired -> G]
  BY <1>2
<1>6. ASSUME NEW x \in Unpaired, NEW y \in Unpaired, g[x] = g[y] PROVE x = y
  <2>1. x[2] = y[2]
    BY <1>6
  <2>2. QED BY <1>2, <2>1
<1>7. \A y \in G : \E x \in Unpaired : g[x] = y
  BY <1>3
<1>8. g \in Bijection(Unpaired, G)
  <2> HIDE DEF g
  <2>1. QED BY <1>5, <1>6, <1>7 DEF Bijection, Injection, Surjection, IsInjective
<1>9. IsFiniteSet(G)
  BY PlacesFinite, FS_Subset
<1>10. IsFiniteSet(Unpaired)
  <2>1. g \in Injection(Unpaired, G)
    BY <1>8 DEF Bijection
  <2>2. QED BY <1>9, <2>1, FS_Injection
<1>11. Cardinality(Unpaired) = Cardinality(G)
  <2>1. ExistsBijection(Unpaired, G)
    BY <1>8 DEF ExistsBijection
  <2>2. QED BY <1>10, <2>1, FS_Bijection
<1>12. QED BY <1>4, <1>10, <1>11

LEMMA TwiceKeeps ==
    ASSUME InputsKept, StreamTracked, CallbackInv, run \in Nat, fullMatchTwiceOddEven
    PROVE  CallbackInv'
<1>1. mode = 4 /\ mode \notin {9, 12, 14}
  BY DEF fullMatchTwiceOddEven
<1>2. mlist \in Nat /\ mlist >= 1
  BY ListLength DEF CallbackInv
<1>3. PICK all, G : /\ all = {p \in Entries : Accepted(p.iid, T - p.start)}
                    /\ G = {x \in AllStrays : x[2] = T}
  OBVIOUS
<1>4. /\ VisitAll({p \in Entries : \E x \in Marked : p \in Siblings(acsm.plist[x[2]])},
                  Cardinality(Marked))
      /\ strays' = strays \cup {<<x[2], T>> : x \in Unpaired}
  BY DEF fullMatchTwiceOddEven, Marked, Unpaired
<1>5. MatchList # << >>
  BY <1>4 DEF VisitAll
<1>6. /\ {p \in Entries : \E x \in Paired :
             acsm.plist[x[2]].iid = p.iid /\ acsm.plist[x[2]].flag # p.flag} = all
      /\ Cardinality(Paired) = Cardinality(all) /\ IsFiniteSet(Paired)
  BY <1>1, <1>2, <1>3, MarkedCount
<1>7. /\ {<<x[2], T>> : x \in Unpaired} = G
      /\ IsFiniteSet(Unpaired) /\ Cardinality(Unpaired) = Cardinality(G)
  BY <1>1, <1>2, <1>3, <1>5, UnpairedCount
<1>8. Cardinality(Marked) = Cardinality(all) + Cardinality(G)
  <2>1. Marked = Paired \cup Unpaired /\ Paired \cap Unpaired = {}
    BY DEF Paired, Unpaired
  <2>2. Cardinality(Paired \cup Unpaired) = Cardinality(Paired) + Cardinality(Unpaired)
    BY <1>6, <1>7, <2>1, DisjointUnion
  <2>3. QED BY <1>6, <1>7, <2>1, <2>2
<1>9. {p \in Entries : \E x \in Marked : p \in Siblings(acsm.plist[x[2]])} = all
  <2>1. \A p \in Entries :
          (\E x \in Marked : p \in Siblings(acsm.plist[x[2]]))
          <=> \E x \in Paired : acsm.plist[x[2]].iid = p.iid /\ acsm.plist[x[2]].flag # p.flag
    BY DEF Paired, Siblings
  <2>2. QED BY <1>6, <2>1
<1>10. VisitAll(all, Cardinality(all) + Cardinality(G))
  BY <1>4, <1>8, <1>9
<1>11. strays' = strays \cup G
  BY <1>4, <1>7
<1>12. QED BY <1>1, <1>3, <1>10, <1>11, VisitAllKeeps

-----------------------------------------------------------------------------
(* The modes that compare entry by entry, and the end of a list.           *)

LEMMA OneByOneKeeps ==
    ASSUME InputsKept, StreamTracked, CallbackInv, run \in Nat,
           \/ full_match \/ InlineMatch
           \/ fullMatchUsingLastCharHash \/ LastCharFilterInline \/ fullMatchFilterDigest
    PROVE  CallbackInv'
<1>1. ASSUME mlist <= Len(MatchList) PROVE mlist \in 1 .. Len(MatchList)
  BY <1>1, ListLength DEF CallbackInv
<1>2. ASSUME NEW decided, Visit(decided), mode # 4, mode \notin {9, 14},
             mlist \in 1 .. Len(MatchList) => (decided <=> Accepted(Entry.iid, T - Entry.start))
      PROVE  CallbackInv'
  <2>1. mlist \in 1 .. Len(MatchList)
    BY <1>1, <1>2 DEF Visit
  <2>2. PICK found \in BOOLEAN : found <=> decided
    OBVIOUS
  <2>3. Visit(found)
    BY <1>2, <2>2 DEF Visit, Report
  <2>4. QED BY <1>2, <2>1, <2>2, <2>3, VisitKeeps
<1>3. CASE full_match \/ InlineMatch
  <2>1. Visit(FullMatch) /\ mode \in {0, 10}
    BY <1>3 DEF full_match, InlineMatch
  <2>2. QED BY <1>2, <2>1, VisitDecides
<1>4. CASE fullMatchUsingLastCharHash \/ LastCharFilterInline
  <2>1. Visit(LastCharMatch) /\ mode \in {8, 11}
    BY <1>4 DEF fullMatchUsingLastCharHash, LastCharFilterInline
  <2>2. QED BY <1>2, <2>1, VisitDecides
<1>5. CASE fullMatchFilterDigest
  <2>1. Visit(filter(Entry) = digest(Entry) /\ AllButLast) /\ mode = 12
    BY <1>5 DEF fullMatchFilterDigest
  <2>2. PICK d \in BOOLEAN : d <=> filter(Entry) = digest(Entry) /\ AllButLast
    OBVIOUS
  <2>3. Visit(d)
    BY <2>1, <2>2 DEF Visit, Report
  <2>4. mlist \in 1 .. Len(MatchList) => (d <=> Accepted(Entry.iid, T - Entry.start))
    BY <2>1, <2>2, VisitDecides
  <2>5. mode # 4 /\ mode \notin {9, 14}
    BY <2>1
  <2>6. QED BY <1>2, <2>3, <2>4, <2>5
<1>6. QED BY <1>3, <1>4, <1>5

LEMMA StreamKept ==
    ASSUME StreamTracked, UNCHANGED <<searchVars, T, state>>
    PROVE  StreamTracked'
<1>1. acsm' = acsm /\ T' = T /\ state' = state /\ Tend' = Tend /\ Memory' = Memory
  BY PlacesKept DEF searchVars
<1>2. EvenStream' = EvenStream
  BY <1>1 DEF EvenStream, Byte
<1>3. QED BY <1>1, <1>2 DEF StreamTracked

(* When every entry of the list has been compared, every place up to T has.*)
LEMMA ListDone ==
    ASSUME InputsKept, StreamTracked, mlist \in Nat, mlist > Len(MatchList), NEW x \in Seen
    PROVE  HadTurn(x) <=> TurnOf(x[1], x[2]) < T + 2
<1>1. TurnOf(x[1], x[2]) \in Nat /\ TurnOf(x[1], x[2]) % 2 = 0
  BY SeenFacts
<1>2. T \in Nat /\ T % 2 = 0 /\ Len(MatchList) \in Nat
  BY ListLength DEF StreamTracked
<1>3. PICK t \in Nat : t = TurnOf(x[1], x[2])
  BY <1>1
<1>4. t < T + 2 <=> t < T \/ t = T
  <2>1. t % 2 = 0 /\ T % 2 = 0
    BY <1>1, <1>2, <1>3
  <2>2. t # T + 1
    BY <1>2, <2>1
  <2>3. QED BY <1>2, <2>2
<1>5. ASSUME t = T PROVE HadTurn(x)
  <2>1. PICK j \in 1 .. Len(MatchList) :
          /\ acsm.plist[MatchList[j]].iid = x[1]
          /\ acsm.plist[MatchList[j]].flag = x[2] % 2
    BY <1>3, <1>5, PlaceIsListed
  <2>2. j < mlist
    BY <1>2
  <2>3. QED BY <1>3, <1>5, <2>1, <2>2 DEF HadTurn
<1>6. QED BY <1>3, <1>4, <1>5 DEF HadTurn

-----------------------------------------------------------------------------
(* The next pair of bytes.                                                 *)

LEMMA StreamAdvances ==
    ASSUME InputsKept, StreamTracked, T < Tend, UNCHANGED searchVars,
           T' = T + 2, state' = acsm.acsmNextState[state][At(text, T)]
    PROVE  InputsKept' /\ StreamTracked'
<1>1. acsm' = acsm /\ Tend' = Tend /\ Memory' = Memory /\ InputsKept'
  BY PlacesKept DEF searchVars
<1>2. EvenStream' = EvenStream
  BY <1>1 DEF EvenStream, Byte
<1>3. PICK n : n = acsm.acsmNextState[state][At(text, T)]
  OBVIOUS
<1>4. /\ T + 2 \in Nat /\ (T + 2) % 2 = 0 /\ T + 2 <= Tend + 1
      /\ n \in States(acsm)
      /\ Reads(acsm.label, EvenStream, (T + 2) \div 2, n)
  BY <1>3, StreamGoesOn
<1>5. QED BY <1>1, <1>2, <1>3, <1>4 DEF StreamTracked


LEMMA PassedKept ==
    ASSUME InputsKept, StreamTracked, mlist \in Nat, mlist > Len(MatchList), T < Tend,
           UNCHANGED searchVars,
           T' = T + 2, state' = acsm.acsmNextState[state][At(text, T)], mlist' = 1
    PROVE  Passed' = Passed
<1>1. InputsKept' /\ StreamTracked'
  BY StreamAdvances
<1>2. \A x : HadTurn(x)' <=> TurnOf(x[1], x[2])' < T'
  <2>1. acsm' = acsm /\ acsm \in Automata /\ state' \in States(acsm)
    BY <1>1 DEF InputsKept, StreamTracked, searchVars
  <2>2. MatchList' \in Seq(DOMAIN acsm.plist)
    BY <2>1, AutomatonFacts DEF MatchList
  <2>3. Len(MatchList') \in Nat
    BY <2>2
  <2>4. \A j \in 1 .. Len(MatchList') : ~(j < mlist')
    BY <2>3
  <2>5. QED BY <2>4 DEF HadTurn
<1>3. Seen' = Seen /\ \A x : TurnOf(x[1], x[2])' = TurnOf(x[1], x[2])
  BY PlacesKept
<1>4. \A x \in Seen : HadTurn(x)' <=> HadTurn(x)
  BY <1>2, <1>3, ListDone
<1>5. Passed' = {x \in Seen : HadTurn(x)'}
  BY <1>3 DEF Passed
<1>6. QED BY <1>4, <1>5 DEF Passed

(* A list that is about to be read has no stray behind it: where one is    *)
(* counted, the list is not empty.                                         *)
LEMMA StraysWait ==
    ASSUME InputsKept, UNCHANGED searchVars, StreamTracked', mlist' = 1,
           strays' = {x \in AllStrays : x[2] < T'}
    PROVE  (strays = {x \in AllStrays : StrayHadTurn(x)})'
<1>1. acsm' = acsm /\ AllStrays' = AllStrays /\ Tend' = Tend /\ Memory' = Memory
  BY PlacesKept DEF searchVars
<1>2. EvenStream' = EvenStream
  BY <1>1 DEF EvenStream, Byte
<1>3. PICK t \in Nat, n \in States(acsm) : t = T' /\ n = state'
  BY <1>1 DEF StreamTracked
<1>4. t % 2 = 0 /\ t <= Tend + 1 /\ Reads(acsm.label, EvenStream, t \div 2, n)
  BY <1>1, <1>2, <1>3 DEF StreamTracked
<1>5. ASSUME NEW x \in AllStrays, x[2] = t PROVE ~(mlist' > Len(MatchList'))
  <2>1. PICK i \in DOMAIN acsm.plist : ListedAt(i, t)
    BY <1>5 DEF AllStrays, UnmarkedAt
  <2>2. PICK j \in 1 .. Len(acsm.acsmMatchList[n]) : TRUE
    BY <1>4, <2>1, ListedInState
  <2>3. acsm.acsmMatchList[n] \in Seq(DOMAIN acsm.plist)
    BY AutomatonFacts DEF InputsKept
  <2>4. MatchList' = acsm.acsmMatchList[n] /\ Len(acsm.acsmMatchList[n]) \in Nat
    BY <1>1, <1>3, <2>3 DEF MatchList
  <2>5. QED BY <2>2, <2>4
<1>6. QED BY <1>1, <1>3, <1>5 DEF StrayHadTurn

LEMMA AdvanceKeeps ==
    ASSUME InputsKept, StreamTracked, CallbackInv, run \in Nat, Advance
    PROVE  InputsKept' /\ StreamTracked' /\ CallbackInv'
<1>1. /\ mode # 9 /\ mlist > Len(MatchList) /\ T < Tend
      /\ T' = T + 2 /\ state' = acsm.acsmNextState[state][At(text, T)] /\ mlist' = 1
      /\ UNCHANGED <<searchVars, run, queue, foundCounter, hits, strays>>
  BY DEF Advance
<1>2. InputsKept' /\ StreamTracked'
  BY <1>1, StreamAdvances
<1>3. mlist \in Nat
  BY ListLength DEF CallbackInv
<1>4. Passed' = Passed /\ Total' = Total /\ RunTotal' = RunTotal
  BY <1>1, <1>3, PassedKept, PlacesKept
<1>5. /\ mode' = mode /\ acsm' = acsm /\ run' = run /\ hits' = hits /\ strays' = strays
      /\ foundCounter' = foundCounter /\ queue' = queue
  BY <1>1 DEF searchVars
<1>6. mlist' \in (1 .. Len(MatchList) + 1)'
  <2>1. state' \in States(acsm)
    BY <1>2, <1>5 DEF StreamTracked
  <2>2. MatchList' \in Seq(DOMAIN acsm.plist)
    BY <1>5, <2>1, AutomatonFacts DEF MatchList, InputsKept
  <2>3. Len(MatchList') \in Nat
    BY <2>2
  <2>4. QED BY <1>1, <2>3
<1>7. (mode \in {1, 2} => \A s \in States(acsm) : \A p \in EntriesOf(s) : ~ReverseCrashes(p))'
  BY <1>5 DEF CallbackInv, EntriesOf
<1>8. QueueHolds(Passed)' <=> QueueHolds(Passed)
  BY <1>4, <1>5 DEF QueueHolds, QueuePlace
<1>9. foundCounter' = (run * RunTotal + Cardinality(hits) + Cardinality(strays))'
  BY <1>4, <1>5 DEF CallbackInv
<1>10. (strays = {x \in AllStrays : StrayHadTurn(x)})'
  <2>1. T \in Nat /\ T % 2 = 0
    BY DEF StreamTracked
  <2>2. ASSUME NEW x \in AllStrays PROVE StrayHadTurn(x) <=> x[2] < T'
    <3>1. PICK t \in Nat : t = x[2] /\ t % 2 = 0
      BY MemoryFacts DEF AllStrays
    <3>2. t # T + 1
      BY <2>1, <3>1
    <3>3. QED BY <1>1, <2>1, <3>1, <3>2 DEF StrayHadTurn
  <2>3. strays' = {x \in AllStrays : x[2] < T'}
    BY <1>5, <2>2 DEF CallbackInv
  <2>4. QED BY <1>1, <1>2, <2>3, StraysWait
<1>11. QED BY <1>1, <1>2, <1>4, <1>5, <1>6, <1>7, <1>8, <1>9, <1>10 DEF CallbackInv

-----------------------------------------------------------------------------
(* Mode 9.                                                                 *)

LEMMA SmallAtStands ==
    ASSUME NEW l \in 1 .. 2, NEW i \in Int, NEW x
    PROVE  x \in SmallAt(l, i)
           <=> /\ x = <<x[1], x[2]>> /\ x[2] = i /\ x[1] \in DOMAIN acsm.patterns
               /\ Len(acsm.patterns[x[1]]) = l
               /\ Stands(acsm.patterns[x[1]], i)
<1>1. ASSUME NEW q, Len(q) = l
      PROVE  (\A k \in 0 .. l - 1 : At(q, k) = Byte(i + k)) <=> Stands(q, i)
  <2>1. \A k \in 0 .. l - 1 : i + k + MaxFront = i + MaxFront + k
    BY DEF MaxFront
  <2>2. QED BY <1>1, <2>1 DEF Stands, AllStands, Byte
<1>2. QED BY <1>1 DEF SmallAt

LEMMA SmallFound ==
    ASSUME InputsKept, StreamTracked, mode = 9, T < Tend
    PROVE  Small = {x \in Total : x[2] \in T .. T + 1}
<1>1. T \in Nat /\ T % 2 = 0 /\ Tend \in Nat
  BY MemoryFacts DEF StreamTracked
<1>2. ASSUME NEW x
      PROVE  x \in Small <=> x \in SmallPlaces /\ x[2] \in T .. T + 1
  <2>1. x \in Small
        <=> /\ x = <<x[1], x[2]>> /\ x[2] \in {T, T + 1} /\ x[1] \in DOMAIN acsm.patterns
            /\ Len(acsm.patterns[x[1]]) \in {1, 2}
            /\ Stands(acsm.patterns[x[1]], x[2])
    <3>1. \A l \in 1 .. 2 : \A i \in {T, T + 1} :
             x \in SmallAt(l, i)
               <=> /\ x = <<x[1], x[2]>> /\ x[2] = i /\ x[1] \in DOMAIN acsm.patterns
                   /\ Len(acsm.patterns[x[1]]) = l
                   /\ Stands(acsm.patterns[x[1]], i)
      <4>1. \A i \in {T, T + 1} : i \in Int
        BY <1>1
      <4>2. QED BY <4>1, SmallAtStands
    <3>2. x \in Small <=> \E l \in 1 .. 2 : \E i \in {T, T + 1} : x \in SmallAt(l, i)
      BY DEF Small
    <3>3. QED BY <3>1, <3>2
  <2>2. x \in SmallPlaces
        <=> /\ x = <<x[1], x[2]>> /\ x[1] \in DOMAIN acsm.patterns /\ x[2] \in 0 .. Tend
            /\ Len(acsm.patterns[x[1]]) \in 1 .. 2
            /\ x[2] - (x[2] % 2) < Tend
            /\ Stands(acsm.patterns[x[1]], x[2])
    BY DEF SmallPlaces
  <2>3. ASSUME NEW o \in {T, T + 1}
        PROVE  o \in 0 .. Tend /\ o - (o % 2) < Tend
    BY <1>1
  <2>4. T .. T + 1 = {T, T + 1} /\ 1 .. 2 = {1, 2}
    BY <1>1
  <2>5. QED BY <2>1, <2>2, <2>3, <2>4
<1>3. QED BY <1>2 DEF Total

LEMMA SmallKeeps ==
    ASSUME InputsKept, StreamTracked, CallbackInv, run \in Nat, LookUpSmall
    PROVE  InputsKept' /\ StreamTracked' /\ CallbackInv'
<1>1. /\ mode = 9 /\ MatchList = << >> /\ T < Tend
      /\ hits' = hits \cup Small /\ foundCounter' = foundCounter + Cardinality(Small)
      /\ T' = T + 2 /\ state' = acsm.acsmNextState[state][At(text, T)]
      /\ UNCHANGED <<searchVars, run, mlist, queue, strays>>
  BY DEF LookUpSmall
<1>2. InputsKept' /\ StreamTracked'
  BY <1>1, StreamAdvances
<1>3. mode' = mode /\ acsm' = acsm /\ run' = run /\ queue' = queue /\ mlist' = mlist
  BY <1>1 DEF searchVars
<1>4. /\ Seen' = Seen /\ Total' = Total /\ AllStrays' = AllStrays /\ RunTotal' = RunTotal
      /\ \A x : TurnOf(x[1], x[2])' = TurnOf(x[1], x[2])
  BY <1>1, PlacesKept
<1>5. /\ mlist = 1 /\ queue = << >>
      /\ \A x \in Seen : TurnOf(x[1], x[2]) >= T
      /\ hits = {x \in Total : x[2] < T}
      /\ foundCounter = run * RunTotal + Cardinality(hits) + Cardinality(strays)
      /\ strays = {} /\ AllStrays = {}
  BY <1>1, NoStrays DEF CallbackInv
<1>6. T \in Nat /\ T % 2 = 0
  BY DEF StreamTracked
<1>7. Small = {x \in Total : x[2] \in T .. T + 1}
  BY <1>1, SmallFound
<1>8. \A x \in Total : x[2] \in Nat
  <2>1. \A x \in SmallPlaces : x[2] \in 0 .. Tend
    BY DEF SmallPlaces
  <2>2. QED BY <1>1, <2>1 DEF Total
<1>9. hits' = {x \in Total : x[2] < T + 2} /\ hits \cap Small = {}
  <2>1. \A n \in Nat : n < T + 2 <=> n < T \/ n \in T .. T + 1
    BY <1>6
  <2>2. \A n \in Nat : ~(n < T /\ n \in T .. T + 1)
    BY <1>6
  <2>3. QED BY <1>1, <1>5, <1>7, <1>8, <2>1, <2>2
<1>10. Cardinality(hits') = Cardinality(hits) + Cardinality(Small)
       /\ Cardinality(hits) \in Nat /\ Cardinality(Small) \in Nat
  <2>1. IsFiniteSet(hits) /\ IsFiniteSet(Small)
    BY <1>5, <1>7, PlacesFinite, FS_Subset
  <2>2. Cardinality(hits \cup Small) = Cardinality(hits) + Cardinality(Small)
    BY <1>9, <2>1, DisjointUnion
  <2>3. QED BY <1>1, <2>1, <2>2, FS_CardinalityType
<1>11. foundCounter' = (run * RunTotal + Cardinality(hits) + Cardinality(strays))'
  <2>1. PICK c \in Nat : c = run * RunTotal
    BY RunTotalType
  <2>2. Cardinality(strays) = 0 /\ strays' = strays
    BY <1>1, <1>5, FS_EmptySet
  <2>3. foundCounter' = c + Cardinality(hits') + Cardinality(strays')
    BY <1>1, <1>5, <1>10, <2>1, <2>2
  <2>4. QED BY <1>3, <1>4, <2>1, <2>3
<1>12. ASSUME NEW x \in Seen PROVE TurnOf(x[1], x[2]) >= T + 2
  <2>1. PICK t \in Nat : t = TurnOf(x[1], x[2]) /\ t % 2 = 0
    BY SeenFacts
  <2>2. t # T
    <3>1. ASSUME t = T PROVE FALSE
      <4>1. PICK j \in 1 .. Len(MatchList) : TRUE
        BY <2>1, <3>1, PlaceIsListed
      <4>2. Len(MatchList) = 0
        BY <1>1
      <4>3. QED BY <4>1, <4>2
    <3>2. QED BY <3>1
  <2>3. t >= T
    BY <1>5, <2>1
  <2>4. t # T + 1
    BY <1>6, <2>1
  <2>5. QED BY <1>6, <2>1, <2>2, <2>3, <2>4
<1>13. mlist' \in (1 .. Len(MatchList) + 1)'
  <2>1. state' \in States(acsm)
    BY <1>2, <1>3 DEF StreamTracked
  <2>2. MatchList' \in Seq(DOMAIN acsm.plist)
    BY <1>3, <2>1, AutomatonFacts DEF MatchList, InputsKept
  <2>3. Len(MatchList') \in Nat
    BY <2>2
  <2>4. QED BY <1>3, <1>5, <2>3
<1>14. \A x \in Seen' : TurnOf(x[1], x[2])' >= T'
  BY <1>1, <1>4, <1>12
<1>15. hits' = {x \in Total' : x[2] < T'}
  BY <1>1, <1>4, <1>9
<1>16. (strays = {x \in AllStrays : StrayHadTurn(x)})'
  BY <1>1, <1>4, <1>5
<1>17. mode' = 9 /\ mlist' = 1 /\ queue' = << >>
  BY <1>1, <1>3, <1>5
<1>18. QED BY <1>2, <1>11, <1>13, <1>14, <1>15, <1>16, <1>17 DEF CallbackInv

-----------------------------------------------------------------------------
(* The end of the text.                                                    *)

LEMMA AllPassed ==
    ASSUME InputsKept, StreamTracked, mlist \in Nat, mlist > Len(MatchList), T >= Tend
    PROVE  Passed = Seen
<1>1. T \in Nat /\ Tend \in Nat
  BY MemoryFacts DEF StreamTracked
<1>2. ASSUME NEW x \in Seen PROVE HadTurn(x)
  <2>1. PICK t \in Nat : t = TurnOf(x[1], x[2]) /\ t <= Tend + 1
    BY SeenFacts
  <2>2. t < T + 2
    BY <1>1, <2>1
  <2>3. QED BY <2>1, <2>2, ListDone
<1>3. QED BY <1>2 DEF Passed

LEMMA SmallDone ==
    ASSUME InputsKept, StreamTracked, CallbackInv, mode = 9, T >= Tend, MatchList = << >>
    PROVE  Seen = {} /\ hits = Total
<1>1. T \in Nat /\ T % 2 = 0 /\ Tend \in Nat /\ T <= Tend + 1
  BY MemoryFacts DEF StreamTracked
<1>2. /\ \A x \in Seen : TurnOf(x[1], x[2]) >= T
      /\ hits = {x \in Total : x[2] < T}
  BY DEF CallbackInv
<1>3. ASSUME NEW x \in Seen PROVE FALSE
  <2>1. PICK t \in Nat : t = TurnOf(x[1], x[2]) /\ t % 2 = 0 /\ t <= Tend + 1 /\ t >= T
    BY <1>2, SeenFacts
  <2>2. t = T
    <3>1. t = T \/ t = T + 1
      BY <1>1, <2>1
    <3>2. t # T + 1
      BY <1>1, <2>1
    <3>3. QED BY <3>1, <3>2
  <2>3. PICK j \in 1 .. Len(MatchList) : TRUE
    BY <2>1, <2>2, PlaceIsListed
  <2>4. Len(MatchList) = 0
    OBVIOUS
  <2>5. QED BY <2>3, <2>4
<1>4. ASSUME NEW x \in Total PROVE x[2] < T
  <2>1. x \in SmallPlaces
    BY <1>4 DEF Total
  <2>2. PICK o \in Nat : o = x[2] /\ o - (o % 2) < Tend
    BY <2>1 DEF SmallPlaces
  <2>3. o < T
    <3>1. PICK e \in Nat, r \in 0 .. 1 : r = o % 2 /\ o = e + r /\ e % 2 = 0 /\ e = o - (o % 2)
      <4>1. o % 2 \in 0 .. 1 /\ o - (o % 2) \in Nat /\ (o - (o % 2)) % 2 = 0
        BY <2>2
      <4>2. o = (o - (o % 2)) + (o % 2)
        BY <2>2
      <4>3. QED BY <4>1, <4>2
    <3>2. e < T
      <4>1. e < Tend
        BY <2>2, <3>1
      <4>2. QED BY <1>1, <3>1, <4>1
    <3>3. e + 1 # T
      BY <1>1, <3>1
    <3>4. QED BY <1>1, <3>1, <3>2, <3>3
  <2>4. QED BY <2>2, <2>3
<1>5. QED BY <1>2, <1>3, <1>4

LEMMA EndKeeps ==
    ASSUME InputsKept, StreamTracked, CallbackInv, run \in Nat, EndOfText,
           IsSequence(queue)
    PROVE  /\ mode = 14 => QueueInv'
           /\ mode # 14 => DoneInv'
<1>1. /\ mlist > Len(MatchList) /\ T >= Tend /\ mlist' = 1
      /\ mode = 9 => MatchList = << >>
      /\ run' = IF mode = 14 THEN run ELSE run + 1
      /\ UNCHANGED <<searchVars, queue, foundCounter, hits, strays>>
  BY DEF EndOfText
<1>2. /\ mode' = mode /\ acsm' = acsm /\ hits' = hits /\ strays' = strays
      /\ foundCounter' = foundCounter /\ queue' = queue
  BY <1>1 DEF searchVars
<1>3. Seen' = Seen /\ Total' = Total /\ AllStrays' = AllStrays /\ RunTotal' = RunTotal
  BY <1>1, PlacesKept
<1>4. mlist \in Nat
  BY ListLength DEF CallbackInv
<1>5. Passed = Seen
  BY <1>1, <1>4, AllPassed
<1>6. foundCounter = run * RunTotal + Cardinality(hits) + Cardinality(strays)
  BY DEF CallbackInv
<1>7. ASSUME mode = 14 PROVE QueueInv'
  <2>1. hits = {} /\ QueueHolds(Seen)
    BY <1>5, <1>7 DEF CallbackInv
  <2>2. QueueHolds(Seen)'
    BY <1>2, <1>3, <2>1 DEF QueueHolds, QueuePlace
  <2>3. mlist' \in (1 .. Len(queue) + 1)'
    <3>1. Len(queue) \in Nat
      BY DEF IsSequence
    <3>2. QED BY <1>1, <1>2, <3>1
  <2>4. foundCounter' = (run * RunTotal + Cardinality(hits) + Cardinality(strays))'
    BY <1>1, <1>2, <1>3, <1>6, <1>7
  <2>5. hits' = ({QueuePlace(j) : j \in 1 .. mlist - 1} \cap Total)'
    <3>1. \A j \in 1 .. mlist' - 1 : FALSE
      BY <1>1
    <3>2. QED BY <1>2, <2>1, <3>1
  <2>6. strays' = {}
    BY <1>2, <1>7, NoStrays DEF CallbackInv
  <2>7. QED BY <1>2, <1>7, <2>2, <2>3, <2>4, <2>5, <2>6 DEF QueueInv
<1>8. ASSUME mode # 14 PROVE DoneInv'
  <2>1. hits = Total /\ (mode = 9 => Seen = {}) /\ queue = << >>
    <3>1. CASE mode = 9
      BY <1>1, <1>8, <3>1, SmallDone DEF CallbackInv
    <3>2. CASE mode # 9
      <4>1. hits = Total \cap Seen /\ queue = << >>
        BY <1>5, <1>8, <3>2 DEF CallbackInv
      <4>2. Total \subseteq Seen
        BY <3>2 DEF Total
      <4>3. QED BY <3>2, <4>1, <4>2
    <3>3. QED BY <3>1, <3>2
  <2>2. strays = AllStrays
    <3>1. T \in Nat /\ T % 2 = 0 /\ Tend \in Nat
      BY MemoryFacts DEF StreamTracked
    <3>2. ASSUME NEW x \in AllStrays PROVE StrayHadTurn(x)
      <4>1. PICK t \in Nat : t = x[2] /\ t % 2 = 0 /\ t <= Tend + 1
        BY <3>1 DEF AllStrays
      <4>2. t # T + 1
        BY <3>1, <4>1
      <4>3. t <= T
        BY <1>1, <3>1, <4>1, <4>2
      <4>4. QED BY <1>1, <3>1, <4>1, <4>3 DEF StrayHadTurn
    <3>3. QED BY <3>2 DEF CallbackInv
  <2>3. foundCounter' = run' * RunTotal
    <3>1. RunTotal = Cardinality(hits) + Cardinality(strays)
      BY <2>1, <2>2 DEF RunTotal
    <3>2. Cardinality(hits) \in Nat /\ Cardinality(strays) \in Nat
      BY <2>1, <2>2, PlacesFinite, FS_CardinalityType
    <3>3. foundCounter = run * RunTotal + RunTotal
      <4>1. PICK c \in Nat : c = run * RunTotal
        BY RunTotalType
      <4>2. QED BY <1>6, <3>1, <3>2, <4>1
    <3>4. PICK d \in Nat : d = RunTotal
      BY RunTotalType
    <3>5. (run + 1) * d = run * d + d
      BY <3>4
    <3>6. QED BY <1>1, <1>2, <1>8, <3>3, <3>4, <3>5
  <2>4. (mode \in {1, 2} => \A s \in States(acsm) : \A p \in EntriesOf(s) : ~ReverseCrashes(p))'
    BY <1>2 DEF CallbackInv, EntriesOf
  <2>5. QED BY <1>2, <1>3, <2>1, <2>2, <2>3, <2>4 DEF DoneInv
<1>9. QED BY <1>7, <1>8

-----------------------------------------------------------------------------
(* The queue of mode 14.                                                   *)

Pushed(x, s) == <<x>> \o s

LEMMA InFront ==
    ASSUME NEW C, NEW s \in Seq(C), NEW x, NEW t, t = Pushed(x, s)
    PROVE  /\ Len(t) = Len(s) + 1 /\ t[1] = x
           /\ \A j \in 1 .. Len(s) : t[j + 1] = s[j]
           /\ IsSequence(t)
<1>1. PICK D : D = C \cup {x}
  OBVIOUS
<1>2. t = <<x>> \o s
  BY DEF Pushed
<1>3. <<x>> \in Seq(D) /\ s \in Seq(D) /\ Len(<<x>>) = 1 /\ <<x>>[1] = x
  BY <1>1
<1>4. Len(t) = Len(s) + 1 /\ t \in Seq(D)
  BY <1>3, <1>2
<1>5. Len(s) \in Nat
  OBVIOUS
<1>6. t[1] = x
  BY <1>3, <1>5, <1>2
<1>7. ASSUME NEW j \in 1 .. Len(s) PROVE t[j + 1] = s[j]
  BY <1>3, <1>5, <1>2
<1>8. IsSequence(t)
  BY <1>4 DEF IsSequence
<1>9. QED BY <1>4, <1>6, <1>7, <1>8

LEMMA QueuedKeeps ==
    ASSUME InputsKept, StreamTracked, CallbackInv, run \in Nat, fullMatchToQueue,
           IsSequence(queue)
    PROVE  CallbackInv' /\ IsSequence(queue)'
<1>1. /\ mode = 14 /\ mlist <= Len(MatchList) /\ mlist' = mlist + 1
      /\ queue' = <<<<Entry, T - Entry.start>>>> \o queue
      /\ UNCHANGED <<searchVars, T, state>>
      /\ UNCHANGED <<run, foundCounter, hits, strays>>
  BY DEF fullMatchToQueue
<1>2. Len(MatchList) \in Nat /\ mlist \in 1 .. Len(MatchList) + 1
  BY ListLength DEF CallbackInv
<1>3. mlist \in 1 .. Len(MatchList) /\ mlist' \in 1 .. Len(MatchList) + 1
  BY <1>1, <1>2
<1>4. PICK p, id, o, x : p = Entry /\ id = p.iid /\ o = T - p.start /\ x = <<id, o>>
  OBVIOUS
<1>5. Passed' = Passed \cup {x} /\ x \in Seen \ Passed
  <2>1. UNCHANGED <<searchVars, T, state>> /\ x = <<Entry.iid, T - Entry.start>>
    BY <1>1, <1>4
  <2>2. QED BY <1>1, <1>3, <2>1, TurnTaken
<1>6. p = SubPatternOf(acsm.patterns[id], id, o % 2)
  <2>1. p = acsm.plist[MatchList[mlist]]
    BY <1>4 DEF Entry
  <2>2. QED BY <1>3, <1>4, <2>1, EntryIsPlace
<1>7. /\ mode' = mode /\ acsm' = acsm /\ MatchList' = MatchList /\ T' = T
      /\ Total' = Total /\ AllStrays' = AllStrays /\ RunTotal' = RunTotal
  BY <1>1, PlacesKept DEF MatchList, searchVars
<1>8. PICK y, q, n : y = <<p, o>> /\ q = queue' /\ n = Len(queue)
  OBVIOUS
<1>9. /\ n \in Nat /\ Len(q) = n + 1 /\ q[1] = y
      /\ \A j \in 1 .. n : q[j + 1] = queue[j]
      /\ IsSequence(q)
  <2>1. q = Pushed(y, queue)
    BY <1>1, <1>4, <1>8 DEF Pushed
  <2>2. n \in Nat
    BY <1>8 DEF IsSequence
  <2>3. PICK C : queue \in Seq(C)
    BY DEF IsSequence
  <2>4. /\ Len(q) = Len(queue) + 1 /\ q[1] = y
        /\ \A j \in 1 .. Len(queue) : q[j + 1] = queue[j]
        /\ IsSequence(q)
    BY ONLY <2>1, <2>3, InFront
  <2>5. QED BY <1>8, <2>2, <2>4
<1>10. hits = {} /\ QueueHolds(Passed)
  BY <1>1 DEF CallbackInv
<1> DEFINE place(j) == <<q[j][1].iid, q[j][2]>>
<1>11. place(1) = x
  BY <1>4, <1>8, <1>9
<1>12. \A j \in 1 .. n : place(j + 1) = QueuePlace(j)
  BY <1>9 DEF QueuePlace
<1>13. ASSUME NEW k \in 1 .. Len(q) PROVE k = 1 \/ \E j \in 1 .. n : k = j + 1
  <2>1. k \in Int /\ 1 <= k /\ k <= n + 1
    BY <1>9
  <2>2. ASSUME k # 1 PROVE k - 1 \in 1 .. n /\ k = (k - 1) + 1
    BY <1>9, <2>1, <2>2
  <2>3. QED BY <2>2
<1>14. \A j \in 1 .. n : j + 1 \in 1 .. Len(q)
  BY <1>9
<1>15. 1 \in 1 .. Len(q)
  BY <1>9
<1>16. \A j \in 1 .. n : QueuePlace(j) \in Passed
  BY <1>8, <1>10 DEF QueueHolds
<1>17. {place(j) : j \in 1 .. Len(q)} = Passed \cup {x}
  <2>1. ASSUME NEW k \in 1 .. Len(q) PROVE place(k) \in Passed \cup {x}
    <3> HIDE DEF place
    <3>1. QED BY <1>11, <1>12, <1>13, <1>16
  <2>2. ASSUME NEW z \in Passed PROVE \E k \in 1 .. Len(q) : place(k) = z
    <3>1. PICK j \in 1 .. n : QueuePlace(j) = z
      BY <1>8, <1>10 DEF QueueHolds
    <3> HIDE DEF place
    <3>2. QED BY <1>12, <1>14, <3>1
  <2> HIDE DEF place
  <2>3. QED BY <1>11, <1>15, <2>1, <2>2
<1>18. ASSUME NEW i \in 1 .. Len(q), NEW j \in 1 .. Len(q), place(i) = place(j)
       PROVE  i = j
  <2> HIDE DEF place
  <2>1. ASSUME NEW k \in 1 .. n PROVE place(k + 1) # x
    BY <1>5, <1>12, <1>16, <2>1
  <2>2. ASSUME NEW a \in 1 .. n, NEW b \in 1 .. n, place(a + 1) = place(b + 1)
        PROVE  a = b
    BY <1>8, <1>10, <1>12, <2>2 DEF QueueHolds
  <2>3. CASE i = 1 /\ j = 1
    BY <2>3
  <2>4. CASE i = 1 /\ j # 1
    BY <1>11, <1>13, <1>18, <2>1, <2>4
  <2>5. CASE i # 1 /\ j = 1
    BY <1>11, <1>13, <1>18, <2>1, <2>5
  <2>6. CASE i # 1 /\ j # 1
    <3>1. PICK a \in 1 .. n : i = a + 1
      BY <1>13, <2>6
    <3>2. PICK b \in 1 .. n : j = b + 1
      BY <1>13, <2>6
    <3>3. QED BY <1>18, <2>2, <3>1, <3>2
  <2>7. QED BY <2>3, <2>4, <2>5, <2>6
<1>19. ASSUME NEW k \in 1 .. Len(q)
       PROVE  q[k][1] = SubPatternOf(acsm.patterns[q[k][1].iid], q[k][1].iid, q[k][2] % 2)
  <2>1. CASE k = 1
    <3>1. q[k][1] = p /\ q[k][2] = o /\ q[k][1].iid = id
      BY <1>4, <1>8, <1>9, <2>1
    <3>2. QED BY <1>6, <3>1
  <2>2. CASE k # 1
    <3>1. PICK j \in 1 .. n : k = j + 1
      BY <1>13, <2>2
    <3>2. q[k] = queue[j]
      BY <1>9, <3>1
    <3>3. queue[j][1] = SubPatternOf(acsm.patterns[queue[j][1].iid], queue[j][1].iid, queue[j][2] % 2)
      BY <1>8, <1>10 DEF QueueHolds
    <3>4. QED BY <3>2, <3>3
  <2>3. QED BY <2>1, <2>2
<1>20. QueueHolds(Passed)'
  BY <1>5, <1>7, <1>8, <1>17, <1>18, <1>19 DEF QueueHolds, QueuePlace
<1>21. /\ foundCounter' = (run * RunTotal + Cardinality(hits) + Cardinality(strays))'
       /\ hits' = {}
  BY <1>1, <1>7, <1>10 DEF CallbackInv
<1>22. mlist' \in (1 .. Len(MatchList) + 1)'
  BY <1>3, <1>7
<1>23. (strays = {s \in AllStrays : StrayHadTurn(s)})'
  <2>1. AllStrays = {} /\ strays = {}
    BY <1>1, NoStrays DEF CallbackInv
  <2>2. QED BY <1>1, <1>7, <2>1
<1>24. CallbackInv'
  <2>1. mode' = 14
    BY <1>1, <1>7
  <2>2. QED BY <1>20, <1>21, <1>22, <1>23, <2>1 DEF CallbackInv
<1>25. QED BY <1>8, <1>9, <1>24

-----------------------------------------------------------------------------
(* fullMatchFromQueue.                                                     *)

LEMMA QueuedDecided ==
    ASSUME InputsKept, QueueInv, IsSequence(queue), NEW j \in 1 .. Len(queue),
           NEW p, p = queue[j][1], NEW o, o = queue[j][2]
    PROVE  /\ QueuePlace(j) = <<p.iid, o>> /\ <<p.iid, o>> \in Seen
           /\ Agree(p, o, RestIndices(p.indexEnd)) <=> <<p.iid, o>> \in Total
<1>1. mode = 14 /\ QueueHolds(Seen)
  BY DEF QueueInv
<1>2. PICK id, x : id = p.iid /\ x = <<id, o>> /\ x[1] = id /\ x[2] = o
  <2>1. PICK id : id = p.iid
    OBVIOUS
  <2>2. PICK x : x = <<id, o>>
    OBVIOUS
  <2>3. x[1] = id /\ x[2] = o
    BY <2>2
  <2>4. QED BY <2>1, <2>2, <2>3
<1>3. QueuePlace(j) = x
  BY <1>2 DEF QueuePlace
<1>4. x \in Seen
  BY <1>1, <1>3 DEF QueueHolds
<1>5. p = SubPatternOf(acsm.patterns[id], id, o % 2)
  BY <1>1, <1>2 DEF QueueHolds
<1>6. /\ id \in Halved(acsm) /\ o \in Int /\ o % 2 \in 0 .. 1
      /\ TurnOf(id, o) \in Nat
      /\ HalfRead(acsm.patterns[id], o % 2, TurnOf(id, o))
  BY <1>2, <1>4, SeenFacts
<1>7. p.flag = o % 2
  BY <1>5, SubPatternFields
<1>8. PICK q, f : q = acsm.patterns[id] /\ f = p.flag
  OBVIOUS
<1>9. IsHalf(p, q, f)
  BY <1>2, <1>5, <1>6, <1>7, <1>8, EntryIsHalf
<1>10. PICK t \in Nat : t = TurnOf(id, o)
  BY <1>6
<1>11. t - p.start = o
  <2>1. p.start = Start(Len(q), f) /\ p.start \in Nat
    BY <1>9, HalfNumbers
  <2>2. t = o + p.start
    BY <1>7, <1>8, <1>10, <2>1 DEF TurnOf
  <2>3. QED BY <1>6, <2>1, <2>2
<1>12. Agree(p, o, RestIndices(p.indexEnd)) <=> Stands(q, o)
  <2>1. HalfRead(q, f, t)
    BY <1>6, <1>7, <1>8, <1>10
  <2>2. Agree(p, t - p.start, RestIndices(p.indexEnd)) <=> Stands(q, t - p.start)
    BY <1>9, <2>1, FullMatchDecides
  <2>3. QED BY <1>11, <2>2
<1>13. x \in Total <=> Stands(q, o)
  BY <1>1, <1>2, <1>4, <1>8 DEF Total, Accepted, Misplaced
<1>14. QED BY <1>2, <1>3, <1>4, <1>12, <1>13

LEMMA CompareKeeps ==
    ASSUME InputsKept, QueueInv, IsSequence(queue), run \in Nat, CompareQueued
    PROVE  QueueInv'
<1>1. /\ mlist <= Len(queue) /\ mlist' = mlist + 1
      /\ Report(Agree(queue[mlist][1], queue[mlist][2], RestIndices(queue[mlist][1].indexEnd)),
                queue[mlist][1], queue[mlist][2])
      /\ UNCHANGED searchVars
      /\ UNCHANGED <<run, queue, strays>>
  BY DEF CompareQueued
<1>2. Len(queue) \in Nat
  BY DEF IsSequence
<1>3. /\ mode = 14 /\ mlist \in 1 .. Len(queue) + 1
      /\ foundCounter = run * RunTotal + Cardinality(hits) /\ strays = {}
      /\ QueueHolds(Seen)
      /\ hits = {QueuePlace(j) : j \in 1 .. mlist - 1} \cap Total
  <2>1. /\ foundCounter = run * RunTotal + Cardinality(hits) + Cardinality(strays)
        /\ strays = {} /\ hits \subseteq Total
    BY DEF QueueInv
  <2>2. Cardinality(strays) = 0
    BY <2>1, FS_EmptySet
  <2>3. PICK c \in Nat, h \in Nat : c = run * RunTotal /\ h = Cardinality(hits)
    BY <2>1, RunTotalType, PlacesFinite, FS_Subset, FS_CardinalityType
  <2>4. foundCounter = run * RunTotal + Cardinality(hits)
    BY <2>1, <2>2, <2>3
  <2>5. QED BY <2>4 DEF QueueInv
<1>4. mlist \in 1 .. Len(queue) /\ mlist' \in 1 .. Len(queue) + 1
  BY <1>1, <1>2, <1>3
<1>5. PICK p, o, x : p = queue[mlist][1] /\ o = queue[mlist][2] /\ x = <<p.iid, o>>
  OBVIOUS
<1>6. /\ QueuePlace(mlist) = x
      /\ Agree(p, o, RestIndices(p.indexEnd)) <=> x \in Total
  BY <1>4, <1>5, QueuedDecided
<1>7. PICK F : F = {x} \cap Total
  OBVIOUS
<1>8. hits' = hits \cup F
  BY <1>1, <1>5, <1>6, <1>7 DEF Report
<1>9. IsFiniteSet(hits) /\ Cardinality(hits) \in Nat
  <2>1. hits \subseteq Total
    BY <1>3
  <2>2. QED BY <2>1, PlacesFinite, FS_Subset, FS_CardinalityType
<1>10. x \notin hits
  <2>1. SUFFICES ASSUME NEW j \in 1 .. mlist - 1, QueuePlace(j) = x PROVE FALSE
    BY <1>3
  <2>2. j \in 1 .. Len(queue) /\ j # mlist
    BY <1>2, <1>4
  <2>3. QED BY <1>3, <1>4, <1>6, <2>1, <2>2 DEF QueueHolds
<1>11. foundCounter' = run * RunTotal + Cardinality(hits')
  <2>1. PICK c \in Nat : c = run * RunTotal
    BY RunTotalType
  <2>2. CASE x \in Total
    <3>1. hits' = hits \cup {x}
      BY <1>7, <1>8, <2>2
    <3>2. Cardinality(hits') = Cardinality(hits) + 1
      BY <1>9, <1>10, <3>1, FS_AddElement
    <3>3. foundCounter' = foundCounter + 1
      BY <1>1, <1>5, <1>6, <2>2 DEF Report
    <3>4. PICK h \in Nat : h = Cardinality(hits)
      BY <1>9
    <3>5. Cardinality(hits') = h + 1 /\ foundCounter = c + h
      BY <1>3, <2>1, <3>2, <3>4
    <3>6. foundCounter' = c + Cardinality(hits')
      BY <3>3, <3>4, <3>5
    <3>7. QED BY <2>1, <3>6
  <2>3. CASE x \notin Total
    <3>1. foundCounter' = foundCounter /\ hits' = hits
      BY <1>1, <1>5, <1>6, <2>3 DEF Report
    <3>2. QED BY <1>3, <3>1
  <2>4. QED BY <2>2, <2>3
<1>12. Seen' = Seen /\ Total' = Total /\ RunTotal' = RunTotal /\ mode' = mode /\ acsm' = acsm
  BY <1>1, PlacesKept DEF searchVars
<1>13. QueueHolds(Seen)'
  BY <1>1, <1>3, <1>12 DEF QueueHolds, QueuePlace
<1>14. hits' = ({QueuePlace(j) : j \in 1 .. mlist - 1} \cap Total)'
  <2>1. PICK A, B : A = {QueuePlace(j) : j \in 1 .. mlist - 1} /\ B = {QueuePlace(j) : j \in 1 .. mlist}
    OBVIOUS
  <2>2. B = A \cup {x}
    <3>1. \A j \in 1 .. mlist : j = mlist \/ j \in 1 .. mlist - 1
      BY <1>4
    <3>2. \A j \in 1 .. mlist - 1 : j \in 1 .. mlist
      BY <1>4
    <3>3. mlist \in 1 .. mlist
      BY <1>4
    <3>4. QED BY <1>6, <2>1, <3>1, <3>2, <3>3
  <2>3. hits' = B \cap Total
    BY <1>3, <1>7, <1>8, <2>1, <2>2
  <2>4. mlist' - 1 = mlist
    BY <1>1, <1>4
  <2>5. ({QueuePlace(j) : j \in 1 .. mlist - 1})' = B
    BY <1>1, <2>1, <2>4 DEF QueuePlace
  <2>6. QED BY <1>12, <2>3, <2>5
<1>15. foundCounter' = (run * RunTotal + Cardinality(hits) + Cardinality(strays))' /\ strays' = {}
  <2>1. PICK c \in Nat : c = run * RunTotal
    BY RunTotalType
  <2>2. Cardinality(hits') \in Nat /\ Cardinality({}) = 0
    <3>1. hits' \subseteq Total
      BY <1>3, <1>7, <1>8
    <3>2. QED BY <3>1, PlacesFinite, FS_Subset, FS_CardinalityType, FS_EmptySet
  <2>3. foundCounter' = c + Cardinality(hits') + Cardinality({})
    BY <1>11, <2>1, <2>2
  <2>4. QED BY <1>1, <1>3, <1>12, <2>1, <2>3
<1>16. mlist' \in (1 .. Len(queue) + 1)'
  BY <1>1, <1>4
<1>17. QED BY <1>3, <1>12, <1>13, <1>14, <1>15, <1>16 DEF QueueInv

LEMMA EmptyKeeps ==
    ASSUME InputsKept, QueueInv, IsSequence(queue), run \in Nat, EmptyQueue
    PROVE  DoneInv' /\ IsSequence(queue)'
<1>1. /\ mlist > Len(queue) /\ queue' = << >> /\ run' = run + 1
      /\ UNCHANGED searchVars
      /\ UNCHANGED <<foundCounter, hits, strays>>
  BY DEF EmptyQueue
<1>2. Len(queue) \in Nat
  BY DEF IsSequence
<1>3. /\ mode = 14 /\ mlist \in 1 .. Len(queue) + 1
      /\ foundCounter = run * RunTotal + Cardinality(hits) + Cardinality(strays)
      /\ strays = {}
      /\ QueueHolds(Seen)
      /\ hits = {QueuePlace(j) : j \in 1 .. mlist - 1} \cap Total
  BY DEF QueueInv
<1>4. mlist - 1 = Len(queue)
  BY <1>1, <1>2, <1>3
<1>5. hits = Total
  <2>1. {QueuePlace(j) : j \in 1 .. Len(queue)} = Seen
    BY <1>3 DEF QueueHolds
  <2>2. Total \subseteq Seen
    BY <1>3 DEF Total
  <2>3. QED BY <1>3, <1>4, <2>1, <2>2
<1>6. foundCounter' = run' * RunTotal /\ strays = AllStrays
  <2>1. AllStrays = {}
    BY <1>3, NoStrays
  <2>2. RunTotal = Cardinality(hits) + Cardinality(strays)
    BY <1>3, <1>5, <2>1 DEF RunTotal
  <2>3. Cardinality(hits) \in Nat /\ Cardinality(strays) \in Nat
    BY <1>3, <1>5, <2>1, PlacesFinite, FS_CardinalityType
  <2>4. foundCounter = run * RunTotal + RunTotal
    <3>1. PICK c \in Nat : c = run * RunTotal
      BY RunTotalType
    <3>2. QED BY <1>3, <2>2, <2>3, <3>1
  <2>5. PICK d \in Nat : d = RunTotal
    BY RunTotalType
  <2>6. (run + 1) * d = run * d + d
    BY <2>5
  <2>7. QED BY <1>1, <1>3, <2>1, <2>4, <2>5, <2>6
<1>7. Total' = Total /\ AllStrays' = AllStrays /\ RunTotal' = RunTotal /\ mode' = mode
  BY <1>1, PlacesKept DEF searchVars
<1>8. IsSequence(queue)'
  <2>1. << >> \in Seq({})
    OBVIOUS
  <2>2. QED BY <1>1, <2>1 DEF IsSequence
<1>9. DoneInv'
  <2>1. hits' = Total' /\ strays' = AllStrays' /\ foundCounter' = (run * RunTotal)'
    BY <1>1, <1>5, <1>6, <1>7
  <2>2. mode' = 14 /\ queue' = << >>
    BY <1>1, <1>3, <1>7
  <2>3. QED BY <2>1, <2>2 DEF DoneInv
<1>10. QED BY <1>8, <1>9

-----------------------------------------------------------------------------
(* The first step of a search, and every other one.                        *)

LEMMA SearchBegins ==
    ASSUME InputsKept, UNCHANGED searchVars, run \in Nat, run' = run,
           mode \in {1, 2} => \A s \in States(acsm) : \A p \in EntriesOf(s) : ~ReverseCrashes(p),
           T' = 0, state' = 0, mlist' = 1, hits' = {}, strays' = {}, queue' = << >>,
           foundCounter' = run * RunTotal
    PROVE  StreamTracked' /\ CallbackInv' /\ IsSequence(queue)'
<1>1. acsm' = acsm /\ Tend' = Tend /\ Memory' = Memory /\ mode' = mode
  BY PlacesKept DEF searchVars
<1>2. /\ Seen' = Seen /\ Total' = Total /\ AllStrays' = AllStrays /\ RunTotal' = RunTotal
      /\ \A x : TurnOf(x[1], x[2])' = TurnOf(x[1], x[2])
  BY PlacesKept
<1>3. 0 \in States(acsm) /\ Reads(acsm.label, EvenStream, 0, 0)
  BY StreamBegins
<1>4. StreamTracked'
  <2>1. EvenStream' = EvenStream
    BY <1>1 DEF EvenStream, Byte
  <2>2. 0 \in Nat /\ 0 % 2 = 0 /\ 0 <= Tend + 1 /\ 0 \div 2 = 0
    BY MemoryFacts
  <2>3. QED BY <1>1, <1>3, <2>1, <2>2 DEF StreamTracked
<1>5. Len(MatchList') \in Nat
  <2>1. MatchList' \in Seq(DOMAIN acsm.plist)
    BY <1>1, <1>3, AutomatonFacts DEF MatchList, InputsKept
  <2>2. QED BY <2>1
<1>6. ASSUME NEW x \in Seen PROVE TurnOf(x[1], x[2])' >= T' /\ ~HadTurn(x)'
  <2>1. TurnOf(x[1], x[2])' >= T' /\ ~(TurnOf(x[1], x[2])' < T')
    <3>1. PICK t \in Nat : t = TurnOf(x[1], x[2])
      BY SeenFacts
    <3>2. QED BY <1>2, <3>1
  <2>2. \A j \in 1 .. Len(MatchList') : ~(j < mlist')
    BY <1>5
  <2>3. QED BY <2>1, <2>2 DEF HadTurn
<1>7. Passed' = {}
  <2>1. Passed' = {x \in Seen : HadTurn(x)'}
    BY <1>2 DEF Passed
  <2>2. QED BY <1>6, <2>1
<1>8. QueueHolds(Passed)'
  <2>1. Len(queue') = 0
    OBVIOUS
  <2>2. \A j \in 1 .. Len(queue') : FALSE
    BY <2>1
  <2>3. QED BY <1>7, <2>2 DEF QueueHolds
<1>9. mode = 9 => {} = {x \in Total : x[2] < T'}
  <2>1. ASSUME NEW x \in Total, mode = 9 PROVE ~(x[2] < 0)
    <3>1. x \in SmallPlaces
      BY <2>1 DEF Total
    <3>2. x[2] \in 0 .. Tend
      BY <3>1 DEF SmallPlaces
    <3>3. QED BY <3>2
  <2>2. QED BY <2>1
<1>10. foundCounter' = (run * RunTotal + Cardinality(hits) + Cardinality(strays))'
  <2>1. Cardinality({}) = 0
    BY FS_EmptySet
  <2>2. PICK c \in Nat : c = run * RunTotal
    BY RunTotalType
  <2>3. foundCounter' = c + Cardinality(hits') + Cardinality(strays')
    BY <2>1, <2>2
  <2>4. QED BY <1>2, <2>2, <2>3
<1>11. (mode \in {1, 2} => \A s \in States(acsm) : \A p \in EntriesOf(s) : ~ReverseCrashes(p))'
  BY <1>1 DEF EntriesOf
<1>12. mlist' \in (1 .. Len(MatchList) + 1)'
  BY <1>5
<1>13. IsSequence(queue)'
  <2>1. << >> \in Seq({})
    OBVIOUS
  <2>2. QED BY <2>1 DEF IsSequence
<1>14. (strays = {x \in AllStrays : StrayHadTurn(x)})'
  <2>1. \A x \in AllStrays : ~(x[2] < T')
    BY MemoryFacts DEF AllStrays
  <2>2. strays' = {x \in AllStrays : x[2] < T'}
    BY <2>1
  <2>3. QED BY <1>4, <2>2, StraysWait
<1>15. CallbackInv'
  BY <1>1, <1>2, <1>6, <1>7, <1>8, <1>9, <1>10, <1>11, <1>12, <1>14 DEF CallbackInv
<1>16. QED BY <1>4, <1>13, <1>15

LEMMA SearchInit == Init => SearchInv
<1> SUFFICES ASSUME Init PROVE SearchInv
  OBVIOUS
<1>1. InputsKept
  BY DEF Init, InputsKept
<1>2. T = 0 /\ state = 0 /\ queue = << >> /\ pc = "postprocess" /\ run = 0 /\ mlist = 1
      /\ foundCounter = 0 /\ hits = {} /\ strays = {}
  BY DEF Init
<1>3. StreamTracked
  <2>1. 0 \in States(acsm) /\ Reads(acsm.label, EvenStream, 0, 0)
    BY <1>1, StreamBegins
  <2>2. 0 \in Nat /\ 0 % 2 = 0 /\ 0 <= Tend + 1 /\ 0 \div 2 = 0
    BY <1>1, MemoryFacts
  <2>3. QED BY <1>2, <2>1, <2>2 DEF StreamTracked
<1>4. IsSequence(queue)
  <2>1. << >> \in Seq({})
    OBVIOUS
  <2>2. QED BY <1>2, <2>1 DEF IsSequence
<1>5. QED BY <1>1, <1>2, <1>3, <1>4 DEF SearchInv

(* The steps that leave the search where it is.                            *)
LEMMA SearchTransition ==
    ASSUME SearchInv, UNCHANGED <<searchVars, run, pc, T, state, queue>>, pc = "callback", CallbackInv'
    PROVE  SearchInv'
<1>1. UNCHANGED searchVars /\ run' = run /\ pc' = pc /\ queue' = queue
      /\ UNCHANGED <<searchVars, T, state>>
  OBVIOUS
<1>2. InputsKept'
  BY <1>1, PlacesKept DEF SearchInv
<1>3. StreamTracked'
  BY <1>1, StreamKept DEF SearchInv
<1>4. IsSequence(queue)' /\ run' \in Nat
  BY <1>1 DEF SearchInv, IsSequence
<1>5. QED BY <1>1, <1>2, <1>3, <1>4 DEF SearchInv

LEMMA CallbackSteps ==
    ASSUME SearchInv, pc = "callback",
           \/ fullMatchCharTree \/ fullMatchBitmapTree
           \/ fullMatchTwiceOddEven \/ fullMatchSynthesis
           \/ full_match \/ InlineMatch
           \/ fullMatchUsingLastCharHash \/ LastCharFilterInline \/ fullMatchFilterDigest
    PROVE  SearchInv'
<1>1. InputsKept /\ StreamTracked /\ CallbackInv /\ run \in Nat
  BY DEF SearchInv
<1>2. UNCHANGED <<searchVars, run, pc, T, state, queue>>
  BY DEF fullMatchCharTree, fullMatchBitmapTree, VisitTree, fullMatchTwiceOddEven,
         fullMatchSynthesis, full_match, InlineMatch, fullMatchUsingLastCharHash,
         LastCharFilterInline, fullMatchFilterDigest, Visit, VisitAll
<1>3. CallbackInv'
  <2>1. CASE fullMatchCharTree \/ fullMatchBitmapTree
    BY <1>1, <2>1, TreesKeep
  <2>2. CASE fullMatchTwiceOddEven
    BY <1>1, <2>2, TwiceKeeps
  <2>3. CASE fullMatchSynthesis
    BY <1>1, <2>3, SynthesisKeeps
  <2>4. CASE \/ full_match \/ InlineMatch
             \/ fullMatchUsingLastCharHash \/ LastCharFilterInline \/ fullMatchFilterDigest
    BY <1>1, <2>4, OneByOneKeeps
  <2>5. QED BY <2>1, <2>2, <2>3, <2>4
<1>4. QED BY <1>2, <1>3, SearchTransition

-----------------------------------------------------------------------------
(* What is in Total.                                                       *)

LEMMA StandsInText ==
    ASSUME InputsKept, NEW q, Len(q) \in Nat, NEW o \in Nat, o + Len(q) <= Tend
    PROVE  OccursAt(q, text, o) <=> Stands(q, o)
<1>1. Tend \in Nat /\ \A i \in 0 .. Tend - 1 : Byte(i) = At(text, i)
  BY MemoryFacts
<1>2. ASSUME NEW i \in 0 .. Len(q) - 1 PROVE At(text, o + i) = At(Memory, o + MaxFront + i)
  <2>1. o + i \in 0 .. Tend - 1
    BY <1>1
  <2>2. o + i + MaxFront = o + MaxFront + i
    BY DEF MaxFront
  <2>3. QED BY <1>1, <2>1, <2>2 DEF Byte
<1>3. OccursAt(q, text, o) <=> \A i \in 0 .. Len(q) - 1 : At(q, i) = At(text, o + i)
  BY DEF OccursAt, Tend
<1>4. Stands(q, o) <=> \A i \in 0 .. Len(q) - 1 : At(q, i) = At(Memory, o + MaxFront + i)
  BY DEF Stands, AllStands
<1>5. QED BY <1>2, <1>3, <1>4

LEMMA LengthsTyped ==
    ASSUME InputsKept, NEW id \in DOMAIN acsm.patterns
    PROVE  acsm.patterns[id] \in Seq(Char) /\ Len(acsm.patterns[id]) \in Nat
<1>1. acsm.patterns \in Seq(Seq(Char))
  BY AutomatonFacts DEF InputsKept
<1>2. acsm.patterns[id] \in Seq(Char)
  BY <1>1
<1>3. QED BY <1>2, LenType

(* A pattern that stands in the text comes to its turn.                    *)
LEMMA OccurrenceSeenHere ==
    ASSUME InputsKept, NEW id \in Halved(acsm), NEW o \in Nat,
           o + Len(acsm.patterns[id]) <= Tend, Stands(acsm.patterns[id], o)
    PROVE  <<id, o>> \in Seen
<1>1. PICK q, f : q = acsm.patterns[id] /\ f = o % 2
  OBVIOUS
<1>2. f \in 0 .. 1 /\ Len(q) \in Nat /\ Len(q) >= 2
  BY <1>1, HalvedFacts DEF InputsKept
<1>3. PICK m \in Nat, h \in Nat, st \in Nat :
        /\ m = Len(q) /\ h = HalfLength(m, f) /\ st = Start(m, f)
        /\ st = 2 * h + f /\ st \in m .. m + 1
  <2>1. /\ HalfLength(Len(q), f) \in Nat
        /\ Start(Len(q), f) = 2 * HalfLength(Len(q), f) + f
        /\ Start(Len(q), f) \in Len(q) .. Len(q) + 1
    BY <1>2, SplitArithmetic
  <2>2. QED BY <1>2, <2>1
<1>4. Tend \in Nat
  BY MemoryFacts
<1>5. o + st <= Tend + 1 /\ o \in -1 .. Tend
  <2>1. PICK n \in Nat : n = Tend
    BY <1>4
  <2>2. o + m <= n
    BY <1>1, <1>3, <2>1
  <2>3. o + st <= n + 1 /\ o \in -1 .. n
    BY <1>3, <2>2
  <2>4. QED BY <2>1, <2>3
<1>6. PICK x \in Nat : x = o + st /\ TurnOf(id, o) = x
  <2>1. TurnOf(id, o) = o + st
    BY <1>1, <1>3 DEF TurnOf
  <2>2. QED BY <2>1
<1>7. HalfRead(q, f, x)
  <2>1. o + 3 \in Nat /\ AllStands(q, Memory, m, o + 3)
    BY <1>1, <1>3 DEF Stands, MaxFront
  <2>2. HalfStands(q, Memory, f, h, (o + 3) + (2 * h + f))
    BY <1>2, <1>3, <2>1, AllBytesAgree
  <2>3. (o + 3) + (2 * h + f) = x + 3
    BY <1>2, <1>3, <1>6
  <2>4. QED BY <1>3, <2>2, <2>3 DEF HalfRead, MaxFront
<1>8. QED BY <1>1, <1>5, <1>6, <1>7 DEF Seen

LEMMA ExpectedFound ==
    ASSUME InputsKept, mode # 12, mode = 9 => Seen = {}, NEW x \in Expected
    PROVE  Misplaced(x) \/ x \in Total
<1>1. PICK id, o, q : id = x[1] /\ o = x[2] /\ x = <<id, o>> /\ q = acsm.patterns[id]
  BY DEF Expected, Occurrences
<1>2. /\ id \in DOMAIN acsm.patterns /\ o \in 0 .. Len(text)
      /\ Len(q) >= (IF mode = 9 THEN 1 ELSE 2) /\ OccursAt(q, text, o)
  BY <1>1 DEF Expected, Occurrences
<1>3. Len(q) \in Nat /\ Tend \in Nat /\ Tend = Len(text)
  BY <1>1, <1>2, LengthsTyped, MemoryFacts DEF Tend
<1>4. o \in Nat /\ o + Len(q) <= Tend
  BY <1>2, <1>3 DEF OccursAt
<1>5. Stands(q, o)
  BY <1>2, <1>3, <1>4, StandsInText
<1>6. acsm.minLength = IF mode = 9 THEN 3 ELSE 2
  BY DEF InputsKept
<1>7. ASSUME Len(q) >= acsm.minLength PROVE x \in Seen
  <2>1. id \in Halved(acsm)
    BY <1>1, <1>2, <1>7 DEF Halved
  <2>2. QED BY <1>1, <1>4, <1>5, <2>1, OccurrenceSeenHere
<1>8. CASE mode # 9
  <2>1. x \in Seen
    BY <1>2, <1>6, <1>7, <1>8
  <2>2. ~Misplaced(x) => Accepted(id, o)
    BY <1>1, <1>5 DEF Accepted
  <2>3. QED BY <1>1, <1>8, <2>1, <2>2 DEF Total
<1>9. CASE mode = 9
  <2>1. Len(q) \in 1 .. 2
    <3>1. ~(Len(q) >= 3)
      BY <1>6, <1>7, <1>9
    <3>2. PICK m \in Nat : m = Len(q)
      BY <1>3
    <3>3. m >= 1 /\ ~(m >= 3)
      BY <1>2, <1>9, <3>1, <3>2
    <3>4. m \in 1 .. 2
      BY <3>3
    <3>5. QED BY <3>2, <3>4
  <2>2. o \in 0 .. Tend /\ o - (o % 2) < Tend
    <3>1. PICK m \in 1 .. 2, n \in Nat : m = Len(q) /\ n = Tend
      BY <1>3, <2>1
    <3>2. o + m <= n /\ o \in Nat
      BY <1>4, <3>1
    <3>3. o % 2 \in 0 .. 1
      BY <3>2
    <3>4. o \in 0 .. n /\ o - (o % 2) < n
      BY <3>2, <3>3
    <3>5. QED BY <3>1, <3>4
  <2>3. x \in SmallPlaces
    BY <1>1, <1>2, <1>5, <2>1, <2>2 DEF SmallPlaces
  <2>4. QED BY <1>9, <2>3 DEF Total
<1>10. QED BY <1>8, <1>9

LEMMA InventedAtEdge ==
    ASSUME InputsKept, mode # 12, NEW x \in Total \ Expected
    PROVE  AtEdge(x) \/ Misplaced(x)
<1>0. SUFFICES ASSUME ~Misplaced(x) PROVE AtEdge(x)
  OBVIOUS
<1>1. PICK id, o, q : id = x[1] /\ o = x[2] /\ x = <<id, o>> /\ q = acsm.patterns[id]
  BY DEF Total, Seen, SmallPlaces
<1>2. Tend \in Nat /\ Tend = Len(text) /\ Behind \in 1 .. 2
  BY MemoryFacts DEF Tend
<1>3. ASSUME id \in DOMAIN acsm.patterns, Len(q) \in Nat, o \in Nat, o + Len(q) <= Tend, Stands(q, o),
             Len(q) >= IF mode = 9 THEN 1 ELSE 2
      PROVE  FALSE
  <2>1. OccursAt(q, text, o)
    BY <1>3, StandsInText
  <2>2. o \in 0 .. Len(text)
    BY <1>2, <1>3
  <2>3. QED BY <1>1, <1>3, <2>1, <2>2 DEF Expected, Occurrences
<1>4. CASE mode # 9
  <2>1. x \in Seen /\ Stands(q, o)
    <3>1. x \in Seen /\ Accepted(x[1], x[2])
      BY <1>4 DEF Total
    <3>2. Accepted(id, o)
      BY <1>1, <3>1
    <3>3. QED BY <1>0, <1>1, <3>1, <3>2 DEF Accepted
  <2>2. id \in Halved(acsm) /\ o \in -1 .. Tend /\ o + Len(q) <= Tend + 1
    <3>1. PICK t \in Nat : t = TurnOf(id, o) /\ t <= Tend + 1 /\ o + Len(q) <= t
      BY <1>1, <2>1, SeenFacts
    <3>2. id \in Halved(acsm) /\ o \in -1 .. Tend
      BY <1>1, <2>1, SeenFacts
    <3>3. Len(q) \in Nat
      BY <1>1, <3>2, HalvedFacts DEF InputsKept
    <3>4. QED BY <1>2, <3>1, <3>2, <3>3
  <2>3. id \in DOMAIN acsm.patterns /\ Len(q) \in Nat /\ Len(q) >= 2
    BY <1>1, <2>2, HalvedFacts DEF InputsKept
  <2>4. CASE o = -1
    BY <1>1, <2>4 DEF AtEdge
  <2>5. CASE o # -1
    <3>1. o \in Nat
      BY <1>2, <2>2, <2>5
    <3>2. ~(o + Len(q) <= Tend)
      BY <1>3, <1>4, <2>1, <2>3, <3>1
    <3>3. o + Len(q) \in Tend + 1 .. Tend + Behind
      BY <1>2, <2>2, <2>3, <3>1, <3>2
    <3>4. QED BY <1>1, <3>3 DEF AtEdge
  <2>6. QED BY <2>4, <2>5
<1>5. CASE mode = 9
  <2>1. /\ id \in DOMAIN acsm.patterns /\ o \in 0 .. Tend
        /\ Len(q) \in 1 .. 2 /\ o - (o % 2) < Tend /\ Stands(q, o)
    BY <1>1, <1>5 DEF Total, SmallPlaces
  <2>2. o \in Nat /\ Len(q) \in Nat /\ Len(q) >= 1
    <3>1. o \in 0 .. Tend
      BY <2>1
    <3>2. o \in Nat
      BY <1>2, <3>1
    <3>3. Len(q) \in 1 .. 2
      BY <2>1
    <3>4. QED BY <3>2, <3>3
  <2>3. ~(o + Len(q) <= Tend)
    BY <1>3, <1>5, <2>1, <2>2
  <2>4. Behind = 2
    BY <1>5 DEF Behind
  <2>5. PICK m \in 1 .. 2, n \in Nat : m = Len(q) /\ n = Tend
    BY <1>2, <2>1
  <2>6. o + Len(q) \in Tend + 1 .. Tend + Behind
    <3>1. o \in 0 .. n /\ o - (o % 2) < n /\ ~(o + m <= n)
      BY <2>1, <2>3, <2>5
    <3>2. o % 2 \in 0 .. 1
      BY <3>1
    <3>3. o <= n
      BY <3>1
    <3>4. o + m \in n + 1 .. n + 2
      BY <3>1, <3>3
    <3>5. QED BY <2>4, <2>5, <3>4
  <2>7. QED BY <1>1, <2>6 DEF AtEdge
<1>6. QED BY <1>4, <1>5

(* A half counted with no mark is a single byte: the second walk of mode 4 *)
(* meets it behind the first byte it reads.                                *)
LEMMA StraysShort ==
    ASSUME InputsKept, NEW x \in AllStrays
    PROVE  mode = 4 /\ Len(acsm.plist[x[1]].origin) < 4
<1>1. PICK e, t : /\ e = x[1] /\ t = x[2] /\ mode = 4 /\ e \in DOMAIN acsm.plist
                  /\ t \in 0 .. Tend + 1 /\ UnmarkedAt(e, t)
  BY DEF AllStrays
<1>2. PICK n \in Nat : /\ DepthAt(n, t)
                       /\ acsm.plist[e] \in EntriesOf(acsm.acsmNextState[0][Byte(t - 1 - 2 * n)])
  BY <1>1 DEF UnmarkedAt
<1>3. /\ acsm \in Automata /\ acsm.label \in [States(acsm) -> Seq(Char)]
      /\ acsm.acsmNextState \in [States(acsm) -> [Char -> States(acsm)]]
      /\ 0 \in States(acsm) /\ Len(acsm.label[0]) = 0
  BY AutomatonFacts DEF InputsKept
<1>4. PICK c \in Char : c = Byte(t - 1 - 2 * n)
  <2>1. 2 * n <= t
    <3>1. n <= t \div 2
      BY <1>2 DEF DepthAt, Reads, PrefixEndsWith
    <3>2. QED BY <1>1, <3>1, MemoryFacts
  <2>2. t - 1 - 2 * n \in -3 .. Tend + Behind - 1
    BY <1>1, <2>1, MemoryFacts
  <2>3. QED BY <2>2, MemoryFacts
<1>5. PICK s \in States(acsm) : s = acsm.acsmNextState[0][c]
  BY <1>3
<1>6. Len(acsm.label[s]) <= 1 /\ Len(acsm.label[s]) \in Nat
  <2>1. IsLongestSuffix(acsm.label, s, Append(acsm.label[0], c))
    BY <1>3, <1>5, AutomatonFacts
  <2>2. Len(Append(acsm.label[0], c)) = 1
    BY <1>3
  <2>3. QED BY <1>3, <2>1, <2>2 DEF IsLongestSuffix, EndsWith
<1>7. PICK p : p = acsm.plist[e] /\ p \in EntriesOf(s)
  BY <1>2, <1>4, <1>5
<1>8. PICK j \in 1 .. Len(acsm.acsmMatchList[s]) : p = acsm.plist[acsm.acsmMatchList[s][j]]
  <2>1. acsm.acsmMatchList[s] \in Seq(DOMAIN acsm.plist)
    BY <1>3, AutomatonFacts
  <2>2. QED BY <1>7, <2>1 DEF EntriesOf
<1>9. PICK m, f : m = Len(p.origin) /\ f = p.flag
  OBVIOUS
<1>10. m \in Nat /\ f \in 0 .. 1 /\ HalfLength(m, f) <= Len(acsm.label[s])
  BY <1>3, <1>8, <1>9, EntryFacts
<1>11. m < 4
  <2>1. HalfLength(m, f) \in Nat /\ HalfLength(m, f) <= 1
    BY <1>6, <1>10 DEF HalfLength
  <2>2. QED BY <1>10, <2>1 DEF HalfLength
<1>12. QED BY <1>1, <1>7, <1>9, <1>11

-----------------------------------------------------------------------------
(* Every action of the search keeps the invariant. *)
LEMMA SearchStep == SearchInv /\ [Next]_vars => SearchInv'
<1> SUFFICES ASSUME SearchInv, [Next]_vars PROVE SearchInv'
  OBVIOUS
<1>1. InputsKept /\ StreamTracked /\ run \in Nat /\ IsSequence(queue)
  BY DEF SearchInv
<1>2. pc \in {"postprocess", "callback", "queue", "done", "crashed"}
  BY DEF SearchInv
<1>3. ASSUME UNCHANGED <<searchVars, T, state, queue, run>>
      PROVE  InputsKept' /\ StreamTracked' /\ run' \in Nat /\ IsSequence(queue)'
  <2>1. UNCHANGED searchVars /\ UNCHANGED <<searchVars, T, state>> /\ queue' = queue /\ run' = run
    BY <1>3
  <2>2. InputsKept'
    BY <1>1, <2>1, PlacesKept
  <2>3. StreamTracked'
    BY <1>1, <2>1, StreamKept
  <2>4. QED BY <1>1, <2>1, <2>2, <2>3 DEF IsSequence
<1>4. CASE postprocessor
  <2>1. /\ pc = "postprocess"
        /\ UNCHANGED searchVars /\ UNCHANGED <<searchVars, T, state, queue, run>>
        /\ UNCHANGED <<run, T, state, mlist, queue, foundCounter, hits, strays>>
        /\ pc' = IF mode \in {1, 2} /\ \E s \in States(acsm) : \E p \in EntriesOf(s) : ReverseCrashes(p)
                 THEN "crashed" ELSE "callback"
    BY <1>4 DEF postprocessor
  <2>2. /\ T = 0 /\ state = 0 /\ mlist = 1 /\ queue = << >>
        /\ run = 0 /\ foundCounter = 0 /\ hits = {} /\ strays = {}
    BY <2>1 DEF SearchInv
  <2>3. InputsKept' /\ StreamTracked' /\ run' \in Nat /\ IsSequence(queue)'
    BY <1>3, <2>1
  <2>4. CASE pc' = "crashed"
    BY <2>3, <2>4 DEF SearchInv
  <2>5. CASE pc' # "crashed"
    <3>1. pc' = "callback"
      BY <2>1, <2>5
    <3>2. mode \in {1, 2} => \A s \in States(acsm) : \A p \in EntriesOf(s) : ~ReverseCrashes(p)
      BY <2>1, <2>5
    <3>3. foundCounter' = run * RunTotal
      <4>1. RunTotal \in Nat
        BY <1>1, RunTotalType
      <4>2. QED BY <2>1, <2>2, <4>1
    <3>4. CallbackInv'
      BY <1>1, <2>1, <2>2, <3>2, <3>3, SearchBegins
    <3>5. QED BY <2>3, <3>1, <3>4 DEF SearchInv
  <2>6. QED BY <2>4, <2>5
<1>5. CASE \/ fullMatchCharTree \/ fullMatchBitmapTree
           \/ fullMatchTwiceOddEven \/ fullMatchSynthesis
           \/ full_match \/ InlineMatch
           \/ fullMatchUsingLastCharHash \/ LastCharFilterInline \/ fullMatchFilterDigest
  <2>1. pc = "callback"
    BY <1>5 DEF fullMatchCharTree, fullMatchBitmapTree, VisitTree, fullMatchTwiceOddEven,
         fullMatchSynthesis, full_match, InlineMatch, fullMatchUsingLastCharHash,
         LastCharFilterInline, fullMatchFilterDigest, Visit, VisitAll
  <2>2. QED BY <1>5, <2>1, CallbackSteps
<1>6. CASE CallMissing \/ CountIdMissing
  <2>1. UNCHANGED <<searchVars, T, state, queue, run>> /\ pc' = "crashed"
    BY <1>6 DEF CallMissing, CountIdMissing
  <2>2. QED BY <1>3, <2>1 DEF SearchInv
<1>7. CASE LookUpSmall
  <2>1. pc = "callback" /\ pc' = pc /\ run' = run /\ queue' = queue
    BY <1>7 DEF LookUpSmall
  <2>2. CallbackInv
    BY <2>1 DEF SearchInv
  <2>3. InputsKept' /\ StreamTracked' /\ CallbackInv'
    BY <1>1, <1>7, <2>2, SmallKeeps
  <2>4. QED BY <1>1, <2>1, <2>3 DEF SearchInv, IsSequence
<1>8. CASE Advance
  <2>1. pc = "callback" /\ pc' = pc /\ run' = run /\ queue' = queue
    BY <1>8 DEF Advance
  <2>2. CallbackInv
    BY <2>1 DEF SearchInv
  <2>3. InputsKept' /\ StreamTracked' /\ CallbackInv'
    BY <1>1, <1>8, <2>2, AdvanceKeeps
  <2>4. QED BY <1>1, <2>1, <2>3 DEF SearchInv, IsSequence
<1>9. CASE fullMatchToQueue
  <2>1. /\ pc = "callback" /\ pc' = pc /\ run' = run
        /\ UNCHANGED searchVars /\ UNCHANGED <<searchVars, T, state>>
    BY <1>9 DEF fullMatchToQueue
  <2>2. CallbackInv
    BY <2>1 DEF SearchInv
  <2>3. CallbackInv' /\ IsSequence(queue)'
    BY <1>1, <1>9, <2>2, QueuedKeeps
  <2>4. InputsKept' /\ StreamTracked'
    BY <1>1, <2>1, PlacesKept, StreamKept
  <2>5. QED BY <1>1, <2>1, <2>3, <2>4 DEF SearchInv
<1>10. CASE EndOfText
  <2>1. /\ pc = "callback" /\ pc' = (IF mode = 14 THEN "queue" ELSE "done")
        /\ UNCHANGED searchVars /\ UNCHANGED <<searchVars, T, state>> /\ queue' = queue
        /\ run' = IF mode = 14 THEN run ELSE run + 1
    BY <1>10 DEF EndOfText
  <2>2. CallbackInv
    BY <2>1 DEF SearchInv
  <2>3. (mode = 14 => QueueInv') /\ (mode # 14 => DoneInv')
    BY <1>1, <1>10, <2>2, EndKeeps
  <2>4. InputsKept' /\ StreamTracked'
    BY <1>1, <2>1, PlacesKept, StreamKept
  <2>5. run' \in Nat /\ IsSequence(queue)'
    BY <1>1, <2>1 DEF IsSequence
  <2>6. QED BY <2>1, <2>3, <2>4, <2>5 DEF SearchInv
<1>11. CASE CompareQueued
  <2>1. pc = "queue" /\ pc' = pc /\ UNCHANGED <<searchVars, T, state, queue, run>>
    BY <1>11 DEF CompareQueued
  <2>2. QueueInv
    BY <2>1 DEF SearchInv
  <2>3. QueueInv'
    BY <1>1, <1>11, <2>2, CompareKeeps
  <2>4. QED BY <1>3, <2>1, <2>3 DEF SearchInv
<1>12. CASE EmptyQueue
  <2>1. /\ pc = "queue" /\ pc' = "done" /\ run' = run + 1
        /\ UNCHANGED searchVars /\ UNCHANGED <<searchVars, T, state>>
    BY <1>12 DEF EmptyQueue
  <2>2. QueueInv
    BY <2>1 DEF SearchInv
  <2>3. DoneInv' /\ IsSequence(queue)'
    BY <1>1, <1>12, <2>2, EmptyKeeps
  <2>4. InputsKept' /\ StreamTracked'
    BY <1>1, <2>1, PlacesKept, StreamKept
  <2>5. QED BY <1>1, <2>1, <2>3, <2>4 DEF SearchInv
<1>13. CASE NextRun
  <2>1. /\ pc = "done" /\ pc' = "callback" /\ run' = run /\ UNCHANGED searchVars
        /\ T' = 0 /\ state' = 0 /\ mlist' = 1 /\ hits' = {} /\ strays' = {}
        /\ queue' = queue /\ foundCounter' = foundCounter
    BY <1>13 DEF NextRun
  <2>2. DoneInv
    BY <2>1 DEF SearchInv
  <2>3. /\ queue' = << >> /\ foundCounter' = run * RunTotal
        /\ mode \in {1, 2} => \A s \in States(acsm) : \A p \in EntriesOf(s) : ~ReverseCrashes(p)
    BY <2>1, <2>2 DEF DoneInv
  <2>4. StreamTracked' /\ CallbackInv' /\ IsSequence(queue)'
    BY <1>1, <2>1, <2>3, SearchBegins
  <2>5. InputsKept'
    BY <1>1, <2>1, PlacesKept
  <2>6. QED BY <1>1, <2>1, <2>4, <2>5 DEF SearchInv
<1>14. CASE UNCHANGED vars
  <2>1. /\ UNCHANGED <<searchVars, T, state, queue, run>> /\ UNCHANGED <<searchVars, run, pc, T, state, queue>>
        /\ UNCHANGED searchVars
        /\ UNCHANGED <<pc, mlist, foundCounter, hits, strays, T, state, queue, run>>
        /\ acsm' = acsm /\ mode' = mode
    BY <1>14 DEF vars, searchVars
  <2>2. InputsKept' /\ StreamTracked' /\ run' \in Nat /\ IsSequence(queue)'
    BY <1>3, <2>1
  <2>3. /\ MatchList' = MatchList /\ Total' = Total /\ Seen' = Seen
        /\ AllStrays' = AllStrays /\ RunTotal' = RunTotal
    BY <2>1, PlacesKept DEF MatchList
  <2>4. Passed' = Passed
    BY <2>1, <2>3 DEF Passed, HadTurn, TurnOf
  <2>5. \A S : QueueHolds(S)' <=> QueueHolds(S)
    BY <2>1 DEF QueueHolds, QueuePlace
  <2>6. (\A s \in States(acsm) : \A p \in EntriesOf(s) : ~ReverseCrashes(p))'
        <=> \A s \in States(acsm) : \A p \in EntriesOf(s) : ~ReverseCrashes(p)
    BY <2>1 DEF EntriesOf
  <2>7. CASE pc = "postprocess"
    BY <2>1, <2>2, <2>7 DEF SearchInv
  <2>8. CASE pc = "crashed"
    BY <2>1, <2>2, <2>8 DEF SearchInv
  <2>9. CASE pc = "callback"
    <3>1. CallbackInv
      BY <2>9 DEF SearchInv
    <3>2. CallbackInv'
      <4>1. (QueueHolds(Passed))' <=> QueueHolds(Passed)
        BY <2>1, <2>4 DEF QueueHolds, QueuePlace
      <4>2. \A x : TurnOf(x[1], x[2])' = TurnOf(x[1], x[2])
        BY <2>1, PlacesKept
      <4>3. (strays = {x \in AllStrays : StrayHadTurn(x)})'
        BY <2>1, <2>3, <3>1 DEF CallbackInv, StrayHadTurn
      <4>4. QED BY <2>1, <2>3, <2>4, <2>6, <3>1, <4>1, <4>2, <4>3 DEF CallbackInv
    <3>3. QED BY <2>1, <2>9, <3>2, SearchTransition
  <2>10. CASE pc = "queue"
    <3>1. QueueInv
      BY <2>10 DEF SearchInv
    <3>2. QueueInv'
      <4>1. (QueueHolds(Seen))' <=> QueueHolds(Seen)
        BY <2>1, <2>3 DEF QueueHolds, QueuePlace
      <4>2. ({QueuePlace(j) : j \in 1 .. mlist - 1})' = {QueuePlace(j) : j \in 1 .. mlist - 1}
        BY <2>1 DEF QueuePlace
      <4>3. QED BY <2>1, <2>3, <3>1, <4>1, <4>2 DEF QueueInv
    <3>3. QED BY <2>1, <2>2, <2>10, <3>2 DEF SearchInv
  <2>11. CASE pc = "done"
    <3>1. DoneInv
      BY <2>11 DEF SearchInv
    <3>2. DoneInv'
      BY <2>1, <2>3, <2>6, <3>1 DEF DoneInv
    <3>3. QED BY <2>1, <2>2, <2>11, <3>2 DEF SearchInv
  <2>12. QED BY <1>2, <2>7, <2>8, <2>9, <2>10, <2>11
<1>15. CASE Done
  <2>1. UNCHANGED vars
    BY <1>15 DEF Done
  <2>2. QED BY <1>14, <2>1
<1>16. QED BY <1>4, <1>5, <1>6, <1>7, <1>8, <1>9, <1>10, <1>11, <1>12, <1>13, <1>14, <1>15 DEF Next

(* What the searches have found and counted at every moment: the places    *)
(* that had their turn, as far as the comparison accepts them - where mode *)
(* 4 misplaces the mark of a short pattern (aho_corasick.c:2156-2158),     *)
(* what stands two bytes before it -, the halves that mode 4 has counted   *)
(* with no mark (aho_corasick.c:2201, :2213), and as many in every run     *)
(* before.                                                                 *)
THEOREM SearchInvariant == Spec => []SearchInv
  BY SearchInit, SearchStep, PTL DEF Spec

(* Whatever the pattern file, the text and the memory next to it: every    *)
(* run of every one of these searches finds every occurrence, and what     *)
(* else it counts needs the byte in front of the text or bytes behind it   *)
(* (method_odd_even.c:81-93, aho_corasick.c:1743-1764).  The last byte as  *)
(* a filter (method_last_char_hash.c:93), the lists pushed down the tree   *)
(* (method_char_tree.c:205), the lengths counted once for the longest      *)
(* other half (method_synthesis.c:95-107), the marks of the second walk    *)
(* (aho_corasick.c:2182-2213) and the queue lose nothing and add nothing.  *)
(* The exceptions are the patterns of two and three bytes in mode 4, whose *)
(* marks acsmCalePatternDepth (aho_corasick.c:2156-2158) sets two bytes    *)
(* early for the half that does not end the pattern: they may be lost or   *)
(* invented there, and only their halves are counted with no mark.         *)
THEOREM EdgesOnlyInvented == Spec => []OnlyEdgesInvented
<1>1. SearchInv => OnlyEdgesInvented
  <2> SUFFICES ASSUME SearchInv, pc = "done", mode # 12
               PROVE  /\ \A x \in Expected : Misplaced(x) \/ x \in hits
                      /\ \A x \in hits \ Expected : AtEdge(x) \/ Misplaced(x)
                      /\ \A x \in strays : mode = 4 /\ Len(acsm.plist[x[1]].origin) < 4
    BY DEF OnlyEdgesInvented
  <2>1. InputsKept /\ hits = Total /\ strays = AllStrays /\ (mode = 9 => Seen = {})
    BY DEF SearchInv, DoneInv
  <2>2. \A x \in Expected : Misplaced(x) \/ x \in Total
    BY <2>1, ExpectedFound
  <2>3. \A x \in Total \ Expected : AtEdge(x) \/ Misplaced(x)
    BY <2>1, InventedAtEdge
  <2>4. \A x \in AllStrays : mode = 4 /\ Len(acsm.plist[x[1]].origin) < 4
    BY <2>1, StraysShort
  <2>5. QED BY <2>1, <2>2, <2>3, <2>4
<1>2. QED BY <1>1, SearchInvariant, PTL

(* Every run adds as much to foundCounter as every other, and that is the  *)
(* number of sub patterns it found: also where a whole list is added at    *)
(* once (method_synthesis.c:264-289), where the digest decides (mode 12),  *)
(* and where everything is compared from the queue (mode 14).  In mode 4   *)
(* it is that and the number of halves of one byte counted with no mark    *)
(* (aho_corasick.c:2201, :2213).                                           *)
THEOREM RunsCountAlike == Spec => []RunsAgree
<1>1. SearchInv => RunsAgree
  BY DEF SearchInv, DoneInv, RunsAgree, RunTotal
<1>2. QED BY <1>1, SearchInvariant, PTL

=============================================================================
