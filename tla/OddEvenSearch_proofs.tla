----------------------- MODULE OddEvenSearch_proofs -----------------------
(***************************************************************************)
(* Proofs about OddEvenSearch, for every alphabet, every automaton that    *)
(* meets module Automaton, and every text; then, from the same assumptions *)
(* on automata and texts, about RepetitionSearch.                          *)
(***************************************************************************)
EXTENDS OddEvenSearch, RepetitionSearch, SubPattern_proofs, FiniteSetTheorems

-----------------------------------------------------------------------------
(* What the assumptions say of the automaton of the search.                *)

LEMMA AutomatonFacts ==
    ASSUME NEW a \in Automata
    PROVE  /\ a.acsmNumStates \in Nat \ {0}
           /\ a.acsmNextState \in [States(a) -> [Char -> States(a)]]
           /\ a.label \in [States(a) -> Seq(Char)]
           /\ a.acsmMatchList \in [States(a) -> Seq(DOMAIN a.plist)]
           /\ \A e \in DOMAIN a.plist : a.plist[e].patrn \in Seq(Char)
           /\ a.patterns \in Seq(Seq(Char) \ {<< >>})
           /\ a.countOneLen \in BOOLEAN
  BY AutomataAssumption DEF AutomatonTyped

LEMMA OneByteFinite ==
    ASSUME NEW a \in Automata, NEW c \in Char
    PROVE  /\ IsFiniteSet(OneByte(a, c))
           /\ a.oneLenTable[c] = Cardinality(OneByte(a, c))
           /\ a.oneLenTable[c] \in Nat
<1>1. IsFiniteSet(DOMAIN a.patterns)
  <2>1. Len(a.patterns) \in Nat /\ DOMAIN a.patterns = 1 .. Len(a.patterns)
    BY AutomatonFacts
  <2>2. QED BY <2>1, FS_Interval
<1>2. IsFiniteSet(OneByte(a, c))
  BY <1>1, FS_Subset DEF OneByte
<1>3. a.oneLenTable[c] = Cardinality(OneByte(a, c))
  BY AutomataAssumption
<1>4. QED BY <1>2, <1>3, FS_CardinalityType

LEMMA TextFacts ==
    ASSUME NEW t \in Texts
    PROVE  /\ t \in Seq(Char) /\ Len(t) \in Nat
           /\ \A i \in 0 .. Len(t) - 1 : At(t, i) \in Char
<1>1. t \in Seq(Char)
  BY TextsAssumption
<1>2. QED BY <1>1 DEF At

-----------------------------------------------------------------------------
(* Type correctness. *)

LEMMA TypeInit == Init => TypeOK
<1> SUFFICES ASSUME Init PROVE TypeOK
  OBVIOUS
<1>1. 0 \in States(acsm)
  BY AutomatonFacts DEF Init, States
<1>2. QED BY <1>1 DEF Init, TypeOK

LEMMA TypeStep == TypeOK /\ [Next]_vars => TypeOK'
<1> SUFFICES ASSUME TypeOK, [Next]_vars PROVE TypeOK'
  OBVIOUS
<1> USE DEF TypeOK
<1>1. CASE CountOneLen
  <2>1. acsm.oneLenTable[At(text, T)] \in Nat
    BY <1>1, TextFacts, OneByteFinite DEF CountOneLen, Tend
  <2>2. T + 1 < Tend => acsm.oneLenTable[At(text, T + 1)] \in Nat
    BY TextFacts, OneByteFinite DEF Tend
  <2>3. foundCounter' \in Nat
    BY <1>1, <2>1, <2>2 DEF CountOneLen
  <2>4. QED BY <1>1, <2>3 DEF CountOneLen
<1>2. CASE LeaveLoop
  BY <1>2 DEF LeaveLoop
<1>3. CASE FullMatch
  BY <1>3 DEF FullMatch
<1>4. CASE Advance
  <2>1. At(text, T) \in Char
    BY <1>4, TextFacts DEF Advance, Tend
  <2>2. state' \in States(acsm)
    BY <1>4, <2>1, AutomatonFacts DEF Advance
  <2>3. QED BY <1>4, <2>2 DEF Advance
<1>5. CASE Finish
  BY <1>5 DEF Finish
<1>6. CASE UNCHANGED vars
  BY <1>6 DEF vars
<1>7. QED BY <1>1, <1>2, <1>3, <1>4, <1>5, <1>6 DEF Next, Done

(* Every variable keeps its type; in particular the state is always one of *)
(* the automaton, so acsmNextState and acsmMatchList are never read beyond *)
(* acsmNumStates (acsmSearchWithOddEven, aho_corasick.c:1443-1471).        *)
THEOREM TypeCorrect == Spec => []TypeOK
<1>1. QED BY TypeInit, TypeStep, PTL DEF Spec

-----------------------------------------------------------------------------
(* Words the even bytes of the text end with.                              *)

(* The bytes x - 2, x - 4, ... of t, read backwards, end with w. *)
EvenBytesEndWith(t, x, w) ==
    /\ 2 * Len(w) <= x
    /\ \A k \in 1 .. Len(w) : w[k] = At(t, x - 2 - 2 * (Len(w) - k))

LEMMA SuffixOfStream ==
    ASSUME NEW t, NEW x \in Nat, NEW v, Len(v) \in Nat, NEW w, Len(w) \in Nat,
           EvenBytesEndWith(t, x, v), EndsWith(v, w)
    PROVE  EvenBytesEndWith(t, x, w)
<1>1. Len(w) <= Len(v) /\ 2 * Len(v) <= x
  BY DEF EvenBytesEndWith, EndsWith
<1>2. ASSUME NEW k \in 1 .. Len(w)
      PROVE  w[k] = At(t, x - 2 - 2 * (Len(w) - k))
  <2>1. w[k] = v[Len(v) - Len(w) + k]
    BY DEF EndsWith
  <2>2. Len(v) - Len(w) + k \in 1 .. Len(v)
    BY <1>1
  <2>3. v[Len(v) - Len(w) + k] = At(t, x - 2 - 2 * (Len(v) - (Len(v) - Len(w) + k)))
    BY <2>2 DEF EvenBytesEndWith
  <2>4. Len(v) - (Len(v) - Len(w) + k) = Len(w) - k
    OBVIOUS
  <2>5. QED BY <2>1, <2>3, <2>4
<1>3. QED BY <1>1, <1>2 DEF EvenBytesEndWith

LEMMA ShorterIsSuffix ==
    ASSUME NEW t, NEW x \in Nat, NEW v, Len(v) \in Nat, NEW w, Len(w) \in Nat,
           EvenBytesEndWith(t, x, v), EvenBytesEndWith(t, x, w), Len(w) <= Len(v)
    PROVE  EndsWith(v, w)
<1>1. ASSUME NEW k \in 1 .. Len(w)
      PROVE  w[k] = v[Len(v) - Len(w) + k]
  <2>1. w[k] = At(t, x - 2 - 2 * (Len(w) - k))
    BY DEF EvenBytesEndWith
  <2>2. Len(v) - Len(w) + k \in 1 .. Len(v)
    OBVIOUS
  <2>3. v[Len(v) - Len(w) + k] = At(t, x - 2 - 2 * (Len(v) - (Len(v) - Len(w) + k)))
    BY <2>2 DEF EvenBytesEndWith
  <2>4. Len(v) - (Len(v) - Len(w) + k) = Len(w) - k
    OBVIOUS
  <2>5. QED BY <2>1, <2>3, <2>4
<1>2. QED BY <1>1 DEF EndsWith

LEMMA StreamGrows ==
    ASSUME NEW C, NEW t, NEW x \in Nat, NEW w \in Seq(C), EvenBytesEndWith(t, x, w),
           At(t, x) \in C
    PROVE  EvenBytesEndWith(t, x + 2, Append(w, At(t, x)))
<1> DEFINE v == Append(w, At(t, x))
<1>1. Len(w) \in Nat /\ Len(v) = Len(w) + 1 /\ v[Len(v)] = At(t, x)
  OBVIOUS
<1>2. \A k \in 1 .. Len(w) : v[k] = w[k]
  OBVIOUS
<1>3. 2 * Len(v) <= x + 2
  BY <1>1 DEF EvenBytesEndWith
<1>4. ASSUME NEW k \in 1 .. Len(v)
      PROVE  v[k] = At(t, (x + 2) - 2 - 2 * (Len(v) - k))
  <2>1. CASE k = Len(v)
    <3>1. (x + 2) - 2 - 2 * (Len(v) - k) = x
      BY <2>1, <1>1
    <3>2. QED BY <3>1, <2>1, <1>1
  <2>2. CASE k \in 1 .. Len(w)
    <3>1. v[k] = At(t, x - 2 - 2 * (Len(w) - k))
      BY <2>2, <1>2 DEF EvenBytesEndWith
    <3>2. (x + 2) - 2 - 2 * (Len(v) - k) = x - 2 - 2 * (Len(w) - k)
      BY <1>1
    <3>3. QED BY <3>1, <3>2
  <2>3. QED BY <2>1, <2>2, <1>1
<1>5. QED BY <1>3, <1>4 DEF EvenBytesEndWith

LEMMA FrontOfStream ==
    ASSUME NEW t, NEW x \in Nat, NEW w, Len(w) \in Nat, NEW u, Len(u) \in Nat,
           EvenBytesEndWith(t, x + 2, w), IsFrontOf(u, w)
    PROVE  EvenBytesEndWith(t, x, u)
<1>1. Len(u) = Len(w) - 1 /\ 2 * Len(w) <= x + 2
  BY DEF EvenBytesEndWith, IsFrontOf
<1>2. ASSUME NEW k \in 1 .. Len(u)
      PROVE  u[k] = At(t, x - 2 - 2 * (Len(u) - k))
  <2>1. u[k] = w[k] /\ k \in 1 .. Len(w)
    BY <1>1 DEF IsFrontOf
  <2>2. w[k] = At(t, (x + 2) - 2 - 2 * (Len(w) - k))
    BY <2>1 DEF EvenBytesEndWith
  <2>3. (x + 2) - 2 - 2 * (Len(w) - k) = x - 2 - 2 * (Len(u) - k)
    BY <1>1
  <2>4. QED BY <2>1, <2>2, <2>3
<1>3. QED BY <1>1, <1>2 DEF EvenBytesEndWith

(* State s is where the automaton a must be once the even bytes of t below *)
(* x have been read.                                                       *)
Tracks(a, t, x, s) ==
    /\ x % 2 = 0 /\ x <= Len(t) + 1
    /\ EvenBytesEndWith(t, x, a.label[s])
    /\ \A q \in States(a) :
        EvenBytesEndWith(t, x, a.label[q]) => Len(a.label[q]) <= Len(a.label[s])

LEMMA TracksStart ==
    ASSUME NEW a \in Automata, NEW t \in Texts
    PROVE  Tracks(a, t, 0, 0)
<1>1. a.label[0] = << >>
  BY AutomataAssumption DEF AutomatonCorrect, IsTrie
<1>2. \A q \in States(a) : Len(a.label[q]) \in Nat
  BY AutomatonFacts
<1>3. Len(t) \in Nat /\ Len(<< >>) = 0
  BY TextFacts
<1>4. QED BY <1>1, <1>2, <1>3 DEF Tracks, EvenBytesEndWith

(* One transition of the automaton: the longest string of the trie that    *)
(* the stream ends with stays the longest.                                 *)
LEMMA TracksNext ==
    ASSUME NEW a \in Automata, NEW t \in Texts, NEW x \in Nat, x < Len(t),
           NEW s \in States(a), Tracks(a, t, x, s)
    PROVE  Tracks(a, t, x + 2, a.acsmNextState[s][At(t, x)])
<1> DEFINE c == At(t, x)
           next == a.acsmNextState[s][c]
           v == Append(a.label[s], c)
<1>1. c \in Char /\ next \in States(a)
  BY TextFacts, AutomatonFacts
<1>2. \A q \in States(a) : a.label[q] \in Seq(Char) /\ Len(a.label[q]) \in Nat
  BY AutomatonFacts
<1>3. v \in Seq(Char) /\ Len(v) = Len(a.label[s]) + 1 /\ Len(v) \in Nat
  BY <1>1, <1>2
<1>4. EvenBytesEndWith(t, x + 2, v)
  <2>1. EvenBytesEndWith(t, x, a.label[s])
    BY DEF Tracks
  <2>2. QED BY <2>1, <1>1, <1>2, StreamGrows
<1>5. IsLongestSuffix(a.label, next, v)
  BY <1>1, AutomataAssumption DEF AutomatonCorrect
<1>6. DOMAIN a.label = States(a)
  BY AutomatonFacts
<1>7. EvenBytesEndWith(t, x + 2, a.label[next])
  <2>1. EndsWith(v, a.label[next])
    BY <1>5 DEF IsLongestSuffix
  <2>2. QED BY <2>1, <1>1, <1>2, <1>3, <1>4, SuffixOfStream
<1>8. ASSUME NEW q \in States(a), EvenBytesEndWith(t, x + 2, a.label[q])
      PROVE  Len(a.label[q]) <= Len(a.label[next])
  <2>1. CASE a.label[q] = << >>
    BY <2>1, <1>1, <1>2
  <2>2. CASE a.label[q] # << >>
    <3>1. PICK u \in States(a) : IsFrontOf(a.label[u], a.label[q])
      BY <2>2, <1>6, AutomataAssumption DEF AutomatonCorrect, IsTrie
    <3>2. EvenBytesEndWith(t, x, a.label[u])
      BY <3>1, <1>2, <1>8, FrontOfStream
    <3>3. Len(a.label[u]) <= Len(a.label[s])
      BY <3>2 DEF Tracks
    <3>4. Len(a.label[q]) <= Len(v)
      BY <3>1, <3>3, <1>2, <1>3 DEF IsFrontOf
    <3>5. EndsWith(v, a.label[q])
      <4>1. Len(v) \in Nat /\ Len(a.label[q]) \in Nat /\ x + 2 \in Nat
        BY <1>2, <1>3
      <4> HIDE DEF v
      <4>2. QED BY <4>1, <3>4, <1>4, <1>8, ShorterIsSuffix
    <3>6. QED BY <3>5, <1>5, <1>6 DEF IsLongestSuffix
  <2>3. QED BY <2>1, <2>2
<1>9. (x + 2) % 2 = 0 /\ x + 2 <= Len(t) + 1
  <2>1. x % 2 = 0
    BY DEF Tracks
  <2>2. Len(t) \in Nat
    BY TextFacts
  <2>3. QED BY <2>1, <2>2
<1>10. QED BY <1>7, <1>8, <1>9 DEF Tracks

(* The match list of the state the automaton must be in names exactly the  *)
(* sub patterns the stream ends with.                                      *)
LEMMA MatchListTracks ==
    ASSUME NEW a \in Automata, NEW t \in Texts, NEW x \in Nat,
           NEW s \in States(a), Tracks(a, t, x, s), NEW e \in DOMAIN a.plist
    PROVE  (\E j \in 1 .. Len(a.acsmMatchList[s]) : a.acsmMatchList[s][j] = e)
           <=> EvenBytesEndWith(t, x, a.plist[e].patrn)
<1> DEFINE w == a.plist[e].patrn
<1>1. (\E j \in 1 .. Len(a.acsmMatchList[s]) : a.acsmMatchList[s][j] = e)
      <=> EndsWith(a.label[s], w)
  BY AutomataAssumption DEF AutomatonCorrect, ListsSuffixes
<1>2. \A q \in States(a) : Len(a.label[q]) \in Nat
  BY AutomatonFacts
<1>3. Len(w) \in Nat
  BY AutomatonFacts
<1>4. ASSUME EndsWith(a.label[s], w) PROVE EvenBytesEndWith(t, x, w)
  BY <1>2, <1>3, <1>4, SuffixOfStream DEF Tracks
<1>5. ASSUME EvenBytesEndWith(t, x, w) PROVE EndsWith(a.label[s], w)
  <2>1. PICK q \in States(a) : a.label[q] = w
    BY AutomatonFacts, AutomataAssumption DEF AutomatonCorrect, IsTrie
  <2>2. Len(w) <= Len(a.label[s])
    BY <2>1, <1>5 DEF Tracks
  <2>3. QED BY <2>2, <1>2, <1>3, <1>5, ShorterIsSuffix DEF Tracks
<1>6. QED BY <1>1, <1>4, <1>5

-----------------------------------------------------------------------------
(* What an entry of a match list says about occurrences.                   *)

LEMMA EntryFacts ==
    ASSUME NEW a \in Automata, NEW e \in DOMAIN a.plist
    PROVE  /\ a.plist[e].iid \in DOMAIN a.patterns
           /\ a.plist[e].flag \in 0 .. 1
           /\ a.plist[e].origin = a.patterns[a.plist[e].iid]
           /\ a.plist[e].origin \in Seq(Char) /\ Len(a.plist[e].origin) >= 2
           /\ a.plist[e].patrn = Half(a.plist[e].origin, a.plist[e].flag)
           /\ a.plist[e].start = Start(Len(a.plist[e].origin), a.plist[e].flag)
           /\ a.plist[e].indexEnd = IndexEnd(Len(a.plist[e].origin), a.plist[e].flag)
<1>1. /\ a.plist[e].iid \in DOMAIN a.patterns
      /\ Len(a.patterns[a.plist[e].iid]) >= 2
      /\ a.plist[e].flag \in {0, 1}
      /\ a.plist[e] = SubPatternOf(a.patterns[a.plist[e].iid], a.plist[e].iid, a.plist[e].flag)
  BY AutomataAssumption DEF HalvesOf
<1>2. a.plist[e].origin = a.patterns[a.plist[e].iid]
  BY <1>1 DEF SubPatternOf
<1>3. a.patterns[a.plist[e].iid] \in Seq(Char)
  BY <1>1, AutomatonFacts
<1>4. QED BY <1>1, <1>2, <1>3 DEF SubPatternOf

LEMMA HalfTracks ==
    ASSUME NEW p \in Seq(Char), Len(p) >= 2, NEW f \in 0 .. 1, NEW t, NEW x \in Nat
    PROVE  EvenBytesEndWith(t, x, Half(p, f)) <=> HalfEndsAt(p, f, t, x)
<1>1. /\ Len(Half(p, f)) = HalfLength(Len(p), f)
      /\ \A j \in 1 .. HalfLength(Len(p), f) : Half(p, f)[j] = At(p, 2 * j - 2 + f)
  BY HalfType
<1>2. QED BY <1>1 DEF EvenBytesEndWith, HalfEndsAt, HalfStands

(* The second phase decides one occurrence: the one at x - start.          *)
LEMMA EntryDecides ==
    ASSUME NEW a \in Automata, NEW t \in Texts, NEW x \in Nat, NEW s \in States(a),
           Tracks(a, t, x, s), NEW j \in 1 .. Len(a.acsmMatchList[s])
    PROVE  LET p == a.plist[a.acsmMatchList[s][j]]
               o == x - p.start
           IN  /\ RestStands(p.origin, p.flag, t, x) <=> OccursAt(p.origin, t, o)
               /\ o \in Int /\ o % 2 = p.flag /\ DecidedAt(Len(p.origin), o) = x
<1> DEFINE e == a.acsmMatchList[s][j]
           p == a.plist[e]
           o == x - p.start
<1>1. e \in DOMAIN a.plist
  BY AutomatonFacts
<1>2. /\ p.origin \in Seq(Char) /\ Len(p.origin) >= 2 /\ p.flag \in 0 .. 1
      /\ p.patrn = Half(p.origin, p.flag) /\ p.start = Start(Len(p.origin), p.flag)
  BY <1>1, EntryFacts
<1>3. HalfEndsAt(p.origin, p.flag, t, x)
  <2>1. EvenBytesEndWith(t, x, p.patrn)
    BY <1>1, MatchListTracks
  <2>2. QED BY <2>1, <1>2, HalfTracks
<1>4. x % 2 = 0 /\ x <= Len(t) + 1 /\ t \in Seq(Char)
  BY TextFacts DEF Tracks
<1>5. RestStands(p.origin, p.flag, t, x) <=> OccursAt(p.origin, t, o)
  <2> HIDE DEF p
  <2>1. QED BY <1>2, <1>3, <1>4, TwoPhaseMatch
<1>6. o \in Int /\ o % 2 = p.flag /\ DecidedAt(Len(p.origin), o) = x
  <2> HIDE DEF p
  <2>1. Len(p.origin) \in Nat
    BY <1>2
  <2>2. Start(Len(p.origin), p.flag) \in Nat /\ (x - Start(Len(p.origin), p.flag)) % 2 = p.flag
    BY <2>1, <1>2, <1>4, StartParity
  <2>3. o \in Int /\ o % 2 = p.flag /\ o + Start(Len(p.origin), p.flag) = x
    BY <2>2, <1>2
  <2>4. QED BY <2>3 DEF DecidedAt
<1>7. QED BY <1>5, <1>6

(* The match list of s has an entry for half f of pattern id.              *)
Lists(a, s, id, f) ==
    \E j \in 1 .. Len(a.acsmMatchList[s]) :
        /\ a.plist[a.acsmMatchList[s][j]].iid = id
        /\ a.plist[a.acsmMatchList[s][j]].flag = f

(* Every occurrence of a pattern that is halved gets its turn while the    *)
(* text is read, and then an entry of the match list stands for it.        *)
LEMMA OccurrenceDecided ==
    ASSUME NEW a \in Automata, NEW t \in Texts, NEW id \in DOMAIN a.patterns,
           Len(a.patterns[id]) >= 2, NEW o \in Nat, OccursAt(a.patterns[id], t, o)
    PROVE  /\ DecidedAt(Len(a.patterns[id]), o) \in Nat
           /\ DecidedAt(Len(a.patterns[id]), o) % 2 = 0
           /\ DecidedAt(Len(a.patterns[id]), o) <= Len(t) + 1
           /\ \A s \in States(a) :
                Tracks(a, t, DecidedAt(Len(a.patterns[id]), o), s) => Lists(a, s, id, o % 2)
<1> DEFINE p == a.patterns[id]
           x == DecidedAt(Len(p), o)
<1>1. p \in Seq(Char) /\ t \in Seq(Char)
  BY AutomatonFacts, TextFacts
<1>2. /\ o % 2 \in 0 .. 1 /\ x \in Nat /\ x % 2 = 0 /\ x <= Len(t) + 1
      /\ HalfEndsAt(p, o % 2, t, x)
  BY <1>1, OccurrenceSeen DEF DecidedAt
<1>3. ASSUME NEW s \in States(a), Tracks(a, t, x, s)
      PROVE  Lists(a, s, id, o % 2)
  <2>1. PICK e \in DOMAIN a.plist : a.plist[e].iid = id /\ a.plist[e].flag = o % 2
    <3>1. o % 2 \in {0, 1}
      BY <1>2
    <3>2. HalvesOf(a.plist, a.patterns)
      BY AutomataAssumption
    <3>3. \A f \in {0, 1} : \E e \in DOMAIN a.plist : a.plist[e].iid = id /\ a.plist[e].flag = f
      BY <3>2 DEF HalvesOf
    <3>4. QED BY <3>1, <3>3
  <2>2. a.plist[e].patrn = Half(p, o % 2)
    BY <2>1, EntryFacts
  <2>3. EvenBytesEndWith(t, x, a.plist[e].patrn)
    BY <2>2, <1>1, <1>2, HalfTracks
  <2>4. PICK j \in 1 .. Len(a.acsmMatchList[s]) : a.acsmMatchList[s][j] = e
    BY <2>3, <1>2, <1>3, MatchListTracks
  <2>5. QED BY <2>1, <2>4 DEF Lists
<1>4. QED BY <1>2, <1>3

LEMMA EntryUnique ==
    ASSUME NEW a \in Automata, NEW s \in States(a),
           NEW j \in 1 .. Len(a.acsmMatchList[s]), NEW k \in 1 .. Len(a.acsmMatchList[s]),
           a.plist[a.acsmMatchList[s][j]].iid = a.plist[a.acsmMatchList[s][k]].iid,
           a.plist[a.acsmMatchList[s][j]].flag = a.plist[a.acsmMatchList[s][k]].flag
    PROVE  j = k
<1>1. a.acsmMatchList[s][j] \in DOMAIN a.plist /\ a.acsmMatchList[s][k] \in DOMAIN a.plist
  BY AutomatonFacts
<1>2. a.acsmMatchList[s][j] = a.acsmMatchList[s][k]
  <2>1. HalvesOf(a.plist, a.patterns)
    BY AutomataAssumption
  <2>2. \A d, e \in DOMAIN a.plist :
          a.plist[d].iid = a.plist[e].iid /\ a.plist[d].flag = a.plist[e].flag => d = e
    BY <2>1, Zenon DEF HalvesOf
  <2>3. QED BY <1>1, <2>2
<1>3. QED BY <1>2, AutomataAssumption DEF AutomatonCorrect, ListsSuffixes

-----------------------------------------------------------------------------
(* The first phase. *)

LEMMA TracksIsInvariant == StateTracksStream <=> Tracks(acsm, text, T, state)
  BY DEF StateTracksStream, StreamEndsWith, Tracks, EvenBytesEndWith, Tend

LEMMA StreamInit == Init => StateTracksStream
  BY TracksStart, TracksIsInvariant DEF Init

LEMMA StreamStep == TypeOK /\ StateTracksStream /\ [Next]_vars => StateTracksStream'
<1> SUFFICES ASSUME TypeOK, StateTracksStream, [Next]_vars PROVE StateTracksStream'
  OBVIOUS
<1>1. Tracks(acsm, text, T, state)
  BY TracksIsInvariant
<1>2. Tracks(acsm', text', T', state') => StateTracksStream'
  BY DEF StateTracksStream, StreamEndsWith, Tracks, EvenBytesEndWith, Tend
<1>3. CASE Advance
  <2>1. T < Len(text)
    BY <1>3 DEF Advance, Tend
  <2>2. Tracks(acsm, text, T + 2, acsm.acsmNextState[state][At(text, T)])
    BY <1>1, <2>1, TracksNext DEF TypeOK
  <2>3. QED BY <1>2, <1>3, <2>2 DEF Advance
<1>4. CASE UNCHANGED <<acsm, text, T, state>>
  BY <1>1, <1>2, <1>4
<1>5. QED BY <1>3, <1>4
          DEF Next, CountOneLen, LeaveLoop, FullMatch, Finish, Done, vars

-----------------------------------------------------------------------------
(* The occurrences there are. *)

LEMMA ExpectedElement ==
    ASSUME acsm \in Automata, text \in Texts, NEW x \in Expected
    PROVE  /\ x[1] \in DOMAIN acsm.patterns /\ x[2] \in Nat /\ x = <<x[1], x[2]>>
           /\ OccursAt(acsm.patterns[x[1]], text, x[2])
           /\ Len(acsm.patterns[x[1]]) \in Nat
           /\ \/ Len(acsm.patterns[x[1]]) >= 2
              \/ /\ Len(acsm.patterns[x[1]]) = 1
                 /\ x[2] < Tend /\ x[1] \in OneByte(acsm, At(text, x[2]))
<1> DEFINE p == acsm.patterns[x[1]]
<1>1. /\ x[1] \in DOMAIN acsm.patterns /\ x[2] \in 0 .. Len(text) /\ x = <<x[1], x[2]>>
      /\ OccursAt(p, text, x[2]) /\ Len(p) >= IF acsm.countOneLen THEN 1 ELSE 2
  BY DEF Expected, Occurrences
<1>2. p \in Seq(Char) /\ p # << >>
  BY <1>1, AutomatonFacts DEF TypeOK
<1>3. Len(p) \in Nat \ {0}
  BY <1>2
<1>4. Len(text) \in Nat
  BY TextFacts DEF TypeOK
<1>5. ASSUME Len(p) = 1
      PROVE  x[2] < Tend /\ x[1] \in OneByte(acsm, At(text, x[2]))
  <2>1. x[2] + 1 <= Len(text) /\ At(p, 0) = At(text, x[2] + 0)
    BY <1>5, <1>1 DEF OccursAt
  <2>2. At(text, x[2] + 0) = At(text, x[2])
    BY <1>1
  <2>3. p = << At(p, 0) >>
    BY <1>2, <1>5 DEF At
  <2>4. acsm.countOneLen
    BY <1>1, <1>5
  <2>5. x[1] \in OneByte(acsm, At(text, x[2]))
    BY <1>1, <2>1, <2>2, <2>3, <2>4 DEF OneByte
  <2>6. QED BY <2>1, <2>5, <1>1, <1>4 DEF Tend
<1>6. Len(p) = 1 \/ Len(p) >= 2
  <2>1. \A n \in Nat \ {0} : n = 1 \/ n >= 2
    OBVIOUS
  <2>2. QED BY <2>1, <1>3
<1>7. QED BY <1>1, <1>3, <1>4, <1>5, <1>6

LEMMA ExpectedPair ==
    ASSUME acsm \in Automata, text \in Texts, NEW id \in DOMAIN acsm.patterns, Len(acsm.patterns[id]) >= 2,
           NEW o \in Int, OccursAt(acsm.patterns[id], text, o)
    PROVE  <<id, o>> \in Expected
<1>1. acsm.patterns[id] \in Seq(Char)
  BY AutomatonFacts DEF TypeOK
<1>2. Len(acsm.patterns[id]) \in Nat /\ Len(text) \in Nat
  BY <1>1, TextFacts DEF TypeOK
<1>3. o \in 0 .. Len(text)
  BY <1>2 DEF OccursAt
<1>4. Len(acsm.patterns[id]) >= IF acsm.countOneLen THEN 1 ELSE 2
  BY <1>2
<1>5. QED BY <1>3, <1>4 DEF Expected, Occurrences

LEMMA OneBytePair ==
    ASSUME acsm \in Automata, text \in Texts, NEW o \in Nat, o < Tend, NEW id \in OneByte(acsm, At(text, o))
    PROVE  /\ <<id, o>> \in Expected
           /\ id \in DOMAIN acsm.patterns /\ Len(acsm.patterns[id]) = 1
<1>1. /\ id \in DOMAIN acsm.patterns /\ acsm.countOneLen
      /\ acsm.patterns[id] = << At(text, o) >>
  BY DEF OneByte
<1>2. Len(acsm.patterns[id]) = 1 /\ At(acsm.patterns[id], 0) = At(text, o + 0)
  BY <1>1 DEF At
<1>3. Len(text) \in Nat
  BY TextFacts DEF TypeOK
<1>4. o \in 0 .. Len(text) /\ o + 1 <= Len(text)
  BY <1>3 DEF Tend
<1>5. OccursAt(acsm.patterns[id], text, o)
  BY <1>2, <1>4 DEF OccursAt
<1>6. Len(acsm.patterns[id]) >= IF acsm.countOneLen THEN 1 ELSE 2
  BY <1>1, <1>2
<1>7. <<id, o>> \in Expected
  BY <1>1, <1>4, <1>5, <1>6 DEF Expected, Occurrences
<1>8. QED BY <1>1, <1>2, <1>7

LEMMA ExpectedFinite ==
    ASSUME acsm \in Automata, text \in Texts
    PROVE  IsFiniteSet(Expected)
<1>1. IsFiniteSet(DOMAIN acsm.patterns)
  <2>1. /\ Len(acsm.patterns) \in Nat
        /\ DOMAIN acsm.patterns = 1 .. Len(acsm.patterns)
    BY AutomatonFacts DEF TypeOK
  <2>2. QED BY <2>1, FS_Interval
<1>2. IsFiniteSet(0 .. Len(text))
  BY TextFacts, FS_Interval DEF TypeOK
<1>3. IsFiniteSet((DOMAIN acsm.patterns) \X (0 .. Len(text)))
  BY <1>1, <1>2, FS_Product
<1>4. Expected \in SUBSET ((DOMAIN acsm.patterns) \X (0 .. Len(text)))
  BY DEF Expected, Occurrences
<1>5. QED BY <1>3, <1>4, FS_Subset

-----------------------------------------------------------------------------
(* Both phases together. *)

(* The search ends past the end of the text. *)
EndReached == pc = "done" => T >= Tend

SearchInv ==
    /\ TypeOK
    /\ StateTracksStream
    /\ HitsAreSettledOccurrences
    /\ CountedOnce
    /\ EndReached

LEMMA EndStep == TypeOK /\ EndReached /\ [Next]_vars => EndReached'
  BY DEF EndReached, Next, CountOneLen, LeaveLoop, FullMatch, Advance, Finish,
         Done, vars, Tend

(* The occurrences one pass of the loop counts by the table. *)
OneLenHits ==
    {x \in (DOMAIN acsm.patterns) \X {t \in {T, T + 1} : t < Tend} :
        x[1] \in OneByte(acsm, At(text, x[2]))}

LEMMA OneLenHitsExpected ==
    ASSUME acsm \in Automata, text \in Texts, T \in Nat
    PROVE  OneLenHits = {x \in Expected :
                            Len(acsm.patterns[x[1]]) = 1 /\ x[2] \in {T, T + 1}}
<1>1. ASSUME NEW x \in OneLenHits
      PROVE  x \in Expected /\ Len(acsm.patterns[x[1]]) = 1 /\ x[2] \in {T, T + 1}
  <2>1. /\ x = <<x[1], x[2]>> /\ x[2] \in {T, T + 1} /\ x[2] < Tend
        /\ x[1] \in OneByte(acsm, At(text, x[2]))
    BY DEF OneLenHits
  <2>2. x[2] \in Nat
    BY <2>1 DEF TypeOK
  <2>3. QED BY <2>1, <2>2, OneBytePair
<1>2. ASSUME NEW x \in Expected, Len(acsm.patterns[x[1]]) = 1, x[2] \in {T, T + 1}
      PROVE  x \in OneLenHits
  <2>1. x[1] \in DOMAIN acsm.patterns /\ x = <<x[1], x[2]>>
    BY <1>2, ExpectedElement
  <2>2. Len(acsm.patterns[x[1]]) = 1
    BY <1>2
  <2>3. ~ Len(acsm.patterns[x[1]]) >= 2
    BY <2>2
  <2>4. x[2] < Tend
    BY <2>3, ExpectedElement
  <2>5. x[1] \in OneByte(acsm, At(text, x[2]))
    BY <2>3, ExpectedElement
  <2>6. QED BY <2>1, <2>4, <2>5, <1>2 DEF OneLenHits
<1>3. QED BY <1>1, <1>2

LEMMA HitsCountOneLen ==
    ASSUME TypeOK, HitsAreSettledOccurrences, CountOneLen
    PROVE  HitsAreSettledOccurrences'
<1>1. Expected' = Expected /\ acsm' = acsm
  BY DEF CountOneLen, Expected
<1>2. hits' = hits \cup OneLenHits
  BY DEF CountOneLen, OneLenHits
<1>3. ASSUME NEW x \in Expected
      PROVE  Settled(x)' <=> \/ Settled(x)
                             \/ Len(acsm.patterns[x[1]]) = 1 /\ x[2] \in {T, T + 1}
  <2>1. x[2] \in Nat /\ T \in Nat
    BY ExpectedElement DEF TypeOK
  <2>2. pc = "loop" /\ pc' = "callback" /\ T' = T /\ mlist' = 1
    BY DEF CountOneLen
  <2>3. CASE Len(acsm.patterns[x[1]]) = 1
    BY <1>1, <2>1, <2>2, <2>3 DEF Settled
  <2>4. CASE Len(acsm.patterns[x[1]]) # 1
    BY <1>1, <2>2, <2>4 DEF Settled
  <2>5. QED BY <2>3, <2>4
<1>4. QED BY <1>1, <1>2, <1>3, OneLenHitsExpected DEF HitsAreSettledOccurrences, TypeOK

LEMMA HitsLeaveLoop ==
    ASSUME TypeOK, HitsAreSettledOccurrences, LeaveLoop
    PROVE  HitsAreSettledOccurrences'
<1>1. Expected' = Expected /\ acsm' = acsm /\ hits' = hits
  BY DEF LeaveLoop, Expected
<1>2. ASSUME NEW x \in Expected
      PROVE  Settled(x)' <=> Settled(x)
  <2>1. x[2] \in Nat /\ T \in Nat /\ Tend \in Nat
    BY ExpectedElement, TextFacts DEF TypeOK, Tend
  <2>2. pc = "loop" /\ pc' = "callback" /\ T' = T /\ mlist' = 1 /\ T >= Tend
    BY DEF LeaveLoop
  <2>3. CASE Len(acsm.patterns[x[1]]) = 1
    <3>1. ~ Len(acsm.patterns[x[1]]) >= 2
      BY <2>3
    <3>2. x[2] < Tend
      BY <3>1, ExpectedElement DEF TypeOK
    <3>3. QED BY <1>1, <2>1, <2>2, <2>3, <3>2 DEF Settled
  <2>4. CASE Len(acsm.patterns[x[1]]) # 1
    BY <1>1, <2>2, <2>4 DEF Settled
  <2>5. QED BY <2>3, <2>4
<1>3. QED BY <1>1, <1>2 DEF HitsAreSettledOccurrences

(* Once the whole match list has been visited, every occurrence decided at *)
(* T or before is settled.                                                 *)
LEMMA VisitedIsSettled ==
    ASSUME TypeOK, StateTracksStream, pc = "callback", mlist > Len(MatchList),
           NEW x \in Expected, Len(acsm.patterns[x[1]]) # 1
    PROVE  /\ DecidedAt(Len(acsm.patterns[x[1]]), x[2]) \in Nat
           /\ DecidedAt(Len(acsm.patterns[x[1]]), x[2]) % 2 = 0
           /\ Settled(x) <=> DecidedAt(Len(acsm.patterns[x[1]]), x[2]) <= T
<1> DEFINE d == DecidedAt(Len(acsm.patterns[x[1]]), x[2])
<1>1. /\ x[1] \in DOMAIN acsm.patterns /\ x[2] \in Nat
      /\ OccursAt(acsm.patterns[x[1]], text, x[2])
      /\ Len(acsm.patterns[x[1]]) >= 2
  BY ExpectedElement DEF TypeOK
<1>2. /\ d \in Nat /\ d % 2 = 0
      /\ d = T => Lists(acsm, state, x[1], x[2] % 2)
  <2>1. acsm \in Automata /\ text \in Texts /\ state \in States(acsm)
    BY DEF TypeOK
  <2>2. Tracks(acsm, text, T, state)
    BY TracksIsInvariant
  <2>3. /\ d \in Nat /\ d % 2 = 0
        /\ \A s \in States(acsm) :
            Tracks(acsm, text, d, s) => Lists(acsm, s, x[1], x[2] % 2)
    BY <1>1, <2>1, OccurrenceDecided
  <2> HIDE DEF d
  <2>4. QED BY <2>1, <2>2, <2>3
<1>3. Len(MatchList) \in Nat
  BY AutomatonFacts DEF MatchList, TypeOK
<1>4. \A j \in 1 .. Len(MatchList) : j < mlist
  BY <1>3 DEF TypeOK
<1>5. T \in Nat
  BY DEF TypeOK
<1>6. QED BY <1>2, <1>4, <1>5 DEF Settled, Lists, MatchList

LEMMA HitsAdvance ==
    ASSUME TypeOK, StateTracksStream, HitsAreSettledOccurrences, Advance
    PROVE  HitsAreSettledOccurrences'
<1>1. Expected' = Expected /\ acsm' = acsm /\ hits' = hits
  BY DEF Advance, Expected
<1>2. ASSUME NEW x \in Expected
      PROVE  Settled(x)' <=> Settled(x)
  <2>1. x[2] \in Nat /\ T \in Nat /\ T % 2 = 0
    BY ExpectedElement DEF TypeOK, StateTracksStream
  <2>2. pc = "callback" /\ pc' = "loop" /\ T' = T + 2 /\ mlist > Len(MatchList)
    BY DEF Advance
  <2>3. CASE Len(acsm.patterns[x[1]]) = 1
    BY <1>1, <2>1, <2>2, <2>3 DEF Settled
  <2>4. CASE Len(acsm.patterns[x[1]]) # 1
    <3> DEFINE d == DecidedAt(Len(acsm.patterns[x[1]]), x[2])
    <3>1. d \in Nat /\ d % 2 = 0 /\ (Settled(x) <=> d <= T)
      BY <2>2, <2>4, VisitedIsSettled
    <3>2. Settled(x)' <=> d < T + 2
      BY <1>1, <2>2, <2>4 DEF Settled
    <3> HIDE DEF d
    <3>3. d < T + 2 <=> d <= T
      BY <3>1, <2>1
    <3>4. QED BY <3>1, <3>2, <3>3
  <2>5. QED BY <2>3, <2>4
<1>3. QED BY <1>1, <1>2 DEF HitsAreSettledOccurrences

LEMMA HitsFinish ==
    ASSUME TypeOK, StateTracksStream, HitsAreSettledOccurrences, Finish
    PROVE  HitsAreSettledOccurrences'
<1>1. Expected' = Expected /\ acsm' = acsm /\ hits' = hits
  BY DEF Finish, Expected
<1>2. ASSUME NEW x \in Expected
      PROVE  Settled(x)' <=> Settled(x)
  <2>1. x[2] \in Nat /\ T \in Nat
    BY ExpectedElement DEF TypeOK, StateTracksStream
  <2>2. pc = "callback" /\ pc' = "done" /\ T' = T /\ mlist > Len(MatchList)
    BY DEF Finish
  <2>3. CASE Len(acsm.patterns[x[1]]) = 1
    BY <1>1, <2>1, <2>2, <2>3 DEF Settled
  <2>4. CASE Len(acsm.patterns[x[1]]) # 1
    <3> DEFINE d == DecidedAt(Len(acsm.patterns[x[1]]), x[2])
    <3>1. d \in Nat /\ (Settled(x) <=> d <= T)
      BY <2>2, <2>4, VisitedIsSettled
    <3>2. Settled(x)' <=> (d < T \/ d = T)
      BY <1>1, <2>2, <2>4 DEF Settled
    <3> HIDE DEF d
    <3>3. QED BY <3>1, <3>2, <2>1
  <2>5. QED BY <2>3, <2>4
<1>3. QED BY <1>1, <1>2 DEF HitsAreSettledOccurrences

(* The occurrence entry j of the match list decides.                       *)
EntryAt(j) == acsm.plist[MatchList[j]]

PlaceOf(j) == <<EntryAt(j).iid, T - EntryAt(j).start>>

LEMMA EntryPlace ==
    ASSUME acsm \in Automata, text \in Texts, T \in Nat, state \in States(acsm),
           Tracks(acsm, text, T, state), NEW j \in 1 .. Len(MatchList)
    PROVE  /\ EntryAt(j).iid \in DOMAIN acsm.patterns /\ EntryAt(j).flag \in 0 .. 1
           /\ Len(acsm.patterns[EntryAt(j).iid]) >= 2
           /\ EntryAt(j).start = Start(Len(acsm.patterns[EntryAt(j).iid]), EntryAt(j).flag)
           /\ EntryAt(j).start \in Nat
           /\ T - EntryAt(j).start \in Int /\ (T - EntryAt(j).start) % 2 = EntryAt(j).flag
           /\ DecidedAt(Len(acsm.patterns[EntryAt(j).iid]), T - EntryAt(j).start) = T
           /\ RestMatches(EntryAt(j)) <=> PlaceOf(j) \in Expected
<1> DEFINE p == EntryAt(j)
<1>1. j \in 1 .. Len(acsm.acsmMatchList[state])
  BY DEF MatchList
<1>2. MatchList[j] \in DOMAIN acsm.plist
  BY <1>1, AutomatonFacts DEF MatchList
<1>3. /\ p.iid \in DOMAIN acsm.patterns /\ p.flag \in 0 .. 1
      /\ p.origin = acsm.patterns[p.iid]
      /\ p.origin \in Seq(Char) /\ Len(p.origin) >= 2
      /\ p.start = Start(Len(p.origin), p.flag)
      /\ p.indexEnd = IndexEnd(Len(p.origin), p.flag)
  BY <1>2, EntryFacts DEF EntryAt
<1>4. /\ RestStands(p.origin, p.flag, text, T) <=> OccursAt(p.origin, text, T - p.start)
      /\ T - p.start \in Int /\ (T - p.start) % 2 = p.flag
      /\ DecidedAt(Len(p.origin), T - p.start) = T
  BY <1>1, EntryDecides DEF EntryAt, MatchList
<1> HIDE DEF p
<1>5. RestMatches(p) <=> RestStands(p.origin, p.flag, text, T)
  BY <1>3 DEF RestMatches, RestStands, OtherHalfStands, Tend
<1>6. OccursAt(p.origin, text, T - p.start) => <<p.iid, T - p.start>> \in Expected
  BY <1>3, <1>4, ExpectedPair
<1>7. <<p.iid, T - p.start>> \in Expected => OccursAt(p.origin, text, T - p.start)
  BY <1>3, ExpectedElement
<1>8. p.start \in Nat
  <2>1. Len(p.origin) \in Nat
    BY <1>3
  <2>2. QED BY <2>1, <1>3, StartType
<1>9. RestMatches(p) <=> PlaceOf(j) \in Expected
  BY <1>4, <1>5, <1>6, <1>7 DEF p, PlaceOf
<1>10. QED BY <1>3, <1>4, <1>8, <1>9 DEF p

(* The entry FullMatch looks at.                                           *)
Entry == acsm.plist[MatchList[mlist]]

Decides == <<Entry.iid, T - Entry.start>>

LEMMA EntryOccurrence ==
    ASSUME TypeOK, StateTracksStream, mlist <= Len(MatchList)
    PROVE  /\ Entry.iid \in DOMAIN acsm.patterns /\ Entry.flag \in 0 .. 1
           /\ Len(acsm.patterns[Entry.iid]) >= 2
           /\ Entry.start = Start(Len(acsm.patterns[Entry.iid]), Entry.flag)
           /\ Entry.start \in Nat
           /\ T - Entry.start \in Int /\ (T - Entry.start) % 2 = Entry.flag
           /\ DecidedAt(Len(acsm.patterns[Entry.iid]), T - Entry.start) = T
           /\ RestMatches(Entry) <=> Decides \in Expected
<1>1. /\ acsm \in Automata /\ text \in Texts /\ T \in Nat /\ state \in States(acsm)
  BY DEF TypeOK
<1>2. mlist \in 1 .. Len(MatchList)
  BY <1>1, AutomatonFacts DEF TypeOK, MatchList
<1>3. Tracks(acsm, text, T, state)
  BY TracksIsInvariant
<1>4. Entry = EntryAt(mlist) /\ Decides = PlaceOf(mlist)
  BY DEF Entry, EntryAt, Decides, PlaceOf
<1>5. QED BY <1>1, <1>2, <1>3, <1>4, EntryPlace

LEMMA FullMatchSettles ==
    ASSUME TypeOK, StateTracksStream, FullMatch, NEW x \in Expected
    PROVE  Settled(x)' <=> Settled(x) \/ x = Decides
<1>1. /\ acsm' = acsm /\ text' = text /\ T' = T /\ state' = state
      /\ pc = "callback" /\ pc' = "callback"
      /\ mlist <= Len(MatchList) /\ mlist' = mlist + 1
  BY DEF FullMatch
<1>2. /\ x[1] \in DOMAIN acsm.patterns /\ x[2] \in Nat /\ x = <<x[1], x[2]>>
  BY ExpectedElement DEF TypeOK
<1>3. CASE Len(acsm.patterns[x[1]]) = 1
  <2>1. Settled(x)' <=> Settled(x)
    BY <1>1, <1>3 DEF Settled
  <2>2. x # Decides
    <3>1. ~ Len(acsm.patterns[x[1]]) >= 2
      BY <1>3
    <3>2. QED BY <3>1, <1>1, EntryOccurrence DEF Decides
  <2>3. QED BY <2>1, <2>2
<1>4. CASE Len(acsm.patterns[x[1]]) # 1
  <2> DEFINE d == DecidedAt(Len(acsm.patterns[x[1]]), x[2])
             before(k) == \E j \in 1 .. Len(MatchList) :
                            /\ j < k
                            /\ acsm.plist[MatchList[j]].iid = x[1]
                            /\ acsm.plist[MatchList[j]].flag = x[2] % 2
  <2>1. Settled(x) <=> d < T \/ (d = T /\ before(mlist))
    BY <1>1, <1>4 DEF Settled
  <2>2. Settled(x)' <=> d < T \/ (d = T /\ before(mlist + 1))
    BY <1>1, <1>4 DEF Settled, MatchList
  <2>3. before(mlist + 1) <=> before(mlist) \/ (Entry.iid = x[1] /\ Entry.flag = x[2] % 2)
    <3>1. mlist \in 1 .. Len(MatchList) /\ Len(MatchList) \in Nat
      BY <1>1, AutomatonFacts DEF TypeOK, MatchList
    <3>2. \A j \in 1 .. Len(MatchList) : j < mlist + 1 <=> j < mlist \/ j = mlist
      BY <3>1
    <3>3. QED BY <3>1, <3>2 DEF Entry
  <2>4. x = Decides => d = T /\ Entry.iid = x[1] /\ Entry.flag = x[2] % 2
    BY <1>1, EntryOccurrence DEF Decides
  <2>5. ASSUME d = T, Entry.iid = x[1], Entry.flag = x[2] % 2
        PROVE  x = Decides
    <3>1. x[2] + Entry.start = T /\ Entry.start \in Nat
      BY <2>5, <1>1, EntryOccurrence DEF DecidedAt
    <3>2. x[2] = T - Entry.start
      BY <3>1, <1>2
    <3>3. QED BY <3>2, <1>2, <2>5 DEF Decides
  <2> HIDE DEF d, before
  <2>6. QED BY <2>1, <2>2, <2>3, <2>4, <2>5
<1>5. QED BY <1>3, <1>4

LEMMA HitsFullMatch ==
    ASSUME TypeOK, StateTracksStream, HitsAreSettledOccurrences, FullMatch
    PROVE  HitsAreSettledOccurrences'
<1>1. Expected' = Expected /\ mlist <= Len(MatchList)
  BY DEF FullMatch, Expected
<1>2. hits' = IF Decides \in Expected THEN hits \cup {Decides} ELSE hits
  BY <1>1, EntryOccurrence DEF FullMatch, Entry, Decides
<1>3. \A x \in Expected : Settled(x)' <=> Settled(x) \/ x = Decides
  BY FullMatchSettles
<1>4. QED BY <1>1, <1>2, <1>3 DEF HitsAreSettledOccurrences

(* An entry never reports what has been reported before. *)
LEMMA DecidesNew ==
    ASSUME TypeOK, StateTracksStream, HitsAreSettledOccurrences, FullMatch
    PROVE  Decides \notin hits
<1>1. pc = "callback" /\ mlist <= Len(MatchList)
  BY DEF FullMatch
<1>2. /\ Decides[1] = Entry.iid /\ Decides[2] = T - Entry.start
      /\ Len(acsm.patterns[Entry.iid]) >= 2
      /\ (T - Entry.start) % 2 = Entry.flag
      /\ DecidedAt(Len(acsm.patterns[Entry.iid]), T - Entry.start) = T
  BY <1>1, EntryOccurrence DEF Decides
<1>3. SUFFICES ASSUME Settled(Decides) PROVE FALSE
  BY DEF HitsAreSettledOccurrences
<1>4. Len(acsm.patterns[Entry.iid]) # 1 /\ ~ (T < T)
  <2>1. Len(acsm.patterns[Entry.iid]) # 1
    <3>1. Len(acsm.patterns[Entry.iid]) >= 2
      BY <1>2
    <3>2. ~ (1 >= 2)
      OBVIOUS
    <3>3. QED BY <3>1, <3>2, Zenon
  <2>2. ~ (T < T)
    BY DEF TypeOK
  <2>3. QED BY <2>1, <2>2
<1>5. PICK j \in 1 .. Len(MatchList) :
        /\ j < mlist
        /\ acsm.plist[MatchList[j]].iid = Entry.iid
        /\ acsm.plist[MatchList[j]].flag = Entry.flag
  BY <1>1, <1>2, <1>3, <1>4 DEF Settled
<1>6. /\ acsm \in Automata /\ state \in States(acsm)
      /\ mlist \in 1 .. Len(acsm.acsmMatchList[state])
      /\ j \in 1 .. Len(acsm.acsmMatchList[state])
  BY <1>1, AutomatonFacts DEF TypeOK, MatchList
<1>7. j = mlist
  BY <1>5, <1>6, EntryUnique DEF Entry, MatchList
<1>8. QED BY <1>5, <1>7 DEF TypeOK

-----------------------------------------------------------------------------
(* The counter. *)

LEMMA TimesPoint ==
    ASSUME NEW S, IsFiniteSet(S), NEW t
    PROVE  IsFiniteSet(S \X {t}) /\ Cardinality(S \X {t}) = Cardinality(S)
<1>1. IsFiniteSet({t}) /\ Cardinality({t}) = 1
  BY FS_Singleton
<1>2. /\ IsFiniteSet(S \X {t})
      /\ Cardinality(S \X {t}) = Cardinality(S) * Cardinality({t})
  BY <1>1, FS_Product
<1>3. Cardinality(S) \in Nat
  BY FS_CardinalityType
<1>4. QED BY <1>1, <1>2, <1>3

LEMMA DisjointUnion ==
    ASSUME NEW S, IsFiniteSet(S), NEW U, IsFiniteSet(U), S \cap U = {}
    PROVE  /\ IsFiniteSet(S \cup U)
           /\ Cardinality(S \cup U) = Cardinality(S) + Cardinality(U)
<1>1. /\ IsFiniteSet(S \cup U)
      /\ Cardinality(S \cup U) = Cardinality(S) + Cardinality(U) - Cardinality(S \cap U)
  BY FS_Union
<1>2. Cardinality(S \cap U) = 0
  BY FS_EmptySet
<1>3. Cardinality(S) \in Nat /\ Cardinality(U) \in Nat
  BY FS_CardinalityType
<1>4. QED BY <1>1, <1>2, <1>3

(* The table counts, for two bytes at a time, as many as there are to report. *)
LEMMA OneLenHitsSize ==
    ASSUME acsm \in Automata, text \in Texts, T \in Nat, T < Tend
    PROVE  /\ IsFiniteSet(OneLenHits) /\ Cardinality(OneLenHits) \in Nat
           /\ acsm.oneLenTable[At(text, T)] \in Nat
           /\ T + 1 < Tend => acsm.oneLenTable[At(text, T + 1)] \in Nat
           /\ Cardinality(OneLenHits)
                 = acsm.oneLenTable[At(text, T)]
                   + IF T + 1 < Tend THEN acsm.oneLenTable[At(text, T + 1)] ELSE 0
<1> DEFINE A == OneByte(acsm, At(text, T)) \X {T}
           B == OneByte(acsm, At(text, T + 1)) \X {T + 1}
<1>1. /\ IsFiniteSet(A) /\ Cardinality(A) = acsm.oneLenTable[At(text, T)]
      /\ acsm.oneLenTable[At(text, T)] \in Nat
  <2>1. At(text, T) \in Char
    BY TextFacts DEF Tend
  <2>2. /\ IsFiniteSet(OneByte(acsm, At(text, T)))
        /\ acsm.oneLenTable[At(text, T)] = Cardinality(OneByte(acsm, At(text, T)))
        /\ acsm.oneLenTable[At(text, T)] \in Nat
    BY <2>1, OneByteFinite
  <2>3. IsFiniteSet(A) /\ Cardinality(A) = Cardinality(OneByte(acsm, At(text, T)))
    BY <2>2, TimesPoint
  <2>4. QED BY <2>2, <2>3
<1>2. CASE T + 1 < Tend
  <2>1. /\ IsFiniteSet(B) /\ Cardinality(B) = acsm.oneLenTable[At(text, T + 1)]
        /\ acsm.oneLenTable[At(text, T + 1)] \in Nat
    <3>1. At(text, T + 1) \in Char
      BY <1>2, TextFacts DEF Tend
    <3>2. /\ IsFiniteSet(OneByte(acsm, At(text, T + 1)))
          /\ acsm.oneLenTable[At(text, T + 1)] = Cardinality(OneByte(acsm, At(text, T + 1)))
          /\ acsm.oneLenTable[At(text, T + 1)] \in Nat
      BY <3>1, OneByteFinite
    <3>3. IsFiniteSet(B) /\ Cardinality(B) = Cardinality(OneByte(acsm, At(text, T + 1)))
      BY <3>2, TimesPoint
    <3>4. QED BY <3>2, <3>3
  <2>2. OneLenHits = A \cup B
    BY <1>2 DEF OneLenHits, OneByte
  <2>3. A \cap B = {}
    <3>1. T # T + 1
      OBVIOUS
    <3>2. QED BY <3>1
  <2> HIDE DEF A, B
  <2>4. /\ IsFiniteSet(A \cup B)
        /\ Cardinality(A \cup B) = Cardinality(A) + Cardinality(B)
    BY <1>1, <2>1, <2>3, DisjointUnion
  <2>5. QED BY <1>1, <1>2, <2>1, <2>2, <2>4
<1>3. CASE ~ (T + 1 < Tend)
  <2>1. OneLenHits = A
    BY <1>3 DEF OneLenHits, OneByte
  <2> HIDE DEF A, B
  <2>2. QED BY <1>1, <1>3, <2>1
<1>4. QED BY <1>2, <1>3

LEMMA OneLenHitsCounted ==
    ASSUME TypeOK, CountOneLen
    PROVE  IsFiniteSet(OneLenHits) /\ foundCounter' = foundCounter + Cardinality(OneLenHits)
<1>1. T < Tend /\ T \in Nat /\ acsm \in Automata /\ text \in Texts /\ foundCounter \in Nat
  BY DEF CountOneLen, TypeOK
<1>2. foundCounter' = foundCounter + acsm.oneLenTable[At(text, T)]
                      + IF T + 1 < Tend THEN acsm.oneLenTable[At(text, T + 1)] ELSE 0
  BY DEF CountOneLen
<1>3. QED BY <1>1, <1>2, OneLenHitsSize

LEMMA CountStep ==
    ASSUME TypeOK, StateTracksStream, HitsAreSettledOccurrences, CountedOnce, [Next]_vars
    PROVE  CountedOnce'
<1>1. CASE CountOneLen
  <2>1. hits' = hits \cup OneLenHits
    BY <1>1 DEF CountOneLen, OneLenHits
  <2>2. hits \cap OneLenHits = {}
    <3>1. ASSUME NEW x \in hits, x \in OneLenHits PROVE FALSE
      <4>1. x \in Expected /\ Settled(x)
        BY DEF HitsAreSettledOccurrences
      <4>2. Len(acsm.patterns[x[1]]) = 1 /\ x[2] \in {T, T + 1}
        BY <3>1, OneLenHitsExpected DEF TypeOK
      <4>3. pc = "loop"
        BY <1>1 DEF CountOneLen
      <4>4. x[2] < T
        BY <4>1, <4>2, <4>3 DEF Settled
      <4>5. QED BY <4>2, <4>4 DEF TypeOK
    <3>2. QED BY <3>1
  <2>3. IsFiniteSet(OneLenHits) /\ foundCounter' = foundCounter + Cardinality(OneLenHits)
    BY <1>1, OneLenHitsCounted
  <2>4. IsFiniteSet(hits) /\ foundCounter = Cardinality(hits)
    BY DEF CountedOnce
  <2>5. /\ IsFiniteSet(hits \cup OneLenHits)
        /\ Cardinality(hits \cup OneLenHits) = Cardinality(hits) + Cardinality(OneLenHits)
    BY <2>2, <2>3, <2>4, DisjointUnion
  <2>6. QED BY <2>1, <2>3, <2>4, <2>5 DEF CountedOnce
<1>2. CASE FullMatch
  <2>1. /\ hits' = IF RestMatches(Entry) THEN hits \cup {Decides} ELSE hits
        /\ foundCounter' = IF RestMatches(Entry) THEN foundCounter + 1 ELSE foundCounter
    BY <1>2 DEF FullMatch, Entry, Decides
  <2>2. Decides \notin hits
    BY <1>2, DecidesNew
  <2>3. IsFiniteSet(hits) /\ foundCounter = Cardinality(hits)
    BY DEF CountedOnce
  <2>4. /\ IsFiniteSet(hits \cup {Decides})
        /\ Cardinality(hits \cup {Decides}) = Cardinality(hits) + 1
    BY <2>2, <2>3, FS_AddElement
  <2>5. QED BY <2>1, <2>3, <2>4 DEF CountedOnce
<1>3. CASE UNCHANGED <<hits, foundCounter>>
  BY <1>3 DEF CountedOnce
<1>4. QED BY <1>1, <1>2, <1>3 DEF Next, LeaveLoop, Advance, Finish, Done, vars

-----------------------------------------------------------------------------
(* The theorems. *)

LEMMA SearchInit == Init => SearchInv
<1> SUFFICES ASSUME Init PROVE SearchInv
  OBVIOUS
<1>1. TypeOK
  BY TypeInit
<1>2. StateTracksStream
  BY StreamInit
<1>3. pc = "loop" /\ T = 0 /\ hits = {} /\ foundCounter = 0
  BY DEF Init
<1>4. ASSUME NEW x \in Expected PROVE ~ Settled(x)
  <2>1. CASE Len(acsm.patterns[x[1]]) = 1
    BY <1>1, <1>3, <2>1, ExpectedElement DEF Settled, TypeOK
  <2>2. CASE Len(acsm.patterns[x[1]]) # 1
    <3> DEFINE d == DecidedAt(Len(acsm.patterns[x[1]]), x[2])
    <3>1. d \in Nat
      BY <1>1, <2>2, ExpectedElement, OccurrenceDecided DEF TypeOK
    <3>2. Settled(x) <=> d < 0
      BY <1>3, <2>2 DEF Settled
    <3> HIDE DEF d
    <3>3. QED BY <3>1, <3>2
  <2>3. QED BY <2>1, <2>2
<1>5. HitsAreSettledOccurrences
  BY <1>3, <1>4 DEF HitsAreSettledOccurrences
<1>6. CountedOnce
  BY <1>3, FS_EmptySet DEF CountedOnce
<1>7. QED BY <1>1, <1>2, <1>3, <1>5, <1>6 DEF SearchInv, EndReached

LEMMA SearchStep == SearchInv /\ [Next]_vars => SearchInv'
<1> SUFFICES ASSUME SearchInv, [Next]_vars PROVE SearchInv'
  OBVIOUS
<1> USE DEF SearchInv
<1>1. TypeOK'
  BY TypeStep
<1>2. StateTracksStream'
  BY StreamStep
<1>3. HitsAreSettledOccurrences'
  <2>1. CASE UNCHANGED vars
    BY <2>1 DEF HitsAreSettledOccurrences, Expected, Settled, MatchList, vars
  <2>2. QED BY <2>1, HitsCountOneLen, HitsLeaveLoop, HitsFullMatch, HitsAdvance, HitsFinish
            DEF Next, Done
<1>4. CountedOnce'
  BY CountStep
<1>5. EndReached'
  BY EndStep
<1>6. QED BY <1>1, <1>2, <1>3, <1>4, <1>5

LEMMA SearchInvImpliesExact == SearchInv => FoundIsExact
<1> SUFFICES ASSUME SearchInv, pc = "done" PROVE hits = Expected /\ foundCounter = Cardinality(Expected)
  BY DEF FoundIsExact
<1> USE DEF SearchInv
<1>1. T >= Tend /\ T \in Nat /\ T % 2 = 0 /\ Tend \in Nat /\ Tend = Len(text)
  BY TextFacts DEF EndReached, TypeOK, StateTracksStream, Tend
<1>2. ASSUME NEW x \in Expected PROVE Settled(x)
  <2>1. CASE Len(acsm.patterns[x[1]]) = 1
    <3>1. ~ Len(acsm.patterns[x[1]]) >= 2
      BY <2>1
    <3>2. x[2] \in Nat
      BY ExpectedElement DEF TypeOK
    <3>3. x[2] < Tend
      BY <3>1, ExpectedElement DEF TypeOK
    <3>4. QED BY <3>2, <3>3, <2>1, <1>1 DEF Settled
  <2>2. CASE Len(acsm.patterns[x[1]]) # 1
    <3> DEFINE d == DecidedAt(Len(acsm.patterns[x[1]]), x[2])
    <3>1. d \in Nat /\ d % 2 = 0 /\ d <= Len(text) + 1
      BY <2>2, ExpectedElement, OccurrenceDecided DEF TypeOK
    <3>2. Settled(x) <=> (d < T \/ d = T)
      BY <2>2 DEF Settled
    <3> HIDE DEF d
    <3>3. QED BY <3>1, <3>2, <1>1
  <2>3. QED BY <2>1, <2>2
<1>3. hits = Expected
  BY <1>2 DEF HitsAreSettledOccurrences
<1>4. QED BY <1>3 DEF CountedOnce

(* The inductive invariant of acsmSearchWithOddEven with fullMatchOrigin:  *)
(* types, the tracking of the even bytes, the settled occurrences and the  *)
(* counter, in every reachable state.  No part but the types and the       *)
(* tracking is inductive without the others.                               *)
THEOREM SearchInvariant == Spec => []SearchInv
<1>1. QED BY SearchInit, SearchStep, PTL DEF Spec

(* First phase, for every automaton the construction may deliver: the      *)
(* state stands for the longest string of the trie that the even bytes     *)
(* read so far end with (the transition in acsmSearchWithOddEven).         *)
THEOREM StreamTracked == Spec => []StateTracksStream
<1>1. SearchInv => StateTracksStream
  BY DEF SearchInv
<1>2. QED BY <1>1, SearchInvariant, PTL

(* Both phases: at every moment exactly the occurrences whose turn has     *)
(* come have been reported by fullMatchOrigin or counted in oneLenTable,   *)
(* and foundCounter is their number.                                       *)
THEOREM HitsCorrect == Spec => [](HitsAreSettledOccurrences /\ CountedOnce)
<1>1. SearchInv => HitsAreSettledOccurrences /\ CountedOnce
  BY DEF SearchInv
<1>2. QED BY <1>1, SearchInvariant, PTL

(* acsmSearchWithOddEven and acsmSearchWithOddEvenSnortOneLen with the     *)
(* callback fullMatchOrigin return the number of occurrences of the        *)
(* patterns in the text, for every pattern file and every text.            *)
THEOREM FoundExact == Spec => []FoundIsExact
<1>1. QED BY SearchInvImpliesExact, SearchInvariant, PTL

-----------------------------------------------------------------------------
(* Refinement. *)

LEMMA ReportStep ==
    ASSUME SearchInv, SearchInv', acsm' = acsm, text' = text, pc # "done", pc' # "done",
           hits \subseteq hits'
    PROVE  Matcher!Report
<1>1. Expected' = Expected
  BY DEF Expected
<1>2. hits' \subseteq Expected
  BY <1>1 DEF SearchInv, HitsAreSettledOccurrences
<1>3. /\ IsFiniteSet(hits) /\ foundCounter = Cardinality(hits)
      /\ IsFiniteSet(hits') /\ foundCounter' = Cardinality(hits')
  BY DEF SearchInv, CountedOnce
<1>4. Cardinality(hits' \ hits) = Cardinality(hits') - Cardinality(hits)
  <2>1. Cardinality(hits' \ hits) = Cardinality(hits') - Cardinality(hits' \cap hits)
    BY <1>3, FS_Difference
  <2>2. hits' \cap hits = hits
    OBVIOUS
  <2>3. QED BY <2>1, <2>2
<1>5. foundCounter' = foundCounter + Cardinality(hits' \ hits)
  <2>1. Cardinality(hits) \in Nat /\ Cardinality(hits') \in Nat
    BY <1>3, FS_CardinalityType
  <2>2. QED BY <1>3, <1>4, <2>1
<1>6. Matcher!Cardinality(hits' \ hits) = Cardinality(hits' \ hits)
  BY Zenon DEF Cardinality, Matcher!Cardinality
<1>7. QED BY <1>1, <1>2, <1>5, <1>6 DEF Matcher!Report

LEMMA RefinementInit == Init => Matcher!Init
<1> SUFFICES ASSUME Init PROVE Matcher!Init
  OBVIOUS
<1>1. IsFiniteSet(Expected)
  BY TypeInit, ExpectedFinite DEF TypeOK
<1>2. Matcher!IsFiniteSet(Expected)
  BY <1>1, Zenon DEF IsFiniteSet, Matcher!IsFiniteSet
<1>3. QED BY <1>2 DEF Init, Matcher!Init

LEMMA RefinementStep ==
    SearchInv /\ SearchInv' /\ [Next]_vars => [Matcher!Next]_(Matcher!matcherVars)
<1> SUFFICES ASSUME SearchInv, SearchInv', [Next]_vars
             PROVE  [Matcher!Next]_(Matcher!matcherVars)
  OBVIOUS
<1>1. CASE CountOneLen
  BY <1>1, ReportStep DEF CountOneLen, Matcher!Next
<1>2. CASE LeaveLoop
  BY <1>2, ReportStep DEF LeaveLoop, Matcher!Next
<1>3. CASE FullMatch
  <2>1. hits \subseteq hits'
    BY <1>3 DEF FullMatch
  <2>2. QED BY <1>3, <2>1, ReportStep DEF FullMatch, Matcher!Next
<1>4. CASE Advance
  BY <1>4, ReportStep DEF Advance, Matcher!Next
<1>5. CASE Finish
  <2>1. Expected' = Expected /\ hits' = hits /\ foundCounter' = foundCounter /\ pc' = "done"
    BY <1>5 DEF Finish, Expected
  <2>2. FoundIsExact'
    BY SearchInvImpliesExact, PTL
  <2>3. hits = Expected
    BY <2>1, <2>2 DEF FoundIsExact
  <2>4. QED BY <2>1, <2>3 DEF Matcher!Next, Matcher!Finish
<1>6. CASE UNCHANGED vars
  BY <1>6 DEF vars, Matcher!matcherVars, Expected
<1>7. QED BY <1>1, <1>2, <1>3, <1>4, <1>5, <1>6 DEF Next, Done

(* The two-phase search implements the abstract matcher: every increment   *)
(* of foundCounter reports an occurrence that is there and has not been    *)
(* reported before, and the search ends only when all have been.           *)
THEOREM SearchRefinesMatcher == Spec => MatcherSpec
<1>1. QED BY RefinementInit, RefinementStep, SearchInvariant, PTL
          DEF Spec, MatcherSpec, Matcher!Spec

-----------------------------------------------------------------------------
(* RepetitionSearch: the same search with the callback fullMatchSnort.     *)

(* The largest of a set of numbers with a bound. *)
LEMMA RepMax ==
    ASSUME NEW S, S \subseteq Nat, NEW m \in S, \A k \in S : k <= m
    PROVE  Max(S) = m
<1>1. \A k \in S : m >= k
  OBVIOUS
<1>2. Max(S) \in S /\ \A k \in S : Max(S) >= k
  BY <1>1 DEF Max
<1>3. PICK r \in Nat : r = Max(S)
  BY <1>2
<1>4. r >= m /\ m >= r /\ m \in Nat
  BY <1>1, <1>2, <1>3
<1>5. QED BY <1>3, <1>4

LEMMA RepMaxType ==
    ASSUME NEW S, S \subseteq Nat, S # {}, NEW n \in Nat, \A k \in S : k <= n
    PROVE  Max(S) \in Nat
<1>1. PICK m \in S : \A k \in S : k <= m
  BY LargestNumber
<1>2. QED BY <1>1, RepMax

-----------------------------------------------------------------------------
(* The states after the even bytes: the recursive definition has a value.  *)

PathStep(a, t, f, k) == a.acsmNextState[f[k - 1]][At(t, 2 * k - 2)]

IsPath(a, t, f, n) == f = [k \in 0 .. n |-> IF k = 0 THEN 0 ELSE PathStep(a, t, f, k)]

LEMMA PathExists ==
    ASSUME NEW a, NEW t, NEW n \in Nat
    PROVE  \E f : IsPath(a, t, f, n)
<1> DEFINE Bad == {k \in Nat : ~ \E f : IsPath(a, t, f, k)}
<1>1. SUFFICES Bad = {}
  OBVIOUS
<1>2. SUFFICES ASSUME Bad # {} PROVE FALSE
  OBVIOUS
<1>3. PICK m \in Bad : \A k \in Bad : m <= k
  <2>1. Bad \subseteq Nat
    OBVIOUS
  <2> HIDE DEF Bad
  <2>2. QED BY <1>2, <2>1, SmallestNumber
<1>4. m \in Nat /\ ~ \E f : IsPath(a, t, f, m)
  OBVIOUS
<1>5. CASE m = 0
  <2> DEFINE f == [k \in 0 .. 0 |-> 0]
  <2>1. ASSUME NEW k \in 0 .. 0 PROVE f[k] = IF k = 0 THEN 0 ELSE PathStep(a, t, f, k)
    <3>1. k = 0
      OBVIOUS
    <3>2. QED BY <3>1
  <2>2. f = [k \in 0 .. 0 |-> IF k = 0 THEN 0 ELSE PathStep(a, t, f, k)]
    BY <2>1
  <2>3. QED BY <1>4, <1>5, <2>2 DEF IsPath
<1>6. CASE m # 0
  <2>1. m - 1 \in Nat /\ ~ (m <= m - 1)
    BY <1>4, <1>6
  <2>2. m - 1 \notin Bad
    BY <1>3, <2>1
  <2>3. PICK f : IsPath(a, t, f, m - 1)
    BY <2>1, <2>2
  <2> DEFINE g == [k \in 0 .. m |-> IF k = m THEN PathStep(a, t, f, m) ELSE f[k]]
  <2>4. ASSUME NEW k \in 0 .. m PROVE g[k] = IF k = 0 THEN 0 ELSE PathStep(a, t, g, k)
    <3>1. g[k] = IF k = m THEN PathStep(a, t, f, m) ELSE f[k]
      OBVIOUS
    <3>2. CASE k = 0
      <4>1. f[0] = 0
        BY <2>1, <2>3 DEF IsPath
      <4>2. QED BY <1>6, <3>1, <3>2, <4>1
    <3>3. CASE k # 0
      <4>1. k - 1 \in 0 .. m - 1 /\ k - 1 \in 0 .. m /\ k - 1 # m
        BY <1>4, <3>3
      <4>2. g[k - 1] = f[k - 1]
        BY <4>1
      <4>3. PathStep(a, t, g, k) = PathStep(a, t, f, k)
        BY <4>2 DEF PathStep
      <4>4. CASE k = m
        BY <3>1, <3>3, <4>3, <4>4
      <4>5. CASE k # m
        <5>1. k \in 0 .. m - 1
          BY <1>4, <4>5
        <5>2. f[k] = IF k = 0 THEN 0 ELSE PathStep(a, t, f, k)
          BY <2>3, <5>1 DEF IsPath
        <5>3. QED BY <3>1, <3>3, <4>3, <4>5, <5>2
      <4>6. QED BY <4>4, <4>5
    <3>4. QED BY <3>2, <3>3
  <2>5. g = [k \in 0 .. m |-> IF k = 0 THEN 0 ELSE PathStep(a, t, g, k)]
    <3>1. g = [k \in 0 .. m |-> g[k]]
      OBVIOUS
    <3> HIDE DEF g
    <3>2. QED BY <2>4, <3>1
  <2>6. IsPath(a, t, g, m)
    BY <2>5 DEF IsPath
  <2>7. QED BY <1>4, <2>6
<1>7. QED BY <1>5, <1>6

LEMMA StateAfterFacts ==
    ASSUME NEW n \in Nat, n = (Tend + 1) \div 2
    PROVE  /\ StateAfter[0] = 0
           /\ \A k \in 1 .. n : StateAfter[k]
                                  = acsm.acsmNextState[StateAfter[k - 1]][At(text, 2 * k - 2)]
<1>1. StateAfter = CHOOSE f : IsPath(acsm, text, f, n)
  BY DEF StateAfter, IsPath, PathStep, At, Tend
<1>2. \E f : IsPath(acsm, text, f, n)
  BY PathExists
<1>3. IsPath(acsm, text, StateAfter, n)
  BY <1>1, <1>2, Zenon
<1>4. PICK f : f = StateAfter
  OBVIOUS
<1>5. f = [k \in 0 .. n |-> IF k = 0 THEN 0 ELSE PathStep(acsm, text, f, k)]
  BY <1>3, <1>4 DEF IsPath
<1>6. f[0] = 0
  BY <1>5
<1>7. ASSUME NEW k \in 1 .. n PROVE f[k] = PathStep(acsm, text, f, k)
  BY <1>5
<1>8. QED BY <1>4, <1>6, <1>7 DEF PathStep

-----------------------------------------------------------------------------
(* Runs of one state and one skipped byte.                                 *)

(* The last k skipped bytes of the first 2 * h are equal, with state s     *)
(* before, between and after them.                                         *)
Keeps(f, t, s, h) ==
    {k \in 0 .. h :
        /\ \A j \in 0 .. k : f[h - j] = s
        /\ \A j \in 0 .. k - 1 : At(t, 2 * h - 1 - 2 * j) = At(t, 2 * h - 1)}

IsRun(f, t, s, h, m) == m \in Keeps(f, t, s, h) /\ \A k \in Keeps(f, t, s, h) : k <= m

LEMMA RunBroken ==
    ASSUME NEW f, NEW t, NEW s, NEW h \in Nat, h >= 1, f[h] = s, f[h - 1] # s
    PROVE  IsRun(f, t, s, h, 0)
<1>1. 0 \in Keeps(f, t, s, h)
  <2>1. \A j \in 0 .. 0 : h - j = h
    OBVIOUS
  <2>2. \A j \in 0 .. 0 : f[h - j] = s
    BY <2>1
  <2>3. \A j \in 0 .. 0 - 1 : At(t, 2 * h - 1 - 2 * j) = At(t, 2 * h - 1)
    OBVIOUS
  <2>4. QED BY <2>2, <2>3 DEF Keeps
<1>2. ASSUME NEW k \in Keeps(f, t, s, h) PROVE k <= 0
  <2>1. k \in 0 .. h /\ \A j \in 0 .. k : f[h - j] = s
    BY DEF Keeps
  <2>2. ~ 1 \in 0 .. k
    BY <2>1
  <2>3. QED BY <2>1, <2>2
<1>3. QED BY <1>1, <1>2 DEF IsRun

(* The byte before the last and the last skipped one, and the run so far.  *)
LEMMA RunOneLonger ==
    ASSUME NEW f, NEW t, NEW s, NEW h \in Nat, h >= 1, f[h] = s, NEW m,
           IsRun(f, t, s, h - 1, m), m = 0 \/ At(t, 2 * h - 3) = At(t, 2 * h - 1)
    PROVE  IsRun(f, t, s, h, m + 1)
<1>1. /\ m \in 0 .. h - 1 /\ \A j \in 0 .. m : f[(h - 1) - j] = s
      /\ \A j \in 0 .. m - 1 : At(t, 2 * (h - 1) - 1 - 2 * j) = At(t, 2 * (h - 1) - 1)
      /\ \A k \in Keeps(f, t, s, h - 1) : k <= m
  BY DEF IsRun, Keeps
<1>2. 2 * (h - 1) - 1 = 2 * h - 3
  OBVIOUS
<1>3. ASSUME NEW j \in 0 .. m + 1 PROVE f[h - j] = s
  <2>1. CASE j = 0
    <3>1. h - j = h
      BY <2>1
    <3>2. QED BY <3>1
  <2>2. CASE j # 0
    <3>1. PICK i \in 0 .. m : i = j - 1
      BY <1>1, <2>2
    <3>2. f[(h - 1) - i] = s
      BY <1>1
    <3>3. (h - 1) - i = h - j
      BY <3>1
    <3>4. QED BY <3>2, <3>3
  <2>3. QED BY <2>1, <2>2
<1>4. ASSUME NEW j \in 0 .. m PROVE At(t, 2 * h - 1 - 2 * j) = At(t, 2 * h - 1)
  <2>1. CASE j = 0
    <3>1. 2 * h - 1 - 2 * j = 2 * h - 1
      BY <2>1
    <3>2. QED BY <3>1
  <2>2. CASE j # 0
    <3>1. j - 1 \in 0 .. m - 1 /\ 2 * (h - 1) - 1 - 2 * (j - 1) = 2 * h - 1 - 2 * j /\ m # 0
      BY <1>1, <2>2
    <3>2. At(t, 2 * h - 1 - 2 * j) = At(t, 2 * h - 3)
      BY <1>1, <1>2, <3>1
    <3>3. QED BY <3>1, <3>2
  <2>3. QED BY <2>1, <2>2
<1>5. m + 1 \in Keeps(f, t, s, h)
  <2>1. m + 1 \in 0 .. h /\ (m + 1) - 1 = m
    BY <1>1
  <2>2. QED BY <1>3, <1>4, <2>1 DEF Keeps
<1>6. ASSUME NEW k \in Keeps(f, t, s, h) PROVE k <= m + 1
  <2>1. /\ k \in 0 .. h /\ \A j \in 0 .. k : f[h - j] = s
        /\ \A j \in 0 .. k - 1 : At(t, 2 * h - 1 - 2 * j) = At(t, 2 * h - 1)
    BY DEF Keeps
  <2>2. CASE k = 0
    BY <1>1, <2>2
  <2>3. CASE k # 0
    <3>1. k - 1 \in 0 .. h - 1
      BY <2>1, <2>3
    <3>2. ASSUME NEW j \in 0 .. k - 1 PROVE f[(h - 1) - j] = s
      <4>1. PICK i \in 0 .. k : i = j + 1
        BY <2>1
      <4>2. f[h - i] = s
        BY <2>1
      <4>3. h - i = (h - 1) - j
        BY <4>1
      <4>4. QED BY <4>2, <4>3
    <3>3. ASSUME NEW j \in 0 .. (k - 1) - 1
          PROVE  At(t, 2 * (h - 1) - 1 - 2 * j) = At(t, 2 * (h - 1) - 1)
      <4>1. /\ j + 1 \in 0 .. k - 1 /\ 1 \in 0 .. k - 1
            /\ 2 * h - 1 - 2 * (j + 1) = 2 * (h - 1) - 1 - 2 * j
            /\ 2 * h - 1 - 2 * 1 = 2 * (h - 1) - 1
        BY <2>1
      <4>2. At(t, 2 * h - 1 - 2 * (j + 1)) = At(t, 2 * h - 1 - 2 * 1)
        BY <2>1, <4>1
      <4>3. QED BY <4>1, <4>2
    <3>4. k - 1 \in Keeps(f, t, s, h - 1)
      BY <3>1, <3>2, <3>3 DEF Keeps
    <3>5. k - 1 <= m
      BY <1>1, <3>4
    <3>6. QED BY <1>1, <2>1, <3>5
  <2>4. QED BY <2>2, <2>3
<1>7. QED BY <1>5, <1>6 DEF IsRun

LEMMA RunRestarts ==
    ASSUME NEW f, NEW t, NEW s, NEW h \in Nat, h >= 1, f[h] = s, f[h - 1] = s,
           At(t, 2 * h - 3) # At(t, 2 * h - 1)
    PROVE  IsRun(f, t, s, h, 1)
<1>1. 1 \in Keeps(f, t, s, h)
  <2>1. ASSUME NEW j \in 0 .. 1 PROVE f[h - j] = s
    <3>1. j = 0 \/ j = 1
      OBVIOUS
    <3>2. h - 0 = h
      OBVIOUS
    <3>3. QED BY <3>1, <3>2
  <2>2. ASSUME NEW j \in 0 .. 1 - 1 PROVE At(t, 2 * h - 1 - 2 * j) = At(t, 2 * h - 1)
    <3>1. 2 * h - 1 - 2 * j = 2 * h - 1
      OBVIOUS
    <3>2. QED BY <3>1
  <2>3. QED BY <2>1, <2>2 DEF Keeps
<1>2. ASSUME NEW k \in Keeps(f, t, s, h) PROVE k <= 1
  <2>1. k \in 0 .. h /\ \A j \in 0 .. k - 1 : At(t, 2 * h - 1 - 2 * j) = At(t, 2 * h - 1)
    BY DEF Keeps
  <2>2. 2 * h - 1 - 2 * 1 = 2 * h - 3
    OBVIOUS
  <2>3. ~ 1 \in 0 .. k - 1
    BY <2>1, <2>2
  <2>4. QED BY <2>1, <2>3
<1>3. QED BY <1>1, <1>2 DEF IsRun

LEMMA RunLengthIs ==
    ASSUME NEW h \in Nat, T = 2 * h, NEW m, IsRun(StateAfter, text, state, h, m)
    PROVE  RunLength = m
<1> DEFINE S == Keeps(StateAfter, text, state, h)
<1>1. T \div 2 = h
  OBVIOUS
<1>2. \A j \in 0 .. h : T - 1 - 2 * j = 2 * h - 1 - 2 * j
  OBVIOUS
<1>3. T - 1 = 2 * h - 1
  OBVIOUS
<1>4. RunLength = Max(S)
  <2>1. S = {k \in 0 .. T \div 2 :
                /\ \A j \in 0 .. k : StateAfter[T \div 2 - j] = state
                /\ \A j \in 0 .. k - 1 : At(text, T - 1 - 2 * j) = At(text, T - 1)}
    BY <1>1, <1>2, <1>3 DEF Keeps
  <2>2. QED BY <2>1 DEF RunLength, At
<1>5. S \subseteq Nat /\ m \in S /\ \A k \in S : k <= m
  BY DEF Keeps, IsRun
<1>6. QED BY <1>4, <1>5, RepMax

-----------------------------------------------------------------------------
(* The repetition table holds numbers.                                     *)

LEMMA TrailingRunType ==
    ASSUME NEW p, p.indexEnd \in Nat
    PROVE  TrailingRun(p) \in Nat
<1> DEFINE n == p.indexEnd \div 2 + 1
           S == {k \in 1 .. n :
                   \A j \in 0 .. k - 1 : At(p.origin, p.indexEnd - 2 * j) = At(p.origin, p.indexEnd)}
<1>1. n \in Nat /\ n >= 1
  OBVIOUS
<1>2. 1 \in S
  <2>1. \A j \in 0 .. 1 - 1 : p.indexEnd - 2 * j = p.indexEnd
    OBVIOUS
  <2>2. \A j \in 0 .. 1 - 1 : At(p.origin, p.indexEnd - 2 * j) = At(p.origin, p.indexEnd)
    BY <2>1
  <2>3. QED BY <1>1, <2>2
<1>3. S \subseteq Nat /\ S # {} /\ \A k \in S : k <= n
  BY <1>1, <1>2
<1>4. TrailingRun(p) = Max(S)
  BY DEF TrailingRun, At
<1> HIDE DEF S, n
<1>5. QED BY <1>1, <1>3, <1>4, RepMaxType

LEMMA RunValueType ==
    ASSUME NEW p, p.indexEnd \in Nat
    PROVE  RunValue(p) \in Nat /\ RunValue(p) <= UChar
<1>1. PICK r \in Nat : r = TrailingRun(p)
  BY TrailingRunType
<1>2. PICK u \in Nat : u = UChar /\ u > 2
  BY UCharAssumption
<1>3. r % u \in 0 .. u - 1 /\ r % (u - 1) \in 0 .. u - 2
  BY <1>2
<1>4. \/ RunValue(p) = 0
      \/ RunValue(p) = (r % (u - 1)) + 1
      \/ RunValue(p) = r % u
  BY <1>1, <1>2 DEF RunValue
<1>5. QED BY <1>2, <1>3, <1>4

LEMMA IndexEndType ==
    ASSUME NEW a \in Automata, NEW e \in DOMAIN a.plist
    PROVE  a.plist[e].indexEnd \in Nat
<1>1. PICK m \in Nat, f \in 0 .. 1 : /\ m = Len(a.plist[e].origin) /\ m >= 2
                                      /\ f = a.plist[e].flag
                                      /\ a.plist[e].indexEnd = IndexEnd(m, f)
  BY EntryFacts
<1>2. IndexEnd(m, f) \in m - 2 .. m - 1
  BY <1>1, SplitArithmetic
<1>3. QED BY <1>1, <1>2

LEMMA RepeatValueType ==
    ASSUME NEW a \in Automata, NEW s, NEW c
    PROVE  RepeatValue(a, s, c) \in Nat
<1> DEFINE D == {e \in DOMAIN a.plist :
                   /\ \E j \in 1 .. Len(a.acsmMatchList[s]) : a.acsmMatchList[s][j] = e
                   /\ At(a.plist[e].origin, a.plist[e].indexEnd) = c}
           S == {0} \cup {RunValue(a.plist[e]) : e \in D}
<1>1. \A e \in D : RunValue(a.plist[e]) \in Nat /\ RunValue(a.plist[e]) <= UChar
  BY IndexEndType, RunValueType
<1>2. UChar \in Nat
  BY UCharAssumption
<1>3. RepeatValue(a, s, c) = Max(S)
  BY DEF RepeatValue, At
<1> HIDE DEF D
<1>4. S \subseteq Nat /\ S # {} /\ \A k \in S : k <= UChar
  BY <1>1, <1>2
<1> HIDE DEF S
<1>5. QED BY <1>2, <1>3, <1>4, RepMaxType

(* The table never allows to reuse the result of a run of one or two.      *)
LEMMA TableAllowsLong ==
    ASSUME acsm \in Automata, NEW n \in Nat, n = countConitnue', TableAllows
    PROVE  n > 2
<1>1. PICK r \in Nat : r = RepeatValue(acsm, state, continueChar)
  BY RepeatValueType
<1>2. r > 1 /\ n > r
  BY <1>1 DEF TableAllows, InTable
<1>3. QED BY <1>2

-----------------------------------------------------------------------------
(* The run the search is in.                                               *)

RunAt(h) ==
    /\ IsRun(StateAfter, text, state, h, countConitnue)
    /\ countConitnue > 0 => lastChar = At(text, 2 * h - 1)
    /\ continueFlag = 1 => countConitnue > 2

RepPlace ==
    /\ acsm \in Automata
    /\ text \in Texts
    /\ pc \in {"loop", "callback", "advance", "done"}
    /\ T \in Nat
    /\ state \in States(acsm)
    /\ Tracks(acsm, text, T, state)
    /\ StateAfter[T \div 2] = state
    /\ T # 0 => StateAfter[T \div 2 - 1] = lastState
    /\ pc = "callback" => MatchList # << >>
    /\ pc = "done" => T >= Tend

(* Before a callback the fields belong to the place before, if the state   *)
(* has not changed since; after it, to this one.                           *)
RunTracked ==
    /\ pc \in {"loop", "callback"} /\ T # 0 /\ lastState = state /\ MatchList # << >> =>
         RunAt(T \div 2 - 1)
    /\ pc = "advance" /\ T < Tend /\ MatchList # << >> => RunAt(T \div 2)

(* Nothing has been read at T = 0, and no half is empty. *)
LEMMA NoListAtStart ==
    ASSUME NEW a \in Automata, NEW t \in Texts, NEW s \in States(a), Tracks(a, t, 0, s)
    PROVE  a.acsmMatchList[s] = << >>
<1>1. a.acsmMatchList[s] \in Seq(DOMAIN a.plist)
  BY AutomatonFacts
<1>2. SUFFICES ASSUME NEW j \in 1 .. Len(a.acsmMatchList[s]) PROVE FALSE
  BY <1>1
<1>3. PICK e \in DOMAIN a.plist : e = a.acsmMatchList[s][j]
  BY <1>1
<1>4. EvenBytesEndWith(t, 0, a.plist[e].patrn)
  BY <1>3, MatchListTracks
<1>5. PICK p \in Seq(Char), f \in 0 .. 1 : Len(p) >= 2 /\ a.plist[e].patrn = Half(p, f)
  BY EntryFacts
<1>6. PICK m \in Nat : m = Len(p) /\ m >= 2
  BY <1>5
<1>7. HalfLength(m, f) \in Nat /\ HalfLength(m, f) >= 1
  BY <1>6, SplitArithmetic
<1>8. Len(a.plist[e].patrn) = HalfLength(m, f)
  BY <1>5, <1>6, HalfType
<1>9. QED BY <1>4, <1>7, <1>8 DEF EvenBytesEndWith

LEMMA PlaceFacts ==
    ASSUME RepPlace, NEW h, h = T \div 2
    PROVE  h \in Nat /\ T = 2 * h /\ Len(text) \in Nat /\ Tend = Len(text) /\ T <= Tend + 1
<1>1. Len(text) \in Nat /\ Tend = Len(text)
  BY TextFacts DEF RepPlace, Tend
<1>2. T \in Nat /\ T % 2 = 0 /\ T <= Len(text) + 1
  BY DEF RepPlace, Tracks
<1>3. QED BY <1>1, <1>2

LEMMA RepInit == SnortInit => RepPlace /\ RunTracked
<1> SUFFICES ASSUME SnortInit PROVE RepPlace /\ RunTracked
  OBVIOUS
<1>1. /\ acsm \in Automata /\ text \in Texts /\ pc = "loop" /\ T = 0 /\ state = 0
  BY DEF SnortInit
<1>2. state \in States(acsm)
  BY <1>1, AutomatonFacts DEF States
<1>3. Tracks(acsm, text, T, state)
  BY <1>1, TracksStart
<1>4. StateAfter[T \div 2] = state
  <2>1. PICK n \in Nat : n = (Tend + 1) \div 2
    BY <1>1, TextFacts DEF Tend
  <2>2. StateAfter[0] = 0
    BY <2>1, StateAfterFacts
  <2>3. T \div 2 = 0
    BY <1>1
  <2>4. QED BY <1>1, <2>2, <2>3
<1>5. RepPlace
  BY <1>1, <1>2, <1>3, <1>4 DEF RepPlace
<1>6. RunTracked
  BY <1>1 DEF RunTracked
<1>7. QED BY <1>5, <1>6

(* The steps that stay where they are, and the transition.                 *)
LEMMA PlaceStays ==
    ASSUME RepPlace, acsm' = acsm, text' = text, T' = T, state' = state, lastState' = lastState,
           pc' \in {"loop", "callback", "advance", "done"},
           pc' = "callback" => MatchList # << >>, pc' = "done" => T >= Tend
    PROVE  RepPlace' /\ StateAfter' = StateAfter
<1>1. StateAfter' = StateAfter
  BY DEF StateAfter, Tend, At
<1>2. MatchList' = MatchList /\ Tend' = Tend
  BY DEF MatchList, Tend
<1>3. Tracks(acsm, text, T, state)' <=> Tracks(acsm, text, T, state)
  BY DEF Tracks, EvenBytesEndWith, States
<1>4. States(acsm)' = States(acsm)
  BY DEF States
<1>5. QED BY <1>1, <1>2, <1>3, <1>4 DEF RepPlace

LEMMA PlaceAdvance ==
    ASSUME RepPlace, SnortAdvance
    PROVE  RepPlace' /\ StateAfter' = StateAfter
<1>1. /\ T < Tend /\ acsm' = acsm /\ text' = text /\ T' = T + 2 /\ lastState' = state
      /\ state' = acsm.acsmNextState[state][At(text, T)] /\ pc' = "loop"
  BY DEF SnortAdvance, searchVars
<1>2. StateAfter' = StateAfter
  BY <1>1 DEF StateAfter, Tend, At
<1>3. PICK h : h = T \div 2
  OBVIOUS
<1>4. h \in Nat /\ T = 2 * h /\ Len(text) \in Nat /\ Tend = Len(text)
  BY <1>3, PlaceFacts
<1>5. /\ acsm \in Automata /\ text \in Texts /\ state \in States(acsm)
      /\ Tracks(acsm, text, T, state) /\ T \in Nat
  BY DEF RepPlace
<1>6. Tracks(acsm, text, T + 2, acsm.acsmNextState[state][At(text, T)])
  BY <1>1, <1>4, <1>5, TracksNext
<1>7. acsm.acsmNextState[state][At(text, T)] \in States(acsm)
  <2>1. At(text, T) \in Char
    BY <1>1, <1>4, <1>5, TextFacts
  <2>2. QED BY <1>5, <2>1, AutomatonFacts
<1>8. StateAfter[h + 1] = acsm.acsmNextState[state][At(text, T)] /\ StateAfter[h] = state
  <2>1. PICK n \in Nat : n = (Tend + 1) \div 2
    BY <1>4
  <2>2. h + 1 \in 1 .. n /\ (h + 1) - 1 = h /\ 2 * (h + 1) - 2 = T
    BY <1>1, <1>4, <2>1
  <2>3. \A k \in 1 .. n : StateAfter[k]
                              = acsm.acsmNextState[StateAfter[k - 1]][At(text, 2 * k - 2)]
    BY <2>1, StateAfterFacts
  <2>4. StateAfter[h + 1] = acsm.acsmNextState[StateAfter[h]][At(text, T)]
    BY <2>2, <2>3
  <2>5. StateAfter[h] = state
    BY <1>3 DEF RepPlace
  <2>6. QED BY <2>4, <2>5
<1>9. (T + 2) \div 2 = h + 1 /\ (h + 1) - 1 = h /\ T + 2 \in Nat
  BY <1>4
<1>10. Tracks(acsm', text', T', state') /\ States(acsm') = States(acsm) /\ state' \in States(acsm')
  BY <1>1, <1>6, <1>7
<1>11. StateAfter'[T' \div 2] = state' /\ StateAfter'[T' \div 2 - 1] = lastState'
  BY <1>1, <1>2, <1>8, <1>9
<1>12. QED BY <1>1, <1>2, <1>5, <1>9, <1>10, <1>11 DEF RepPlace

LEMMA CallbackReturns ==
    ASSUME fullMatchSnort
    PROVE  /\ pc = "callback" /\ acsm' = acsm /\ text' = text /\ T' = T /\ state' = state
           /\ lastState' = lastState /\ pc' = "advance"
           /\ \/ T >= Tend /\ SnortFullMatch
              \/ StateEntered
              \/ RunStarts
              \/ RunContinues /\ (ReuseLastFound \/ GiveUp \/ ShortRun)
<1>1. Return => /\ acsm' = acsm /\ text' = text /\ T' = T /\ state' = state
                    /\ lastState' = lastState /\ pc' = "advance"
  BY DEF Return, searchVars
<1>2. CASE AtTextEnd
  <2>1. pc = "callback" /\ Return /\ T >= Tend /\ SnortFullMatch
    BY <1>2 DEF AtTextEnd
  <2>2. QED BY <1>1, <2>1
<1>3. CASE StateEntered
  <2>1. pc = "callback" /\ Return
    BY <1>3 DEF StateEntered
  <2>2. QED BY <1>1, <1>3, <2>1
<1>4. CASE RunStarts
  <2>1. pc = "callback" /\ Return
    BY <1>4 DEF RunStarts, InRun
  <2>2. QED BY <1>1, <1>4, <2>1
<1>5. CASE ReuseLastFound \/ GiveUp \/ ShortRun
  <2>1. RunContinues
    BY <1>5 DEF ReuseLastFound, GiveUp, ShortRun
  <2>2. pc = "callback" /\ Return
    BY <2>1 DEF RunContinues, InRun
  <2>3. QED BY <1>1, <1>5, <2>1, <2>2
<1>6. QED BY <1>2, <1>3, <1>4, <1>5 DEF fullMatchSnort

(* One callback inside the text. *)
LEMMA CallbackTracks ==
    ASSUME RepPlace, RunTracked, fullMatchSnort, T < Tend
    PROVE  RunAt(T \div 2)'
<1>1. PICK h \in Nat : h = T \div 2 /\ T = 2 * h
  BY PlaceFacts
<1>2. /\ pc = "callback" /\ acsm' = acsm /\ text' = text /\ T' = T /\ state' = state
      /\ lastState' = lastState /\ T \in Nat
      /\ \/ StateEntered
         \/ RunStarts
         \/ RunContinues /\ (ReuseLastFound \/ GiveUp \/ ShortRun)
  BY PlaceFacts, CallbackReturns DEF RepPlace
<1>3. PICK f : f = StateAfter
  OBVIOUS
<1>4. StateAfter' = f
  BY <1>2, <1>3 DEF StateAfter, Tend, At
<1>5. MatchList # << >> /\ f[h] = state
  BY <1>1, <1>2, <1>3 DEF RepPlace
<1>6. h >= 1
  <2>1. SUFFICES ASSUME h = 0 PROVE FALSE
    OBVIOUS
  <2>2. T = 0
    BY <1>1, <2>1
  <2>3. QED BY <1>5, <2>2, NoListAtStart DEF RepPlace, MatchList
<1>7. T # 0 /\ T - 1 = 2 * h - 1 /\ f[h - 1] = lastState
  <2>1. T # 0 /\ T - 1 = 2 * h - 1
    BY <1>1, <1>6
  <2>2. QED BY <1>1, <1>3, <2>1 DEF RepPlace
<1>8. SUFFICES /\ IsRun(f, text, state, h, countConitnue')
               /\ countConitnue' > 0 => lastChar' = At(text, 2 * h - 1)
               /\ continueFlag' = 1 => countConitnue' > 2
  BY <1>1, <1>2, <1>4 DEF RunAt
<1>9. CASE StateEntered
  <2>1. lastState # state /\ countConitnue' = 0 /\ continueFlag' = 0
    BY <1>9 DEF StateEntered
  <2>2. IsRun(f, text, state, h, 0)
    BY <1>5, <1>6, <1>7, <2>1, RunBroken
  <2>3. QED BY <2>1, <2>2
<1>10. CASE lastState = state
  <2>1. PICK m : m = countConitnue
    OBVIOUS
  <2>2. IsRun(f, text, state, h - 1, m)
        /\ (m > 0 => lastChar = At(text, 2 * (h - 1) - 1))
        /\ (continueFlag = 1 => m > 2)
    BY <1>1, <1>2, <1>3, <1>5, <1>7, <1>10, <2>1 DEF RunTracked, RunAt
  <2>3. m \in Nat
    BY <1>6, <2>2 DEF IsRun, Keeps
  <2>4. 2 * (h - 1) - 1 = 2 * h - 3
    OBVIOUS
  <2>5. continueChar = At(text, 2 * h - 1)
    BY <1>7 DEF continueChar
  <2>6. CASE RunStarts
    <3>1. /\ lastChar # At(text, 2 * h - 1) /\ lastChar' = At(text, 2 * h - 1)
          /\ countConitnue' = 1 /\ continueFlag' = 0
      BY <2>5, <2>6 DEF RunStarts
    <3>2. IsRun(f, text, state, h, 1)
      <4>1. CASE m = 0
        <5>1. IsRun(f, text, state, h, m + 1)
          BY <1>5, <1>6, <2>2, <4>1, RunOneLonger
        <5>2. m + 1 = 1
          BY <4>1
        <5>3. QED BY <5>1, <5>2
      <4>2. CASE m > 0
        <5>1. At(text, 2 * h - 3) # At(text, 2 * h - 1)
          BY <2>2, <2>4, <3>1, <4>2
        <5>2. QED BY <1>5, <1>6, <1>7, <1>10, <5>1, RunRestarts
      <4>3. QED BY <2>3, <4>1, <4>2
    <3>3. QED BY <3>1, <3>2
  <2>7. CASE RunContinues /\ (ReuseLastFound \/ GiveUp \/ ShortRun)
    <3>1. lastChar = At(text, 2 * h - 1) /\ lastChar' = lastChar /\ countConitnue' = m + 1
      BY <2>1, <2>5, <2>7 DEF RunContinues
    <3>2. m = 0 \/ At(text, 2 * h - 3) = At(text, 2 * h - 1)
      BY <2>2, <2>3, <2>4, <3>1
    <3>3. IsRun(f, text, state, h, m + 1)
      BY <1>5, <1>6, <2>2, <3>2, RunOneLonger
    <3>4. continueFlag' = 1 => m + 1 > 2
      <4>1. CASE continueFlag = 1
        BY <2>2, <2>3, <4>1
      <4>2. CASE continueFlag # 1 /\ TableAllows
        <5>1. acsm \in Automata /\ m + 1 \in Nat
          BY <2>3 DEF RepPlace
        <5>2. m + 1 > 2
          BY <3>1, <4>2, <5>1, TableAllowsLong
        <5>3. QED BY <5>2
      <4>3. CASE continueFlag # 1 /\ ~TableAllows
        <5>1. ~ReuseLastFound
          BY <4>3 DEF ReuseLastFound
        <5>2. continueFlag' = continueFlag
          BY <2>7, <5>1 DEF GiveUp, ShortRun
        <5>3. QED BY <4>3, <5>2
      <4>4. QED BY <4>1, <4>2, <4>3
    <3>5. QED BY <3>1, <3>3, <3>4
  <2>8. ~StateEntered
    BY <1>10 DEF StateEntered
  <2>9. QED BY <1>2, <1>10, <2>6, <2>7, <2>8
<1>11. QED BY <1>2, <1>9, <1>10 DEF RunStarts, RunContinues, InRun

(* What the steps of the loop other than the callback leave alone.         *)
LEMMA LoopSteps ==
    ASSUME SnortCountOneLen \/ SnortLeaveLoop \/ SnortFinish \/ SnortDone \/ UNCHANGED snortVars
    PROVE  /\ acsm' = acsm /\ text' = text /\ T' = T /\ state' = state /\ lastState' = lastState
           /\ countConitnue' = countConitnue /\ lastChar' = lastChar
           /\ continueFlag' = continueFlag
           /\ \/ pc = "loop" /\ pc' = "advance" /\ MatchList = << >>
              \/ pc = "loop" /\ pc' = "callback" /\ MatchList # << >>
              \/ pc = "loop" /\ pc' = "done" /\ T >= Tend /\ MatchList = << >>
              \/ pc = "advance" /\ pc' = "done" /\ T >= Tend
              \/ pc' = pc
<1>1. CASE SnortCountOneLen
  BY <1>1 DEF SnortCountOneLen, searchVars, repVars
<1>2. CASE SnortLeaveLoop
  BY <1>2 DEF SnortLeaveLoop, searchVars, repVars
<1>3. CASE SnortFinish
  BY <1>3 DEF SnortFinish, searchVars, repVars
<1>4. CASE SnortDone \/ UNCHANGED snortVars
  BY <1>4 DEF SnortDone, snortVars, searchVars, repVars
<1>5. QED BY <1>1, <1>2, <1>3, <1>4

LEMMA RepPlaceStep ==
    ASSUME RepPlace, [SnortNext]_snortVars
    PROVE  RepPlace' /\ StateAfter' = StateAfter
<1>1. CASE SnortCountOneLen \/ SnortLeaveLoop \/ SnortFinish \/ SnortDone \/ UNCHANGED snortVars
  <2>1. /\ acsm' = acsm /\ text' = text /\ T' = T /\ state' = state /\ lastState' = lastState
        /\ pc' \in {"loop", "callback", "advance", "done"}
        /\ pc' = "callback" => MatchList # << >>
        /\ pc' = "done" => T >= Tend
    BY <1>1, LoopSteps DEF RepPlace
  <2>2. QED BY <2>1, PlaceStays
<1>2. CASE fullMatchSnort
  BY <1>2, CallbackReturns, PlaceStays
<1>3. CASE SnortAdvance
  BY <1>3, PlaceAdvance
<1>4. QED BY <1>1, <1>2, <1>3 DEF SnortNext

LEMMA RunTrackedStep ==
    ASSUME RepPlace, RunTracked, [SnortNext]_snortVars
    PROVE  RunTracked'
<1>0. RepPlace' /\ StateAfter' = StateAfter
  BY RepPlaceStep
<1>1. CASE SnortCountOneLen \/ SnortLeaveLoop \/ SnortFinish \/ SnortDone \/ UNCHANGED snortVars
  <2>1. /\ acsm' = acsm /\ text' = text /\ T' = T /\ state' = state /\ lastState' = lastState
        /\ countConitnue' = countConitnue /\ lastChar' = lastChar
        /\ continueFlag' = continueFlag
        /\ pc' \in {"loop", "callback"} => pc \in {"loop", "callback"}
        /\ pc' = "advance" => pc = "advance" \/ MatchList = << >>
    BY <1>1, LoopSteps
  <2>2. MatchList' = MatchList /\ Tend' = Tend
    BY <2>1 DEF MatchList, Tend
  <2>3. ASSUME NEW h PROVE RunAt(h)' <=> RunAt(h)
    BY <1>0, <2>1 DEF RunAt, IsRun, Keeps
  <2>4. (pc' \in {"loop", "callback"} /\ T' # 0 /\ lastState' = state' /\ MatchList' # << >>) =>
          RunAt(T \div 2 - 1)'
    BY <2>1, <2>2, <2>3 DEF RunTracked
  <2>5. (pc' = "advance" /\ T' < Tend' /\ MatchList' # << >>) => RunAt(T \div 2)'
    BY <2>1, <2>2, <2>3 DEF RunTracked
  <2>6. QED BY <2>4, <2>5 DEF RunTracked
<1>2. CASE fullMatchSnort
  <2>1. acsm' = acsm /\ text' = text /\ T' = T /\ state' = state /\ pc' = "advance"
    BY <1>2, CallbackReturns
  <2>2. Tend' = Tend
    BY <2>1 DEF Tend
  <2>3. T < Tend => RunAt(T \div 2)'
    BY <1>2, CallbackTracks
  <2>4. QED BY <2>1, <2>2, <2>3 DEF RunTracked
<1>3. CASE SnortAdvance
  <2>1. /\ T < Tend /\ acsm' = acsm /\ text' = text /\ T' = T + 2 /\ lastState' = state
        /\ pc = "advance" /\ pc' = "loop" /\ countConitnue' = countConitnue
        /\ lastChar' = lastChar /\ continueFlag' = continueFlag
    BY <1>3 DEF SnortAdvance, searchVars, repVars
  <2>2. PICK h \in Nat : h = T \div 2 /\ T = 2 * h
    BY PlaceFacts
  <2>3. T' \div 2 - 1 = h
    BY <2>1, <2>2
  <2>4. ASSUME lastState' = state', MatchList' # << >> PROVE RunAt(T \div 2 - 1)'
    <3>1. state' = state
      BY <2>1, <2>4
    <3>2. MatchList # << >>
      BY <2>1, <2>4, <3>1 DEF MatchList
    <3>3. RunAt(h)
      BY <2>1, <2>2, <3>2 DEF RunTracked
    <3>4. RunAt(h)'
      BY <1>0, <2>1, <2>2, <3>1, <3>3 DEF RunAt, IsRun, Keeps
    <3>5. QED BY <2>3, <3>4
  <2>5. QED BY <2>1, <2>4 DEF RunTracked
<1>4. QED BY <1>1, <1>2, <1>3 DEF SnortNext

LEMMA RunTrackedShows ==
    ASSUME RepPlace, RunTracked
    PROVE  RunIsTracked
<1>1. SUFFICES ASSUME pc = "advance", MatchList # << >>, T < Tend
               PROVE  /\ countConitnue = RunLength
                      /\ countConitnue > 0 => lastChar = At(text, T - 1)
                      /\ continueFlag = 1 => countConitnue > 2
  BY DEF RunIsTracked
<1>2. PICK h \in Nat : h = T \div 2 /\ T = 2 * h
  BY PlaceFacts
<1>3. RunAt(h)
  BY <1>1, <1>2 DEF RunTracked
<1>4. T - 1 = 2 * h - 1
  BY <1>2
<1>5. countConitnue = RunLength
  BY <1>2, <1>3, RunLengthIs DEF RunAt
<1>6. QED BY <1>3, <1>4, <1>5 DEF RunAt

(* fullMatchSnort, method_odd_even_snort.c:607-620: after every callback    *)
(* inside the text countConitnue is the length of the run of one state and *)
(* one skipped byte the search is in, and lastChar its byte, whatever an   *)
(* earlier search has left in the fields; a comparison is reused only in   *)
(* runs of more than two.                                                  *)
THEOREM RunTracking == SnortSpec => []RunIsTracked
<1>1. SnortInit => RepPlace /\ RunTracked
  BY RepInit
<1>2. (RepPlace /\ RunTracked) /\ [SnortNext]_snortVars
        => (RepPlace /\ RunTracked)'
  BY RepPlaceStep, RunTrackedStep
<1>3. RepPlace /\ RunTracked => RunIsTracked
  BY RunTrackedShows
<1>4. QED BY <1>1, <1>2, <1>3, PTL DEF SnortSpec

-----------------------------------------------------------------------------
(* What is counted.                                                        *)

(* The occurrence x has had its turn: a one-byte pattern when the loop has *)
(* passed its byte, any other when the callback for the half that decides  *)
(* it has returned.                                                        *)
HadTurn(x) ==
    LET m == Len(acsm.patterns[x[1]]) IN
    IF m = 1
    THEN x[2] < IF pc = "loop" THEN T ELSE T + 2
    ELSE \/ DecidedAt(m, x[2]) < T
         \/ DecidedAt(m, x[2]) = T /\ pc \in {"advance", "done"}

(* The occurrences the callback at T decides. *)
Due == {x \in Expected : Len(acsm.patterns[x[1]]) # 1 /\ DecidedAt(Len(acsm.patterns[x[1]]), x[2]) = T}

(* Without a repetition the counter is the number of turns. *)
CountsTurns == ~HasRepetition => foundCounter = Cardinality({x \in Expected : HadTurn(x)})

(* One full match of the whole list finds as many as are due.              *)
LEMMA DueCount ==
    ASSUME RepPlace
    PROVE  IsFiniteSet(Due) /\ Cardinality(Due) = Cardinality(Matches)
           /\ Cardinality(Due) \in Nat
<1>1. /\ acsm \in Automata /\ text \in Texts /\ T \in Nat /\ state \in States(acsm)
      /\ Tracks(acsm, text, T, state)
  BY DEF RepPlace
<1>2. PICK n \in Nat : n = Len(MatchList)
  <2>1. MatchList \in Seq(DOMAIN acsm.plist)
    BY <1>1, AutomatonFacts DEF MatchList
  <2>2. QED BY <2>1
<1>3. PICK M : M = Matches
  OBVIOUS
<1>4. M = {j \in 1 .. n : RestMatches(EntryAt(j))}
  BY <1>2, <1>3 DEF Matches, EntryAt
<1> DEFINE f == [j \in M |-> PlaceOf(j)]
<1>5. ASSUME NEW j \in M
      PROVE  /\ j \in 1 .. Len(MatchList)
             /\ PlaceOf(j) \in Due /\ (T - EntryAt(j).start) % 2 = EntryAt(j).flag
             /\ T - EntryAt(j).start \in Int /\ EntryAt(j).start \in Nat
  <2>1. j \in 1 .. Len(MatchList) /\ RestMatches(EntryAt(j))
    BY <1>2, <1>4
  <2>2. /\ Len(acsm.patterns[EntryAt(j).iid]) >= 2
        /\ (T - EntryAt(j).start) % 2 = EntryAt(j).flag
        /\ T - EntryAt(j).start \in Int /\ EntryAt(j).start \in Nat
        /\ DecidedAt(Len(acsm.patterns[EntryAt(j).iid]), T - EntryAt(j).start) = T
        /\ PlaceOf(j) \in Expected
    BY <1>1, <2>1, EntryPlace
  <2>3. Len(acsm.patterns[EntryAt(j).iid]) # 1
    <3>1. ~(1 >= 2)
      OBVIOUS
    <3>2. QED BY <2>2, <3>1, Zenon
  <2>4. PlaceOf(j)[1] = EntryAt(j).iid /\ PlaceOf(j)[2] = T - EntryAt(j).start
    BY DEF PlaceOf
  <2>5. QED BY <2>1, <2>2, <2>3, <2>4 DEF Due
<1>6. ASSUME NEW j \in M, NEW k \in M, PlaceOf(j) = PlaceOf(k) PROVE j = k
  <2>1. EntryAt(j).iid = EntryAt(k).iid /\ T - EntryAt(j).start = T - EntryAt(k).start
    BY <1>6 DEF PlaceOf
  <2>2. EntryAt(j).flag = EntryAt(k).flag
    <3>1. (T - EntryAt(j).start) % 2 = EntryAt(j).flag /\ (T - EntryAt(k).start) % 2 = EntryAt(k).flag
      BY <1>5
    <3>2. QED BY <2>1, <3>1, Zenon
  <2>3. j \in 1 .. Len(acsm.acsmMatchList[state]) /\ k \in 1 .. Len(acsm.acsmMatchList[state])
    BY <1>5 DEF MatchList
  <2>4. QED BY <1>1, <2>1, <2>2, <2>3, EntryUnique DEF EntryAt, MatchList
<1>7. ASSUME NEW x \in Due PROVE \E j \in M : PlaceOf(j) = x
  <2>1. /\ x \in Expected /\ Len(acsm.patterns[x[1]]) # 1
        /\ DecidedAt(Len(acsm.patterns[x[1]]), x[2]) = T
    BY DEF Due
  <2>2. /\ x[1] \in DOMAIN acsm.patterns /\ x[2] \in Nat /\ x = <<x[1], x[2]>>
        /\ OccursAt(acsm.patterns[x[1]], text, x[2])
        /\ Len(acsm.patterns[x[1]]) >= 2
    BY <1>1, <2>1, ExpectedElement
  <2>3. Lists(acsm, state, x[1], x[2] % 2)
    <3>1. \A s \in States(acsm) :
             Tracks(acsm, text, DecidedAt(Len(acsm.patterns[x[1]]), x[2]), s) =>
               Lists(acsm, s, x[1], x[2] % 2)
      BY <1>1, <2>2, OccurrenceDecided
    <3>2. QED BY <1>1, <2>1, <3>1
  <2>4. PICK j \in 1 .. Len(MatchList) : EntryAt(j).iid = x[1] /\ EntryAt(j).flag = x[2] % 2
    BY <2>3 DEF Lists, MatchList, EntryAt
  <2>5. /\ EntryAt(j).start = Start(Len(acsm.patterns[x[1]]), x[2] % 2)
        /\ EntryAt(j).start \in Nat
        /\ RestMatches(EntryAt(j)) <=> PlaceOf(j) \in Expected
    BY <1>1, <2>4, EntryPlace
  <2>6. x[2] + EntryAt(j).start = T
    BY <2>1, <2>5 DEF DecidedAt
  <2>7. x[2] = T - EntryAt(j).start
    <3>1. PICK o \in Nat, b \in Nat : o = x[2] /\ b = EntryAt(j).start
      BY <2>2, <2>5
    <3>2. o + b = T
      BY <2>6, <3>1
    <3>3. o = T - b
      BY <1>1, <3>2
    <3>4. QED BY <3>1, <3>3
  <2>8. PlaceOf(j) = x
    BY <2>2, <2>4, <2>7 DEF PlaceOf
  <2>9. j \in M
    BY <1>2, <1>4, <2>1, <2>5, <2>8
  <2>10. QED BY <2>8, <2>9
<1>8. f \in Bijection(M, Due)
  <2>1. f \in [M -> Due]
    BY <1>5
  <2>2. \A j, k \in M : f[j] = f[k] => j = k
    BY <1>6
  <2>3. \A x \in Due : \E j \in M : f[j] = x
    BY <1>7
  <2> HIDE DEF f
  <2>4. QED BY <2>1, <2>2, <2>3, Zenon DEF Bijection, Injection, Surjection, IsInjective
<1>9. ExistsBijection(M, Due)
  BY <1>8 DEF ExistsBijection
<1>10. IsFiniteSet(M)
  <2>1. IsFiniteSet(1 .. n)
    BY <1>2, FS_Interval
  <2>2. M \subseteq 1 .. n
    BY <1>4
  <2>3. QED BY <2>1, <2>2, FS_Subset
<1>11. IsFiniteSet(Due) /\ Cardinality(Due) = Cardinality(M)
  BY <1>9, <1>10, FS_Bijection
<1>12. QED BY <1>3, <1>11, FS_CardinalityType

LEMMA NothingDue ==
    ASSUME RepPlace, MatchList = << >>
    PROVE  Due = {}
<1>1. SUFFICES ASSUME NEW x \in Due PROVE FALSE
  OBVIOUS
<1>2. /\ acsm \in Automata /\ text \in Texts /\ T \in Nat /\ state \in States(acsm)
      /\ Tracks(acsm, text, T, state)
  BY DEF RepPlace
<1>3. /\ x \in Expected /\ Len(acsm.patterns[x[1]]) # 1
      /\ DecidedAt(Len(acsm.patterns[x[1]]), x[2]) = T
  BY DEF Due
<1>4. /\ x[1] \in DOMAIN acsm.patterns /\ x[2] \in Nat
      /\ OccursAt(acsm.patterns[x[1]], text, x[2])
      /\ Len(acsm.patterns[x[1]]) >= 2
  BY <1>2, <1>3, ExpectedElement
<1>5. \A s \in States(acsm) :
         Tracks(acsm, text, DecidedAt(Len(acsm.patterns[x[1]]), x[2]), s) =>
           Lists(acsm, s, x[1], x[2] % 2)
  BY <1>2, <1>4, OccurrenceDecided
<1>6. Lists(acsm, state, x[1], x[2] % 2)
  BY <1>2, <1>3, <1>5
<1>7. \E j \in 1 .. Len(MatchList) : TRUE
  BY <1>6 DEF Lists, MatchList
<1>8. Len(MatchList) = 0
  OBVIOUS
<1>9. QED BY <1>7, <1>8

(* Without a repetition every callback ends in a full match.               *)
LEMMA FullMatchAlways ==
    ASSUME RepPlace, RunTracked, fullMatchSnort, ~HasRepetition
    PROVE  SnortFullMatch
<1>1. \/ T >= Tend /\ SnortFullMatch
      \/ StateEntered
      \/ RunStarts
      \/ RunContinues /\ (ReuseLastFound \/ GiveUp \/ ShortRun)
  BY CallbackReturns
<1>2. CASE StateEntered
  BY <1>2 DEF StateEntered
<1>3. CASE RunStarts
  BY <1>3 DEF RunStarts
<1>4. CASE RunContinues /\ (ReuseLastFound \/ GiveUp \/ ShortRun)
  <2>1. T < Tend
    BY <1>4 DEF RunContinues, InRun
  <2>2. RunAt(T \div 2)'
    BY <2>1, CallbackTracks
  <2>3. PICK h \in Nat : h = T \div 2 /\ T = 2 * h /\ Len(text) \in Nat /\ Tend = Len(text)
    BY PlaceFacts
  <2>4. text' = text /\ state' = state /\ T' = T
    BY CallbackReturns
  <2>5. PICK f : f = StateAfter'
    OBVIOUS
  <2>6. PICK k : k = countConitnue'
    OBVIOUS
  <2>7. k \in Keeps(f, text, state, h) /\ (continueFlag' = 1 => k > 2)
    BY <2>2, <2>3, <2>4, <2>5, <2>6 DEF RunAt, IsRun
  <2>8. k \in 0 .. h /\ \A j \in 0 .. k - 1 : At(text, 2 * h - 1 - 2 * j) = At(text, 2 * h - 1)
    BY <2>7 DEF Keeps
  <2>9. ~(k > 2)
    <3>1. SUFFICES ASSUME k > 2 PROVE HasRepetition
      OBVIOUS
    <3>2. PICK i \in Nat : i = 2 * h - 5 /\ i <= Len(text) - 5
      BY <2>1, <2>3, <2>8, <3>1
    <3>3. i % 2 = 1 /\ i \in 0 .. Len(text) - 5
      BY <2>3, <3>2
    <3>4. 1 \in 0 .. k - 1 /\ 2 \in 0 .. k - 1
      BY <2>8, <3>1
    <3>5. At(text, 2 * h - 1 - 2 * 1) = At(text, 2 * h - 1)
          /\ At(text, 2 * h - 1 - 2 * 2) = At(text, 2 * h - 1)
      BY <2>8, <3>4
    <3>6. 2 * h - 1 - 2 * 1 = i + 2 /\ 2 * h - 1 - 2 * 2 = i /\ 2 * h - 1 = i + 4
      BY <3>2
    <3>7. At(text, i) = At(text, i + 2) /\ At(text, i) = At(text, i + 4)
      BY <3>5, <3>6
    <3>8. Tend - 5 = Len(text) - 5
      BY <2>3
    <3>9. QED BY <3>3, <3>7, <3>8 DEF HasRepetition
  <2>10. ~ReuseLastFound
    BY <2>7, <2>9 DEF ReuseLastFound
  <2>11. ~GiveUp
    BY <2>6, <2>9 DEF GiveUp
  <2>12. ShortRun
    BY <1>4, <2>10, <2>11
  <2>13. QED BY <2>12 DEF ShortRun
<1>5. QED BY <1>1, <1>2, <1>3, <1>4

LEMMA DecidedFacts ==
    ASSUME acsm \in Automata, text \in Texts, NEW x \in Expected, Len(acsm.patterns[x[1]]) # 1
    PROVE  /\ DecidedAt(Len(acsm.patterns[x[1]]), x[2]) \in Nat
           /\ DecidedAt(Len(acsm.patterns[x[1]]), x[2]) % 2 = 0
           /\ DecidedAt(Len(acsm.patterns[x[1]]), x[2]) <= Len(text) + 1
<1>1. /\ x[1] \in DOMAIN acsm.patterns /\ x[2] \in Nat
      /\ OccursAt(acsm.patterns[x[1]], text, x[2])
      /\ Len(acsm.patterns[x[1]]) >= 2
  BY ExpectedElement
<1>2. QED BY <1>1, OccurrenceDecided

LEMMA TurnsFinite ==
    ASSUME acsm \in Automata, text \in Texts, NEW S, S \subseteq Expected
    PROVE  IsFiniteSet(S) /\ Cardinality(S) \in Nat
  BY ExpectedFinite, FS_Subset, FS_CardinalityType

LEMMA TurnsCountOneLen ==
    ASSUME RepPlace, CountsTurns, SnortCountOneLen
    PROVE  CountsTurns'
<1>1. /\ acsm \in Automata /\ text \in Texts /\ T \in Nat
  BY DEF RepPlace
<1>2. /\ acsm' = acsm /\ text' = text /\ T' = T /\ pc = "loop" /\ T < Tend
      /\ pc' = "callback" \/ (pc' = "advance" /\ MatchList = << >>)
      /\ foundCounter' = foundCounter + acsm.oneLenTable[At(text, T)]
                         + IF T + 1 < Tend THEN acsm.oneLenTable[At(text, T + 1)] ELSE 0
  BY DEF SnortCountOneLen, searchVars
<1>3. Expected' = Expected /\ (HasRepetition' <=> HasRepetition)
  BY <1>2 DEF Expected, HasRepetition, Tend, At
<1> DEFINE C == {x \in Expected : HadTurn(x)}
<1>4. ASSUME NEW x \in Expected
      PROVE  HadTurn(x)' <=> HadTurn(x) \/ x \in OneLenHits
  <2>1. x[2] \in Nat
    BY <1>1, ExpectedElement
  <2>2. x \in OneLenHits <=> Len(acsm.patterns[x[1]]) = 1 /\ x[2] \in {T, T + 1}
    BY <1>1, OneLenHitsExpected
  <2>3. CASE Len(acsm.patterns[x[1]]) = 1
    <3>1. HadTurn(x)' <=> x[2] < T + 2
      BY <1>2, <2>3 DEF HadTurn
    <3>2. HadTurn(x) <=> x[2] < T
      BY <1>2, <2>3 DEF HadTurn
    <3>3. x[2] < T + 2 <=> x[2] < T \/ x[2] \in {T, T + 1}
      BY <1>1, <2>1
    <3>4. QED BY <2>2, <2>3, <3>1, <3>2, <3>3
  <2>4. CASE Len(acsm.patterns[x[1]]) # 1
    <3> DEFINE d == DecidedAt(Len(acsm.patterns[x[1]]), x[2])
    <3>1. HadTurn(x) <=> d < T
      BY <1>2, <2>4 DEF HadTurn
    <3>2. HadTurn(x)' <=> d < T \/ (d = T /\ pc' \in {"advance", "done"})
      BY <1>2, <2>4 DEF HadTurn
    <3>3. ~(d = T /\ pc' \in {"advance", "done"})
      <4>1. d = T => x \in Due
        BY <2>4 DEF Due
      <4>2. QED BY <1>2, <4>1, NothingDue
    <3> HIDE DEF d
    <3>4. QED BY <2>2, <2>4, <3>1, <3>2, <3>3
  <2>5. QED BY <2>3, <2>4
<1>5. OneLenHits \subseteq Expected
  BY <1>1, OneLenHitsExpected
<1>6. {x \in Expected : HadTurn(x)}' = C \cup OneLenHits
  BY <1>3, <1>4, <1>5
<1>7. C \cap OneLenHits = {}
  <2>1. SUFFICES ASSUME NEW x \in Expected, HadTurn(x), x \in OneLenHits PROVE FALSE
    OBVIOUS
  <2>2. Len(acsm.patterns[x[1]]) = 1 /\ x[2] \in {T, T + 1}
    BY <1>1, <2>1, OneLenHitsExpected
  <2>3. x[2] < T
    BY <1>2, <2>1, <2>2 DEF HadTurn
  <2>4. QED BY <1>1, <2>2, <2>3
<1>8. C \subseteq Expected
  OBVIOUS
<1> HIDE DEF C
<1>9. IsFiniteSet(C) /\ IsFiniteSet(OneLenHits) /\ Cardinality(C) \in Nat
  BY <1>1, <1>5, <1>8, TurnsFinite
<1>10. Cardinality(C \cup OneLenHits) = Cardinality(C) + Cardinality(OneLenHits)
  BY <1>7, <1>9, DisjointUnion
<1>11. ASSUME ~HasRepetition PROVE foundCounter' = Cardinality(C \cup OneLenHits)
  <2>1. foundCounter = Cardinality(C)
    BY <1>11 DEF CountsTurns, C
  <2>2. foundCounter' = foundCounter + Cardinality(OneLenHits)
    BY <1>1, <1>2, <1>9, <2>1, OneLenHitsSize
  <2>3. QED BY <1>10, <2>1, <2>2
<1>12. QED BY <1>3, <1>6, <1>11 DEF CountsTurns

LEMMA TurnsCallback ==
    ASSUME RepPlace, RunTracked, CountsTurns, fullMatchSnort
    PROVE  CountsTurns'
<1>1. /\ acsm \in Automata /\ text \in Texts /\ T \in Nat
  BY DEF RepPlace
<1>2. /\ acsm' = acsm /\ text' = text /\ T' = T /\ pc = "callback" /\ pc' = "advance"
  BY CallbackReturns
<1>3. Expected' = Expected /\ (HasRepetition' <=> HasRepetition)
  BY <1>2 DEF Expected, HasRepetition, Tend, At
<1> DEFINE C == {x \in Expected : HadTurn(x)}
<1>4. ASSUME NEW x \in Expected
      PROVE  /\ HadTurn(x)' <=> HadTurn(x) \/ x \in Due
             /\ ~(HadTurn(x) /\ x \in Due)
  <2>1. CASE Len(acsm.patterns[x[1]]) = 1
    BY <1>2, <2>1 DEF HadTurn, Due
  <2>2. CASE Len(acsm.patterns[x[1]]) # 1
    <3> DEFINE d == DecidedAt(Len(acsm.patterns[x[1]]), x[2])
    <3>1. HadTurn(x) <=> d < T
      BY <1>2, <2>2 DEF HadTurn
    <3>2. HadTurn(x)' <=> d < T \/ d = T
      BY <1>2, <2>2 DEF HadTurn
    <3>3. x \in Due <=> d = T
      BY <2>2 DEF Due
    <3>4. ~(d < T /\ d = T)
      BY <1>1
    <3> HIDE DEF d
    <3>5. QED BY <3>1, <3>2, <3>3, <3>4
  <2>3. QED BY <2>1, <2>2
<1>5. Due \subseteq Expected
  BY DEF Due
<1>6. {x \in Expected : HadTurn(x)}' = C \cup Due
  BY <1>3, <1>4, <1>5
<1>7. C \cap Due = {} /\ C \subseteq Expected
  BY <1>4
<1> HIDE DEF C
<1>8. IsFiniteSet(C) /\ IsFiniteSet(Due) /\ Cardinality(C) \in Nat
  BY <1>1, <1>5, <1>7, TurnsFinite
<1>9. Cardinality(C \cup Due) = Cardinality(C) + Cardinality(Due)
  BY <1>7, <1>8, DisjointUnion
<1>10. ASSUME ~HasRepetition PROVE foundCounter' = Cardinality(C \cup Due)
  <2>1. foundCounter = Cardinality(C)
    BY <1>10 DEF CountsTurns, C
  <2>2. foundCounter' = foundCounter + Cardinality(Matches)
    BY <1>10, FullMatchAlways DEF SnortFullMatch
  <2>3. Cardinality(Due) = Cardinality(Matches)
    BY DueCount
  <2>4. QED BY <1>9, <2>1, <2>2, <2>3
<1>11. QED BY <1>3, <1>6, <1>10 DEF CountsTurns

(* The steps that count nothing leave the turns alone. *)
LEMMA SameTurns ==
    ASSUME CountsTurns, acsm' = acsm, text' = text, foundCounter' = foundCounter,
           \A x \in Expected : HadTurn(x)' <=> HadTurn(x)
    PROVE  CountsTurns'
<1>1. Expected' = Expected /\ (HasRepetition' <=> HasRepetition)
  BY DEF Expected, HasRepetition, Tend, At
<1>2. {x \in Expected : HadTurn(x)}' = {x \in Expected : HadTurn(x)}
  BY <1>1
<1>3. QED BY <1>1, <1>2 DEF CountsTurns

LEMMA TurnsLeaveLoop ==
    ASSUME RepPlace, CountsTurns, SnortLeaveLoop
    PROVE  CountsTurns'
<1>1. /\ acsm \in Automata /\ text \in Texts
  BY DEF RepPlace
<1>2. /\ acsm' = acsm /\ text' = text /\ T' = T /\ foundCounter' = foundCounter
      /\ pc = "loop" /\ T >= Tend
      /\ pc' = "callback" \/ (pc' = "done" /\ MatchList = << >>)
  BY DEF SnortLeaveLoop, searchVars
<1>3. T \in Nat /\ Tend \in Nat
  BY PlaceFacts DEF RepPlace
<1>4. ASSUME NEW x \in Expected PROVE HadTurn(x)' <=> HadTurn(x)
  <2>1. CASE Len(acsm.patterns[x[1]]) = 1
    <3>1. ~(Len(acsm.patterns[x[1]]) >= 2)
      BY <2>1
    <3>2. x[2] \in Nat /\ x[2] < Tend
      BY <1>1, <3>1, ExpectedElement
    <3>3. HadTurn(x) <=> x[2] < T
      BY <1>2, <2>1 DEF HadTurn
    <3>4. HadTurn(x)' <=> x[2] < T + 2
      BY <1>2, <2>1 DEF HadTurn
    <3>5. x[2] < T /\ x[2] < T + 2
      BY <1>2, <1>3, <3>2
    <3>6. QED BY <3>3, <3>4, <3>5
  <2>2. CASE Len(acsm.patterns[x[1]]) # 1
    <3> DEFINE d == DecidedAt(Len(acsm.patterns[x[1]]), x[2])
    <3>1. HadTurn(x) <=> d < T
      BY <1>2, <2>2 DEF HadTurn
    <3>2. HadTurn(x)' <=> d < T \/ (d = T /\ pc' \in {"advance", "done"})
      BY <1>2, <2>2 DEF HadTurn
    <3>3. d = T => x \in Due
      BY <2>2 DEF Due
    <3>4. ~(d = T /\ pc' \in {"advance", "done"})
      BY <1>2, <3>3, NothingDue
    <3> HIDE DEF d
    <3>5. QED BY <3>1, <3>2, <3>4
  <2>3. QED BY <2>1, <2>2
<1>5. QED BY <1>2, <1>4, SameTurns

LEMMA TurnsAdvance ==
    ASSUME RepPlace, CountsTurns, SnortAdvance
    PROVE  CountsTurns'
<1>1. /\ acsm \in Automata /\ text \in Texts
  BY DEF RepPlace
<1>2. /\ acsm' = acsm /\ text' = text /\ T' = T + 2 /\ foundCounter' = foundCounter
      /\ pc = "advance" /\ pc' = "loop"
  BY DEF SnortAdvance, searchVars
<1>3. PICK h \in Nat : T = 2 * h
  BY PlaceFacts
<1>4. ASSUME NEW x \in Expected PROVE HadTurn(x)' <=> HadTurn(x)
  <2>1. CASE Len(acsm.patterns[x[1]]) = 1
    <3>1. HadTurn(x) <=> x[2] < T + 2
      BY <1>2, <2>1 DEF HadTurn
    <3>2. HadTurn(x)' <=> x[2] < T + 2
      BY <1>2, <2>1 DEF HadTurn
    <3>3. QED BY <3>1, <3>2
  <2>2. CASE Len(acsm.patterns[x[1]]) # 1
    <3> DEFINE d == DecidedAt(Len(acsm.patterns[x[1]]), x[2])
    <3>1. HadTurn(x) <=> d < T \/ d = T
      BY <1>2, <2>2 DEF HadTurn
    <3>2. HadTurn(x)' <=> d < T + 2
      BY <1>2, <2>2 DEF HadTurn
    <3>3. d \in Nat /\ d % 2 = 0
      BY <1>1, <2>2, DecidedFacts
    <3> HIDE DEF d
    <3>4. d < T + 2 <=> d < T \/ d = T
      BY <1>3, <3>3
    <3>5. QED BY <3>1, <3>2, <3>4
  <2>3. QED BY <2>1, <2>2
<1>5. QED BY <1>2, <1>4, SameTurns

LEMMA TurnsEnd ==
    ASSUME RepPlace, CountsTurns, SnortFinish \/ SnortDone \/ UNCHANGED snortVars
    PROVE  CountsTurns'
<1>1. /\ acsm' = acsm /\ text' = text /\ T' = T /\ foundCounter' = foundCounter
      /\ pc' = pc \/ (pc = "advance" /\ pc' = "done")
  BY DEF SnortFinish, SnortDone, snortVars, searchVars
<1>2. ASSUME NEW x \in Expected PROVE HadTurn(x)' <=> HadTurn(x)
  BY <1>1 DEF HadTurn
<1>3. QED BY <1>1, <1>2, SameTurns

LEMMA TurnsStep ==
    ASSUME RepPlace, RunTracked, CountsTurns, [SnortNext]_snortVars
    PROVE  CountsTurns'
<1>1. CASE SnortCountOneLen
  BY <1>1, TurnsCountOneLen
<1>2. CASE SnortLeaveLoop
  BY <1>2, TurnsLeaveLoop
<1>3. CASE fullMatchSnort
  BY <1>3, TurnsCallback
<1>4. CASE SnortAdvance
  BY <1>4, TurnsAdvance
<1>5. CASE SnortFinish \/ SnortDone \/ UNCHANGED snortVars
  BY <1>5, TurnsEnd
<1>6. QED BY <1>1, <1>2, <1>3, <1>4, <1>5 DEF SnortNext

LEMMA TurnsStart == SnortInit => CountsTurns
<1> SUFFICES ASSUME SnortInit PROVE CountsTurns
  OBVIOUS
<1>1. /\ acsm \in Automata /\ text \in Texts /\ pc = "loop" /\ T = 0 /\ foundCounter = 0
  BY DEF SnortInit
<1>2. ASSUME NEW x \in Expected PROVE ~HadTurn(x)
  <2>1. CASE Len(acsm.patterns[x[1]]) = 1
    <3>1. x[2] \in Nat
      BY <1>1, ExpectedElement
    <3>2. HadTurn(x) <=> x[2] < 0
      BY <1>1, <2>1 DEF HadTurn
    <3>3. QED BY <3>1, <3>2
  <2>2. CASE Len(acsm.patterns[x[1]]) # 1
    <3> DEFINE d == DecidedAt(Len(acsm.patterns[x[1]]), x[2])
    <3>1. HadTurn(x) <=> d < 0
      BY <1>1, <2>2 DEF HadTurn
    <3>2. d \in Nat
      BY <1>1, <2>2, DecidedFacts
    <3> HIDE DEF d
    <3>3. QED BY <3>1, <3>2
  <2>3. QED BY <2>1, <2>2
<1>3. {x \in Expected : HadTurn(x)} = {}
  BY <1>2
<1>4. Cardinality({}) = 0
  BY FS_EmptySet
<1>5. QED BY <1>1, <1>3, <1>4 DEF CountsTurns

(* Behind the end of the text everybody has had his turn. *)
LEMMA AllHadTurn ==
    ASSUME RepPlace, CountsTurns
    PROVE  ExactWithoutRepetition
<1>1. SUFFICES ASSUME pc = "done", ~HasRepetition
               PROVE  foundCounter = Cardinality(Expected)
  BY DEF ExactWithoutRepetition
<1>2. /\ acsm \in Automata /\ text \in Texts
  BY DEF RepPlace
<1>3. PICK h \in Nat : T = 2 * h /\ Len(text) \in Nat /\ Tend = Len(text) /\ T >= Len(text)
  BY <1>1, PlaceFacts DEF RepPlace
<1>4. ASSUME NEW x \in Expected PROVE HadTurn(x)
  <2>1. CASE Len(acsm.patterns[x[1]]) = 1
    <3>1. ~(Len(acsm.patterns[x[1]]) >= 2)
      BY <2>1
    <3>2. x[2] \in Nat /\ x[2] < Tend
      BY <1>2, <3>1, ExpectedElement
    <3>3. x[2] < T + 2
      BY <1>3, <3>2
    <3>4. QED BY <1>1, <2>1, <3>3 DEF HadTurn
  <2>2. CASE Len(acsm.patterns[x[1]]) # 1
    <3> DEFINE d == DecidedAt(Len(acsm.patterns[x[1]]), x[2])
    <3>1. HadTurn(x) <=> d < T \/ d = T
      BY <1>1, <2>2 DEF HadTurn
    <3>2. d \in Nat /\ d % 2 = 0 /\ d <= Len(text) + 1
      BY <1>2, <2>2, DecidedFacts
    <3> HIDE DEF d
    <3>3. d < T \/ d = T
      BY <1>3, <3>2
    <3>4. QED BY <3>1, <3>3
  <2>3. QED BY <2>1, <2>2
<1>5. {x \in Expected : HadTurn(x)} = Expected
  BY <1>4
<1>6. QED BY <1>1, <1>5 DEF CountsTurns

(* The search with fullMatchSnort returns the number of occurrences of the *)
(* patterns in every text that never repeats a skipped byte three times,   *)
(* whatever an earlier search has left in the fields and whatever the      *)
(* repetition table of a state holds (method_odd_even_snort.c:574-742).    *)
THEOREM ExactWhereNothingRepeats == SnortSpec => []ExactWithoutRepetition
<1>1. SnortInit => RepPlace /\ RunTracked /\ CountsTurns
  BY RepInit, TurnsStart
<1>2. (RepPlace /\ RunTracked /\ CountsTurns) /\ [SnortNext]_snortVars
        => (RepPlace /\ RunTracked /\ CountsTurns)'
  BY RepPlaceStep, RunTrackedStep, TurnsStep
<1>3. RepPlace /\ CountsTurns => ExactWithoutRepetition
  BY AllHadTurn
<1>4. QED BY <1>1, <1>2, <1>3, PTL DEF SnortSpec

=============================================================================
