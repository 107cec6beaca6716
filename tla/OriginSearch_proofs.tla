------------------------ MODULE OriginSearch_proofs ------------------------
(***************************************************************************)
(* Proofs about OriginSearch and DirtyCount, for every alphabet, every     *)
(* automaton of whole patterns that meets module Automaton, and every      *)
(* text.                                                                   *)
(***************************************************************************)
EXTENDS DirtyCount, SubPattern_proofs, FiniteSetTheorems

-----------------------------------------------------------------------------
(* What the assumptions say of the automaton and the text.                 *)

LEMMA AutomatonFacts ==
    ASSUME NEW a \in Automata
    PROVE  /\ a.acsmNumStates \in Nat \ {0}
           /\ a.acsmNextState \in [States(a) -> [Char -> States(a)]]
           /\ a.label \in [States(a) -> Seq(Char)]
           /\ a.acsmMatchList \in [States(a) -> Seq(DOMAIN a.plist)]
           /\ \A e \in DOMAIN a.plist : a.plist[e].patrn \in Seq(Char)
           /\ a.patterns \in Seq(Seq(Char) \ {<< >>})
           /\ a.minLength \in {1, 2}
  BY AutomataAssumption DEF AutomatonTyped

LEMMA TextFacts ==
    ASSUME NEW t \in Texts
    PROVE  /\ t \in Seq(Char) /\ Len(t) \in Nat
           /\ \A i \in 0 .. Len(t) - 1 : At(t, i) \in Char
<1>1. t \in Seq(Char)
  BY TextsAssumption
<1>2. QED BY <1>1 DEF At

LEMMA EntryFacts ==
    ASSUME NEW a \in Automata, NEW e \in DOMAIN a.plist
    PROVE  /\ a.plist[e].iid \in DOMAIN a.patterns
           /\ Len(a.patterns[a.plist[e].iid]) >= a.minLength
           /\ Len(a.patterns[a.plist[e].iid]) \in Nat \ {0}
           /\ a.plist[e].patrn = a.patterns[a.plist[e].iid]
           /\ a.plist[e].start = Len(a.patterns[a.plist[e].iid])
<1>1. /\ a.plist[e].iid \in DOMAIN a.patterns
      /\ Len(a.patterns[a.plist[e].iid]) >= a.minLength
      /\ a.plist[e] = WholePattern(a.patterns[a.plist[e].iid], a.plist[e].iid)
  BY AutomataAssumption DEF WholesOf
<1>2. a.patterns[a.plist[e].iid] \in Seq(Char) \ {<< >>}
  BY <1>1, AutomatonFacts
<1>3. Len(a.patterns[a.plist[e].iid]) \in Nat \ {0}
  BY <1>2
<1>4. QED BY <1>1, <1>3 DEF WholePattern

-----------------------------------------------------------------------------
(* Type correctness. *)

LEMMA TypeInit == Init => TypeOK
<1> SUFFICES ASSUME Init PROVE TypeOK
  OBVIOUS
<1>1. 0 \in States(acsm)
  BY AutomatonFacts DEF Init, States
<1>2. Len(MatchList) \in Nat
  BY <1>1, AutomatonFacts DEF Init, MatchList
<1>3. Tend \in Nat
  BY TextFacts DEF Init, Tend
<1>4. QED BY <1>1, <1>2, <1>3 DEF Init, TypeOK

LEMMA TypeStep == TypeOK /\ [Next]_vars => TypeOK'
<1> SUFFICES ASSUME TypeOK, [Next]_vars PROVE TypeOK'
  OBVIOUS
<1> USE DEF TypeOK
<1>1. Len(MatchList) \in Nat /\ Tend \in Nat
  BY AutomatonFacts, TextFacts DEF MatchList, Tend
<1>2. CASE originMatch
  BY <1>1, <1>2 DEF originMatch, MatchList, Tend
<1>3. CASE Advance
  <2>1. At(text, T) \in Char
    BY <1>1, <1>3, TextFacts DEF Advance, Tend
  <2>2. state' \in States(acsm)
    BY <1>3, <2>1, AutomatonFacts DEF Advance
  <2>3. Len(MatchList') \in Nat
    BY <1>3, <2>2, AutomatonFacts DEF Advance, MatchList
  <2>4. T' \in 0 .. Tend'
    BY <1>1, <1>3 DEF Advance, Tend
  <2>5. QED BY <1>3, <2>2, <2>3, <2>4 DEF Advance, States
<1>4. CASE Finish
  BY <1>4 DEF Finish, MatchList, Tend
<1>5. CASE UNCHANGED vars
  BY <1>5 DEF vars, MatchList, Tend
<1>6. QED BY <1>2, <1>3, <1>4, <1>5 DEF Next, Done

-----------------------------------------------------------------------------
(* The automaton reads the text.                                           *)

LEMMA TracksNext ==
    ASSUME NEW a \in Automata, NEW t \in Texts, NEW x \in Nat, x < Len(t),
           NEW s \in States(a), Reads(a.label, t, x, s)
    PROVE  Reads(a.label, t, x + 1, a.acsmNextState[s][At(t, x)])
<1> DEFINE c == At(t, x)
           next == a.acsmNextState[s][c]
<1>1. c \in Char /\ next \in States(a)
  BY TextFacts, AutomatonFacts
<1>2. a.label \in [States(a) -> Seq(Char)]
  BY AutomatonFacts
<1>3. IsLongestSuffix(a.label, next, Append(a.label[s], c))
  BY <1>1, AutomataAssumption DEF AutomatonCorrect
<1>4. \A q \in States(a) :
        a.label[q] # << >> => \E u \in States(a) : IsFrontOf(a.label[u], a.label[q])
  BY <1>2, AutomataAssumption DEF AutomatonCorrect, IsTrie
<1>5. PICK n \in States(a) : n = next /\ IsLongestSuffix(a.label, n, Append(a.label[s], c))
  BY <1>1, <1>3
<1>6. Reads(a.label, t, x + 1, n)
  BY <1>1, <1>2, <1>4, <1>5, ReadsNext
<1>7. QED BY <1>5, <1>6

LEMMA TracksIsInvariant ==
    ASSUME TypeOK
    PROVE  StateTracksText <=> Reads(acsm.label, text, T, state)
<1>1. text \in Seq(Char) /\ T \in 0 .. Len(text)
  BY TextFacts DEF TypeOK, Tend
<1>2. /\ DOMAIN acsm.label = States(acsm) /\ state \in States(acsm)
      /\ \A q \in States(acsm) : Len(acsm.label[q]) \in Nat
  BY AutomatonFacts DEF TypeOK
<1>3. \A q \in States(acsm) :
        EndsWith(SubSeq(text, 1, T), acsm.label[q]) <=> PrefixEndsWith(text, T, acsm.label[q])
  BY <1>1, <1>2, PrefixSuffix
<1>4. QED BY <1>2, <1>3 DEF StateTracksText, IsLongestSuffix, Reads

LEMMA StateStep == TypeOK /\ StateTracksText /\ [Next]_vars => StateTracksText'
<1> SUFFICES ASSUME TypeOK, StateTracksText, [Next]_vars PROVE StateTracksText'
  OBVIOUS
<1>1. Reads(acsm.label, text, T, state)
  BY TracksIsInvariant
<1>2. TypeOK'
  BY TypeStep
<1>3. CASE Advance
  <2>1. T < Len(text) /\ T \in Nat
    BY <1>3 DEF Advance, Tend, TypeOK
  <2>2. Reads(acsm.label, text, T + 1, acsm.acsmNextState[state][At(text, T)])
    BY <1>1, <2>1, TracksNext DEF TypeOK
  <2>3. Reads(acsm'.label, text', T', state')
    BY <1>3, <2>2 DEF Advance
  <2>4. /\ text' \in Seq(Char) /\ T' \in 0 .. Len(text')
        /\ DOMAIN acsm'.label = States(acsm') /\ state' \in States(acsm')
        /\ \A q \in States(acsm') : Len(acsm'.label[q]) \in Nat
    BY <1>2, TextFacts, AutomatonFacts DEF TypeOK, Tend
  <2>5. \A q \in States(acsm') :
          EndsWith(SubSeq(text', 1, T'), acsm'.label[q])
            <=> PrefixEndsWith(text', T', acsm'.label[q])
    BY <2>4, PrefixSuffix
  <2>6. QED BY <2>3, <2>4, <2>5 DEF StateTracksText, IsLongestSuffix, Reads
<1>4. CASE UNCHANGED <<acsm, text, T, state>>
  BY <1>4 DEF StateTracksText
<1>5. QED BY <1>3, <1>4 DEF Next, originMatch, Finish, Done, vars

(* The match list of the state names exactly the patterns that end at T.   *)
LEMMA MatchListTracks ==
    ASSUME TypeOK, StateTracksText, NEW e \in DOMAIN acsm.plist
    PROVE  (\E j \in 1 .. Len(MatchList) : MatchList[j] = e)
           <=> PrefixEndsWith(text, T, acsm.plist[e].patrn)
<1> DEFINE w == acsm.plist[e].patrn
<1>0. acsm \in Automata /\ state \in States(acsm) /\ T \in Nat
  BY DEF TypeOK, Tend
<1>1. (\E j \in 1 .. Len(MatchList) : MatchList[j] = e) <=> EndsWith(acsm.label[state], w)
  BY <1>0, AutomataAssumption DEF AutomatonCorrect, ListsSuffixes, MatchList
<1>2. \A q \in States(acsm) : Len(acsm.label[q]) \in Nat
  BY <1>0, AutomatonFacts
<1>3. Reads(acsm.label, text, T, state)
  BY TracksIsInvariant
<1>4. PICK q \in States(acsm) : acsm.label[q] = w
  BY <1>0, AutomatonFacts, AutomataAssumption DEF AutomatonCorrect, IsTrie
<1>5. DOMAIN acsm.label = States(acsm)
  BY <1>0, AutomatonFacts
<1>6. EndsWith(acsm.label[state], w) <=> PrefixEndsWith(text, T, w)
  BY <1>0, <1>2, <1>3, <1>4, <1>5, ReadsLists
<1>7. QED BY <1>1, <1>6

-----------------------------------------------------------------------------
(* The occurrences there are. *)

LEMMA ExpectedElement ==
    ASSUME TypeOK, NEW x \in Expected
    PROVE  /\ x[1] \in DOMAIN acsm.patterns /\ x[2] \in Nat /\ x = <<x[1], x[2]>>
           /\ OccursAt(acsm.patterns[x[1]], text, x[2])
           /\ acsm.patterns[x[1]] \in Seq(Char)
           /\ Len(acsm.patterns[x[1]]) \in Nat \ {0}
           /\ Len(acsm.patterns[x[1]]) >= acsm.minLength
           /\ EndOf(x) \in Nat /\ EndOf(x) > 0 /\ EndOf(x) <= Tend
<1>1. /\ x[1] \in DOMAIN acsm.patterns /\ x[2] \in 0 .. Len(text) /\ x = <<x[1], x[2]>>
      /\ OccursAt(acsm.patterns[x[1]], text, x[2])
      /\ Len(acsm.patterns[x[1]]) >= acsm.minLength
  BY DEF Expected, Occurrences
<1>2. acsm.patterns[x[1]] \in Seq(Char) /\ acsm.patterns[x[1]] # << >>
  BY <1>1, AutomatonFacts DEF TypeOK
<1>3. Len(acsm.patterns[x[1]]) \in Nat \ {0}
  BY <1>2
<1>4. x[2] + Len(acsm.patterns[x[1]]) <= Len(text)
  BY <1>1 DEF OccursAt
<1>5. QED BY <1>1, <1>2, <1>3, <1>4 DEF EndOf, Tend

LEMMA ExpectedFinite ==
    ASSUME TypeOK
    PROVE  IsFiniteSet(Expected)
<1>1. IsFiniteSet(DOMAIN acsm.patterns)
  <2>1. /\ Len(acsm.patterns) \in Nat
        /\ DOMAIN acsm.patterns = 1 .. Len(acsm.patterns)
    BY AutomatonFacts DEF TypeOK
  <2>2. QED BY <2>1, FS_Interval
<1>2. IsFiniteSet(0 .. Len(text))
  BY TextFacts, FS_Interval DEF TypeOK
<1>3. IsFiniteSet((DOMAIN acsm.patterns) \X (0 .. Len(text)))
  BY <1>1, <1>2, FS_Product
<1>4. Expected \in SUBSET ((DOMAIN acsm.patterns) \X (0 .. Len(text)))
  BY DEF Expected, Occurrences
<1>5. QED BY <1>3, <1>4, FS_Subset

(* The entry originMatch is called for, and the occurrence it counts.      *)
Entry == acsm.plist[MatchList[mlist]]

Counts == <<Entry.iid, T - Entry.start>>

LEMMA EntryOccurrence ==
    ASSUME TypeOK, StateTracksText, mlist <= Len(MatchList)
    PROVE  /\ Counts \in Expected
           /\ Counts[1] = Entry.iid
           /\ EndOf(Counts) = T
<1>1. /\ acsm \in Automata /\ text \in Seq(Char) /\ T \in 0 .. Len(text)
      /\ state \in States(acsm) /\ Len(MatchList) \in Nat
      /\ mlist \in 1 .. Len(MatchList)
  BY TextFacts, AutomatonFacts DEF TypeOK, MatchList, Tend
<1>2. MatchList[mlist] \in DOMAIN acsm.plist
  BY <1>1, AutomatonFacts DEF MatchList
<1>3. /\ Entry.iid \in DOMAIN acsm.patterns
      /\ Len(acsm.patterns[Entry.iid]) >= acsm.minLength
      /\ Len(acsm.patterns[Entry.iid]) \in Nat
      /\ Entry.patrn = acsm.patterns[Entry.iid]
      /\ Entry.start = Len(acsm.patterns[Entry.iid])
  BY <1>1, <1>2, EntryFacts DEF Entry
<1>4. acsm.patterns[Entry.iid] \in Seq(Char)
  BY <1>1, <1>3, AutomatonFacts
<1>5. PrefixEndsWith(text, T, acsm.patterns[Entry.iid])
  BY <1>1, <1>2, <1>3, MatchListTracks DEF Entry
<1>6. OccursAt(acsm.patterns[Entry.iid], text, T - Entry.start)
  BY <1>1, <1>3, <1>4, <1>5, EndsWhereItStands
<1>7. T - Entry.start \in 0 .. Len(text)
  <2>1. Len(acsm.patterns[Entry.iid]) <= T
    BY <1>5 DEF PrefixEndsWith
  <2>2. QED BY <2>1, <1>1, <1>3
<1>8. Counts \in Expected
  BY <1>3, <1>6, <1>7 DEF Expected, Occurrences, Counts
<1>9. EndOf(Counts) = T
  BY <1>1, <1>3 DEF EndOf, Counts
<1>10. QED BY <1>8, <1>9 DEF Counts

(* An occurrence that ends at T has an entry in the match list.            *)
LEMMA OccurrenceListed ==
    ASSUME TypeOK, StateTracksText, NEW x \in Expected, EndOf(x) = T
    PROVE  \E j \in 1 .. Len(MatchList) : acsm.plist[MatchList[j]].iid = x[1]
<1>1. /\ acsm \in Automata /\ text \in Seq(Char) /\ T \in 0 .. Len(text)
  BY TextFacts DEF TypeOK, Tend
<1>2. /\ x[1] \in DOMAIN acsm.patterns /\ x[2] \in Nat
      /\ OccursAt(acsm.patterns[x[1]], text, x[2])
      /\ acsm.patterns[x[1]] \in Seq(Char)
      /\ Len(acsm.patterns[x[1]]) \in Nat
      /\ Len(acsm.patterns[x[1]]) >= acsm.minLength
  BY ExpectedElement
<1>3. PICK e \in DOMAIN acsm.plist : acsm.plist[e].iid = x[1]
  BY <1>1, <1>2, AutomataAssumption DEF WholesOf
<1>4. acsm.plist[e].patrn = acsm.patterns[x[1]]
  BY <1>1, <1>3, EntryFacts
<1>5. x[2] = T - Len(acsm.patterns[x[1]])
  <2>1. x[2] + Len(acsm.patterns[x[1]]) = T
    BY DEF EndOf
  <2>2. QED BY <2>1, <1>1, <1>2
<1>6. PrefixEndsWith(text, T, acsm.plist[e].patrn)
  BY <1>1, <1>2, <1>4, <1>5, EndsWhereItStands
<1>7. PICK j \in 1 .. Len(MatchList) : MatchList[j] = e
  BY <1>6, MatchListTracks
<1>8. QED BY <1>3, <1>7

LEMMA EntryUnique ==
    ASSUME TypeOK, NEW j \in 1 .. Len(MatchList), NEW k \in 1 .. Len(MatchList),
           acsm.plist[MatchList[j]].iid = acsm.plist[MatchList[k]].iid
    PROVE  j = k
<1>1. acsm \in Automata /\ state \in States(acsm)
  BY DEF TypeOK
<1>2. MatchList[j] \in DOMAIN acsm.plist /\ MatchList[k] \in DOMAIN acsm.plist
  BY <1>1, AutomatonFacts DEF MatchList
<1>3. MatchList[j] = MatchList[k]
  BY <1>1, <1>2, AutomataAssumption DEF WholesOf
<1>4. QED BY <1>1, <1>3, AutomataAssumption DEF AutomatonCorrect, ListsSuffixes, MatchList

-----------------------------------------------------------------------------
(* What is reported. *)

(* The search ends past the last byte, with the match list gone through.   *)
EndReached == pc = "done" => T >= Tend /\ mlist > Len(MatchList)

SearchInv ==
    /\ TypeOK
    /\ StateTracksText
    /\ HitsAreSettledOccurrences
    /\ EndReached

LEMMA EndStep == EndReached /\ [Next]_vars => EndReached'
  BY DEF EndReached, Next, originMatch, Advance, Finish, Done, vars, Tend, MatchList

LEMMA SettledEnd ==
    ASSUME NEW x
    PROVE  Settled(x) <=> \/ EndOf(x) < T
                          \/ /\ EndOf(x) = T
                             /\ \E j \in 1 .. mlist - 1 : acsm.plist[MatchList[j]].iid = x[1]
  BY DEF Settled, EndOf

(* Once the match list has been gone through, every occurrence that ends   *)
(* at T or before is settled.                                              *)
LEMMA ListedIsSettled ==
    ASSUME TypeOK, StateTracksText, mlist > Len(MatchList), NEW x \in Expected
    PROVE  EndOf(x) \in Nat /\ T \in Nat /\ (Settled(x) <=> EndOf(x) <= T)
<1>1. EndOf(x) \in Nat /\ T \in Nat
  BY ExpectedElement DEF TypeOK, Tend
<1>2. mlist - 1 = Len(MatchList)
  <2>1. Len(MatchList) \in Nat
    BY AutomatonFacts DEF TypeOK, MatchList
  <2>2. QED BY <2>1 DEF TypeOK
<1>3. EndOf(x) = T => Settled(x)
  BY <1>2, OccurrenceListed, SettledEnd
<1>4. QED BY <1>1, <1>3, SettledEnd

LEMMA HitsInit == Init => HitsAreSettledOccurrences
<1> SUFFICES ASSUME Init PROVE HitsAreSettledOccurrences
  OBVIOUS
<1>1. TypeOK
  BY TypeInit
<1>2. ASSUME NEW x \in Expected PROVE ~ Settled(x)
  <2>1. EndOf(x) \in Nat /\ EndOf(x) > 0 /\ T = 0
    BY <1>1, ExpectedElement DEF Init
  <2>2. QED BY <2>1, SettledEnd
<1>3. hits = {} /\ foundCounter = 0
  BY DEF Init
<1>4. QED BY <1>2, <1>3, FS_EmptySet DEF HitsAreSettledOccurrences

(* One callback settles the occurrence its entry stands for.               *)
LEMMA MatchSettles ==
    ASSUME TypeOK, StateTracksText, originMatch, NEW x \in Expected
    PROVE  Settled(x)' <=> Settled(x) \/ x = Counts
<1> DEFINE listed(k) == \E j \in 1 .. k : acsm.plist[MatchList[j]].iid = x[1]
<1>1. /\ acsm' = acsm /\ T' = T /\ state' = state
      /\ mlist <= Len(MatchList) /\ mlist' = mlist + 1
  BY DEF originMatch
<1>2. mlist \in Nat \ {0}
  BY AutomatonFacts DEF TypeOK, MatchList
<1>3. Settled(x)' <=> EndOf(x) < T \/ (EndOf(x) = T /\ listed(mlist))
  <2>1. mlist' - 1 = mlist
    BY <1>1, <1>2
  <2>2. QED BY <1>1, <2>1 DEF Settled, EndOf, MatchList
<1>4. listed(mlist) <=> listed(mlist - 1) \/ Entry.iid = x[1]
  <2>1. 1 .. mlist = (1 .. mlist - 1) \cup {mlist}
    BY <1>2
  <2>2. QED BY <2>1 DEF Entry
<1>5. x = Counts => EndOf(x) = T /\ Entry.iid = x[1]
  BY <1>1, EntryOccurrence
<1>6. ASSUME EndOf(x) = T, Entry.iid = x[1] PROVE x = Counts
  <2>1. /\ x = <<x[1], x[2]>> /\ x[2] \in Nat
        /\ Len(acsm.patterns[x[1]]) \in Nat
    BY ExpectedElement
  <2>2. Entry.start = Len(acsm.patterns[x[1]])
    <3>1. MatchList[mlist] \in DOMAIN acsm.plist
      BY <1>1, <1>2, AutomatonFacts DEF TypeOK, MatchList
    <3>2. QED BY <3>1, <1>6, EntryFacts DEF TypeOK, Entry
  <2>3. x[2] + Len(acsm.patterns[x[1]]) = T
    BY <1>6 DEF EndOf
  <2>4. x[2] = T - Entry.start
    BY <2>1, <2>2, <2>3
  <2>5. QED BY <2>1, <2>4, <1>6 DEF Counts
<1>7. Settled(x) <=> EndOf(x) < T \/ (EndOf(x) = T /\ listed(mlist - 1))
  BY SettledEnd
<1> HIDE DEF listed
<1>8. QED BY <1>3, <1>4, <1>5, <1>6, <1>7

(* No entry reports what an earlier one has reported.                      *)
LEMMA CountsNew ==
    ASSUME TypeOK, StateTracksText, HitsAreSettledOccurrences, originMatch
    PROVE  Counts \notin hits
<1>1. mlist \in 1 .. Len(MatchList) /\ Len(MatchList) \in Nat /\ T \in Nat
  BY AutomatonFacts DEF originMatch, TypeOK, MatchList, Tend
<1>2. EndOf(Counts) = T /\ Counts[1] = Entry.iid
  BY EntryOccurrence DEF originMatch
<1>3. SUFFICES ASSUME Settled(Counts) PROVE FALSE
  BY DEF HitsAreSettledOccurrences
<1>4. PICK j \in 1 .. mlist - 1 : acsm.plist[MatchList[j]].iid = Entry.iid
  BY <1>1, <1>2, <1>3, SettledEnd
<1>5. j \in 1 .. Len(MatchList) /\ j # mlist
  BY <1>1
<1>6. QED BY <1>1, <1>4, <1>5, EntryUnique DEF Entry

LEMMA HitsFinite ==
    ASSUME TypeOK, HitsAreSettledOccurrences
    PROVE  IsFiniteSet(hits)
  BY ExpectedFinite, FS_Subset DEF HitsAreSettledOccurrences

LEMMA HitsOriginMatch ==
    ASSUME TypeOK, StateTracksText, HitsAreSettledOccurrences, originMatch
    PROVE  HitsAreSettledOccurrences'
<1>1. Expected' = Expected
  BY DEF originMatch, Expected
<1>2. /\ hits' = hits \cup {Counts} /\ foundCounter' = foundCounter + 1
      /\ mlist <= Len(MatchList)
  BY DEF originMatch, Counts, Entry
<1>3. Counts \in Expected
  BY <1>2, EntryOccurrence
<1>4. \A x \in Expected : Settled(x)' <=> Settled(x) \/ x = Counts
  BY MatchSettles
<1>5. hits' = {x \in Expected' : Settled(x)'}
  BY <1>1, <1>2, <1>3, <1>4 DEF HitsAreSettledOccurrences
<1>6. Cardinality(hits \cup {Counts}) = Cardinality(hits) + 1
  BY HitsFinite, CountsNew, FS_AddElement
<1>7. foundCounter' = Cardinality(hits')
  BY <1>2, <1>6 DEF HitsAreSettledOccurrences
<1>8. QED BY <1>5, <1>7 DEF HitsAreSettledOccurrences

LEMMA HitsAdvance ==
    ASSUME TypeOK, StateTracksText, HitsAreSettledOccurrences, Advance
    PROVE  HitsAreSettledOccurrences'
<1>1. /\ Expected' = Expected /\ acsm' = acsm /\ hits' = hits
      /\ foundCounter' = foundCounter
      /\ mlist > Len(MatchList) /\ T' = T + 1 /\ mlist' = 1
  BY DEF Advance, Expected
<1>2. ASSUME NEW x \in Expected
      PROVE  Settled(x)' <=> Settled(x)
  <2>1. EndOf(x) \in Nat /\ T \in Nat /\ (Settled(x) <=> EndOf(x) <= T)
    BY <1>1, ListedIsSettled
  <2>2. 1 .. mlist' - 1 = {}
    BY <1>1
  <2>3. Settled(x)' <=> EndOf(x) < T + 1
    BY <1>1, <2>2 DEF Settled, EndOf
  <2>4. QED BY <2>1, <2>3
<1>3. QED BY <1>1, <1>2 DEF HitsAreSettledOccurrences

LEMMA SearchInvInit == Init => SearchInv
<1> SUFFICES ASSUME Init PROVE SearchInv
  OBVIOUS
<1>1. TypeOK
  BY TypeInit
<1>2. StateTracksText
  <2>1. acsm \in Automata /\ T = 0 /\ state = 0
    BY DEF Init
  <2>2. /\ DOMAIN acsm.label = States(acsm) /\ acsm.label[0] = << >>
        /\ \A q \in States(acsm) : Len(acsm.label[q]) \in Nat
    BY <2>1, AutomatonFacts, AutomataAssumption DEF AutomatonCorrect, IsTrie
  <2>3. Reads(acsm.label, text, T, state)
    BY <2>1, <2>2, ReadsStart
  <2>4. QED BY <1>1, <2>3, TracksIsInvariant
<1>3. EndReached
  BY DEF Init, EndReached
<1>4. QED BY <1>1, <1>2, <1>3, HitsInit DEF SearchInv

LEMMA SearchInvStep == SearchInv /\ [Next]_vars => SearchInv'
<1> SUFFICES ASSUME SearchInv, [Next]_vars PROVE SearchInv'
  OBVIOUS
<1> USE DEF SearchInv
<1>1. HitsAreSettledOccurrences'
  <2>1. CASE originMatch
    BY <2>1, HitsOriginMatch
  <2>2. CASE Advance
    BY <2>2, HitsAdvance
  <2>3. CASE UNCHANGED <<acsm, text, T, state, mlist, foundCounter, hits>>
    BY <2>3 DEF HitsAreSettledOccurrences, Expected, Settled, MatchList
  <2>4. QED BY <2>1, <2>2, <2>3 DEF Next, Finish, Done, vars
<1>2. QED BY <1>1, TypeStep, StateStep, EndStep

Complete == pc = "done" => hits = Expected

LEMMA DoneIsComplete == SearchInv => Complete
<1> SUFFICES ASSUME SearchInv, pc = "done" PROVE hits = Expected
  BY DEF Complete
<1> USE DEF SearchInv
<1>1. T >= Tend /\ mlist > Len(MatchList) /\ Tend \in Nat
  BY TextFacts DEF EndReached, TypeOK, Tend
<1>2. ASSUME NEW x \in Expected PROVE Settled(x)
  <2>1. EndOf(x) \in Nat /\ T \in Nat /\ (Settled(x) <=> EndOf(x) <= T)
    BY <1>1, ListedIsSettled
  <2>2. EndOf(x) <= Tend
    BY ExpectedElement
  <2>3. QED BY <1>1, <2>1, <2>2
<1>3. QED BY <1>2 DEF HitsAreSettledOccurrences

-----------------------------------------------------------------------------
(* The theorems. *)

(* Every variable of acsmSearchOrigin keeps its type: acsmNextState and    *)
(* acsmMatchList are never read beyond acsmNumStates, nor the text beyond  *)
(* its last byte.                                                          *)
THEOREM TypeCorrect == Spec => []TypeOK
<1>1. QED BY TypeInit, TypeStep, PTL DEF Spec

(* The inductive invariant of acsmSearchOrigin: types, the tracking of the *)
(* text, the settled occurrences with the counter, and where it stops.     *)
THEOREM SearchInvariant == Spec => []SearchInv
<1>1. QED BY SearchInvInit, SearchInvStep, PTL DEF Spec

(* For every automaton the construction may deliver and every text: the    *)
(* state of acsmSearchOrigin stands for the longest string of the trie     *)
(* that the bytes read so far end with.                                    *)
THEOREM StateTracked == Spec => []StateTracksText
<1>1. SearchInv => StateTracksText
  BY DEF SearchInv
<1>2. QED BY <1>1, SearchInvariant, PTL

(* At every moment originMatch has counted exactly the occurrences that    *)
(* end before the bytes read or whose entry has had its turn, each once.   *)
THEOREM HitsCorrect == Spec => []HitsAreSettledOccurrences
<1>1. SearchInv => HitsAreSettledOccurrences
  BY DEF SearchInv
<1>2. QED BY <1>1, SearchInvariant, PTL

-----------------------------------------------------------------------------
(* Refinement. *)

LEMMA ReportStep ==
    ASSUME SearchInv, SearchInv', acsm' = acsm, text' = text, pc # "done", pc' # "done",
           hits \subseteq hits'
    PROVE  Matcher!Report
<1>1. Expected' = Expected
  BY DEF Expected
<1>2. hits' \subseteq Expected
  BY <1>1 DEF SearchInv, HitsAreSettledOccurrences
<1>3. foundCounter = Cardinality(hits) /\ foundCounter' = Cardinality(hits')
  BY DEF SearchInv, HitsAreSettledOccurrences
<1>4. IsFiniteSet(hits) /\ IsFiniteSet(hits')
  BY <1>2, ExpectedFinite, HitsFinite, FS_Subset DEF SearchInv
<1>5. Cardinality(hits' \ hits) = Cardinality(hits') - Cardinality(hits)
  <2>1. Cardinality(hits' \ hits) = Cardinality(hits') - Cardinality(hits' \cap hits)
    BY <1>4, FS_Difference
  <2>2. hits' \cap hits = hits
    OBVIOUS
  <2>3. QED BY <2>1, <2>2
<1>6. foundCounter' = foundCounter + Cardinality(hits' \ hits)
  <2>1. Cardinality(hits) \in Nat /\ Cardinality(hits') \in Nat
    BY <1>4, FS_CardinalityType
  <2>2. QED BY <1>3, <1>5, <2>1
<1>7. Matcher!Cardinality(hits' \ hits) = Cardinality(hits' \ hits)
  BY Zenon DEF Cardinality, Matcher!Cardinality
<1>8. QED BY <1>1, <1>2, <1>6, <1>7 DEF Matcher!Report

LEMMA RefinementInit == Init => Matcher!Init
<1> SUFFICES ASSUME Init PROVE Matcher!Init
  OBVIOUS
<1>1. IsFiniteSet(Expected)
  BY TypeInit, ExpectedFinite
<1>2. Matcher!IsFiniteSet(Expected)
  BY <1>1, Zenon DEF IsFiniteSet, Matcher!IsFiniteSet
<1>3. QED BY <1>2 DEF Init, Matcher!Init

LEMMA RefinementStep ==
    SearchInv /\ SearchInv' /\ [Next]_vars => [Matcher!Next]_(Matcher!matcherVars)
<1> SUFFICES ASSUME SearchInv, SearchInv', [Next]_vars
             PROVE  [Matcher!Next]_(Matcher!matcherVars)
  OBVIOUS
<1>1. CASE originMatch
  <2>1. hits \subseteq hits'
    BY <1>1 DEF originMatch
  <2>2. QED BY <1>1, <2>1, ReportStep DEF originMatch, Matcher!Next
<1>2. CASE Advance
  BY <1>2, ReportStep DEF Advance, Matcher!Next
<1>3. CASE Finish
  <2>1. Expected' = Expected /\ hits' = hits /\ foundCounter' = foundCounter /\ pc' = "done"
    BY <1>3 DEF Finish, Expected
  <2>2. Complete'
    BY DoneIsComplete, PTL
  <2>3. hits = Expected
    BY <2>1, <2>2 DEF Complete
  <2>4. QED BY <2>1, <2>3 DEF Matcher!Next, Matcher!Finish
<1>4. CASE UNCHANGED vars
  BY <1>4 DEF vars, Matcher!matcherVars, Expected
<1>5. QED BY <1>1, <1>2, <1>3, <1>4 DEF Next, Done

(* acsmSearchOrigin implements the abstract matcher: every increment of    *)
(* foundCounter reports an occurrence that is there and has not been       *)
(* reported before, and the search ends only when all have been.           *)
THEOREM SearchRefinesMatcher == Spec => MatcherSpec
<1>1. QED BY RefinementInit, RefinementStep, SearchInvariant, PTL
          DEF Spec, MatcherSpec, Matcher!Spec

-----------------------------------------------------------------------------
(* Mode 24: the bytes that belong to a match.                              *)

LEMMA SmallestOf ==
    ASSUME NEW S, S \subseteq Nat, S # {}
    PROVE  Min(S) \in S /\ \A y \in S : Min(S) <= y
  BY SmallestNumber DEF Min

LEMMA LargestOf ==
    ASSUME NEW S, S \subseteq Nat, S # {}, NEW n \in Nat, \A x \in S : x <= n
    PROVE  Max(S) \in S /\ \A y \in S : y <= Max(S)
<1>1. PICK x \in S : \A y \in S : y <= x
  BY LargestNumber
<1>2. \A y \in S : x >= y
  BY <1>1
<1>3. Max(S) \in S /\ \A y \in S : Max(S) >= y
  BY <1>2 DEF Max
<1>4. QED BY <1>3

(* What an entry of the match list stands for.                             *)
LEMMA ListedOccurrence ==
    ASSUME TypeOK, StateTracksText, NEW j \in 1 .. Len(MatchList),
           NEW l, l = Len(acsm.plist[MatchList[j]].patrn)
    PROVE  /\ l \in Nat \ {0} /\ l <= T
           /\ \E x \in Expected : EndOf(x) = T /\ x[2] = T - l
<1> DEFINE e == MatchList[j]
           p == acsm.plist[e]
<1>1. /\ acsm \in Automata /\ text \in Seq(Char) /\ T \in 0 .. Len(text)
      /\ state \in States(acsm) /\ Len(MatchList) \in Nat
  BY TextFacts, AutomatonFacts DEF TypeOK, MatchList, Tend
<1>2. e \in DOMAIN acsm.plist
  BY <1>1, AutomatonFacts DEF MatchList
<1>3. /\ p.iid \in DOMAIN acsm.patterns
      /\ Len(acsm.patterns[p.iid]) >= acsm.minLength
      /\ l = Len(acsm.patterns[p.iid])
      /\ l \in Nat \ {0}
      /\ p.patrn = acsm.patterns[p.iid]
  BY <1>1, <1>2, EntryFacts
<1>4. acsm.patterns[p.iid] \in Seq(Char)
  BY <1>1, <1>3, AutomatonFacts
<1>5. PrefixEndsWith(text, T, acsm.patterns[p.iid])
  BY <1>1, <1>2, <1>3, MatchListTracks
<1>6. OccursAt(acsm.patterns[p.iid], text, T - l)
  BY <1>1, <1>3, <1>4, <1>5, EndsWhereItStands
<1>7. l <= T
  BY <1>3, <1>5 DEF PrefixEndsWith
<1> HIDE DEF p
<1>8. PICK x : x = <<p.iid, T - l>>
  OBVIOUS
<1>9. T - l \in 0 .. Len(text)
  BY <1>1, <1>3, <1>7
<1>10. x \in Expected
  BY <1>3, <1>6, <1>8, <1>9 DEF Expected, Occurrences
<1>11. EndOf(x) = T /\ x[2] = T - l
  BY <1>1, <1>3, <1>8 DEF EndOf
<1>12. QED BY <1>3, <1>7, <1>10, <1>11

(* acsmCaleCountDirty: among the occurrences that end at T, one is as long *)
(* as what it returns, and none is longer.                                 *)
LEMMA LongestListed ==
    ASSUME TypeOK, StateTracksText, mlist <= Len(MatchList)
    PROVE  /\ maxLengthGroup(acsm, state) \in Nat
           /\ 0 < maxLengthGroup(acsm, state) /\ maxLengthGroup(acsm, state) <= T
           /\ \E x \in Expected :
                EndOf(x) = T /\ x[2] = T - maxLengthGroup(acsm, state)
           /\ \A x \in Expected :
                EndOf(x) = T => T - maxLengthGroup(acsm, state) <= x[2]
<1> DEFINE len(j) == Len(acsm.plist[MatchList[j]].patrn)
           D == 1 .. Len(MatchList)
           S == {0} \cup {len(j) : j \in D}
<1>1. /\ acsm \in Automata /\ T \in Nat /\ state \in States(acsm)
      /\ Len(MatchList) \in Nat /\ mlist \in D
      /\ MatchList \in Seq(DOMAIN acsm.plist)
  BY AutomatonFacts DEF TypeOK, MatchList, Tend
<1>2. maxLengthGroup(acsm, state) = Max(S)
  <2>1. DOMAIN MatchList = D
    BY <1>1
  <2>2. QED BY <2>1 DEF maxLengthGroup, MatchList
<1>3. \A j \in D : /\ len(j) \in Nat \ {0} /\ len(j) <= T
                   /\ \E x \in Expected : EndOf(x) = T /\ x[2] = T - len(j)
  BY ListedOccurrence
<1>4. ASSUME NEW x \in Expected, EndOf(x) = T
      PROVE  \E j \in D : len(j) = T - x[2]
  <2>1. PICK j \in D : acsm.plist[MatchList[j]].iid = x[1]
    BY <1>4, OccurrenceListed
  <2>2. MatchList[j] \in DOMAIN acsm.plist
    BY <1>1
  <2>3. acsm.plist[MatchList[j]].patrn = acsm.patterns[x[1]]
    BY <1>1, <2>1, <2>2, EntryFacts
  <2>4. /\ Len(acsm.patterns[x[1]]) \in Nat /\ x[2] \in Nat
        /\ T = x[2] + Len(acsm.patterns[x[1]])
    BY <1>4, ExpectedElement DEF EndOf
  <2>5. len(j) = Len(acsm.patterns[x[1]])
    BY <2>3
  <2>6. Len(acsm.patterns[x[1]]) = T - x[2]
    BY <1>1, <2>4
  <2>7. QED BY <2>5, <2>6
<1> HIDE DEF len, D
<1>5. S \subseteq Nat /\ S # {} /\ \A k \in S : k <= T
  BY <1>1, <1>3
<1>6. Max(S) \in S /\ \A k \in S : k <= Max(S)
  BY <1>1, <1>5, LargestOf
<1>7. PICK m : m = Max(S)
  OBVIOUS
<1>8. len(mlist) \in S /\ len(mlist) \in Nat \ {0}
  BY <1>1, <1>3
<1>9. m \in Nat /\ 0 < m /\ m <= T
  <2>1. m \in Nat /\ len(mlist) <= m /\ m <= T
    BY <1>5, <1>6, <1>7, <1>8
  <2>2. QED BY <1>8, <2>1
<1>10. PICK j \in D : m = len(j)
  <2>1. m # 0
    BY <1>9
  <2>2. QED BY <1>6, <1>7, <2>1, Zenon
<1>11. \E x \in Expected : EndOf(x) = T /\ x[2] = T - m
  BY <1>3, <1>10
<1>12. ASSUME NEW x \in Expected, EndOf(x) = T PROVE T - m <= x[2]
  <2>1. PICK k \in D : len(k) = T - x[2]
    BY <1>4, <1>12
  <2>2. len(k) <= m
    BY <1>6, <1>7
  <2>3. x[2] \in Nat
    BY ExpectedElement
  <2>4. QED BY <1>1, <1>9, <2>1, <2>2, <2>3
<1>13. QED BY <1>2, <1>7, <1>9, <1>11, <1>12

(* DirtyBytes, as a function of the matches and the place reached.         *)
Dirty(h, t) ==
    {b \in 0 .. t - 1 :
        /\ \E x \in h : EndOf(x) > b
        /\ \E x \in Expected :
            EndOf(x) = Min({e \in {EndOf(y) : y \in h} : e > b}) /\ x[2] <= b}

LEMMA DirtyIs == DirtyBytes = Dirty(hits, T)
  BY DEF DirtyBytes, Dirty, NextEnd

(* lastPosition is the end of the last match, 0 when there is none.        *)
LastEnd ==
    /\ lastPosition \in Nat
    /\ \A x \in hits : EndOf(x) <= lastPosition
    /\ lastPosition = 0 \/ \E x \in hits : EndOf(x) = lastPosition

(* The inductive invariant of mode 24.                                     *)
DirtyInv == SearchInv /\ LastEnd /\ DirtyBytesOnce

LEMMA HitsEnd ==
    ASSUME SearchInv, NEW x \in hits
    PROVE  x \in Expected /\ EndOf(x) \in Nat /\ EndOf(x) <= T
<1>1. x \in Expected /\ Settled(x) /\ T \in Nat
  BY DEF SearchInv, HitsAreSettledOccurrences, TypeOK, Tend
<1>2. EndOf(x) \in Nat
  BY <1>1, ExpectedElement DEF SearchInv
<1>3. QED BY <1>1, <1>2, SettledEnd

LEMMA LastEndBound ==
    ASSUME SearchInv, LastEnd
    PROVE  lastPosition \in Nat /\ lastPosition <= T /\ T \in Nat
<1>1. T \in Nat
  BY DEF SearchInv, TypeOK, Tend
<1>2. QED BY <1>1, HitsEnd DEF LastEnd

LEMMA DirtyFinite ==
    ASSUME NEW h, NEW t \in Nat
    PROVE  IsFiniteSet(Dirty(h, t)) /\ Cardinality(Dirty(h, t)) \in Nat
<1>1. IsFiniteSet(0 .. t - 1)
  BY FS_Interval
<1>2. Dirty(h, t) \subseteq 0 .. t - 1
  BY DEF Dirty
<1>3. IsFiniteSet(Dirty(h, t))
  BY <1>1, <1>2, FS_Subset
<1>4. QED BY <1>3, FS_CardinalityType

(* Behind the last match no byte is dirty.                                 *)
LEMMA DirtyBelowLast ==
    ASSUME SearchInv, LastEnd, NEW t \in Nat, NEW b \in Dirty(hits, t)
    PROVE  b \in Nat /\ b < lastPosition
<1>1. b \in Nat /\ \E x \in hits : EndOf(x) > b
  BY DEF Dirty
<1>2. QED BY <1>1, HitsEnd DEF LastEnd

(* A match that ends at T changes nothing for the bytes before the end of  *)
(* an earlier one.                                                         *)
LEMMA DirtyBefore ==
    ASSUME SearchInv, LastEnd, NEW x, EndOf(x) = T,
           NEW b \in 0 .. T - 1, b < lastPosition
    PROVE  b \in Dirty(hits \cup {x}, T) <=> b \in Dirty(hits, T)
<1> DEFINE E(h) == {e \in {EndOf(y) : y \in h} : e > b}
<1>1. T \in Nat /\ lastPosition \in Nat /\ b \in Nat
  BY LastEndBound
<1>2. \A y \in hits : EndOf(y) \in Nat /\ EndOf(y) <= T
  BY HitsEnd
<1>3. PICK z \in hits : EndOf(z) > b
  BY <1>1 DEF LastEnd
<1>4. PICK A : A = E(hits)
  OBVIOUS
<1>5. A \subseteq Nat /\ A # {} /\ \A e \in A : e <= T
  BY <1>2, <1>3, <1>4
<1>6. E(hits \cup {x}) = A \cup {T}
  BY <1>1, <1>4
<1>7. Min(A) \in A /\ \A e \in A : Min(A) <= e
  BY <1>5, SmallestOf
<1>8. /\ Min(A \cup {T}) \in A \cup {T}
      /\ \A e \in A \cup {T} : Min(A \cup {T}) <= e
  <2>1. A \cup {T} \subseteq Nat /\ A \cup {T} # {}
    BY <1>1, <1>5
  <2>2. QED BY <2>1, SmallestOf
<1>9. Min(A \cup {T}) = Min(A)
  <2>1. PICK u, v : u = Min(A) /\ v = Min(A \cup {T})
    OBVIOUS
  <2>2. u \in Nat /\ v \in Nat /\ u <= T /\ v <= u
    BY <1>1, <1>5, <1>7, <1>8, <2>1
  <2>3. u <= v
    BY <1>1, <1>7, <1>8, <2>1, <2>2
  <2>4. QED BY <2>1, <2>2, <2>3
<1>10. Min(E(hits \cup {x})) = Min(E(hits))
  BY <1>4, <1>6, <1>9
<1>11. \E y \in hits \cup {x} : EndOf(y) > b
  BY <1>3
<1>12. QED BY <1>3, <1>10, <1>11 DEF Dirty

(* Behind it the next end is T.                                            *)
LEMMA DirtyBehind ==
    ASSUME SearchInv, LastEnd, NEW x, EndOf(x) = T, mlist <= Len(MatchList),
           NEW b \in 0 .. T - 1, lastPosition <= b
    PROVE  /\ b \in Dirty(hits \cup {x}, T) <=> T - maxLengthGroup(acsm, state) <= b
           /\ b \notin Dirty(hits, T)
<1> DEFINE E(h) == {e \in {EndOf(y) : y \in h} : e > b}
           m == maxLengthGroup(acsm, state)
<1>1. T \in Nat /\ lastPosition \in Nat /\ b \in Nat /\ b < T
  BY LastEndBound
<1>2. \A y \in hits : EndOf(y) \in Nat /\ EndOf(y) <= b
  BY <1>1, HitsEnd DEF LastEnd
<1>3. E(hits \cup {x}) = {T}
  BY <1>1, <1>2
<1>4. Min({T}) = T
  BY <1>1, SmallestOf
<1>5. /\ m \in Nat
      /\ \E y \in Expected : EndOf(y) = T /\ y[2] = T - m
      /\ \A y \in Expected : EndOf(y) = T => T - m <= y[2]
  BY LongestListed DEF SearchInv
<1> HIDE DEF m
<1>6. (\E y \in Expected : EndOf(y) = T /\ y[2] <= b) <=> T - m <= b
  <2>1. \A y \in Expected : y[2] \in Nat
    BY ExpectedElement DEF SearchInv
  <2>2. QED BY <1>1, <1>5, <2>1
<1>7. \E y \in hits \cup {x} : EndOf(y) > b
  BY <1>1
<1>8. b \in Dirty(hits \cup {x}, T) <=> T - m <= b
  BY <1>3, <1>4, <1>6, <1>7 DEF Dirty
<1>9. b \notin Dirty(hits, T)
  BY <1>1, DirtyBelowLast
<1>10. QED BY <1>8, <1>9 DEF m

(* One call of fulllMatchCountDirty.                                       *)
LEMMA DirtyMatch ==
    ASSUME DirtyInv, fulllMatchCountDirty
    PROVE  LastEnd' /\ DirtyBytesOnce'
<1>1. SearchInv /\ LastEnd /\ DirtyBytesOnce
  BY DEF DirtyInv
<1>2. /\ originMatch /\ mlist <= Len(MatchList) /\ hits' = hits \cup {Counts}
      /\ acsm' = acsm /\ text' = text /\ T' = T
  BY DEF fulllMatchCountDirty, originMatch, Counts, Entry
<1>3. Counts \in Expected /\ EndOf(Counts) = T
  BY <1>1, <1>2, EntryOccurrence DEF SearchInv
<1>4. T \in Nat /\ lastPosition \in Nat /\ lastPosition <= T
  BY <1>1, LastEndBound
<1>5. PICK m \in Nat : m = maxLengthGroup(acsm, state) /\ 0 < m /\ m <= T
  BY <1>1, <1>2, LongestListed DEF SearchInv
<1>6. PICK n \in Nat : n = lastPosition /\ n <= T
  BY <1>4
<1>7. PICK k \in Nat : k = Min({m, T - n}) /\ k <= m /\ k <= T - n /\ (k = m \/ k = T - n)
  <2>1. {m, T - n} \subseteq Nat /\ {m, T - n} # {}
    BY <1>4, <1>6
  <2>2. QED BY <2>1, SmallestOf
<1>8. lastPosition' = T /\ countDirtyCharacter' = countDirtyCharacter + k
  BY <1>5, <1>6, <1>7 DEF fulllMatchCountDirty
<1>9. \A x : EndOf(x)' = EndOf(x)
  BY <1>2 DEF EndOf
<1>10. LastEnd'
  <2>1. \A x \in hits' : EndOf(x) <= T
    BY <1>1, <1>2, <1>3, <1>4, HitsEnd
  <2>2. \E x \in hits' : EndOf(x) = T
    BY <1>2, <1>3
  <2>3. QED BY <1>4, <1>8, <1>9, <2>1, <2>2 DEF LastEnd
<1>11. DirtyBytes' = Dirty(hits', T)
  <2>1. Expected' = Expected
    BY <1>2 DEF Expected
  <2>2. QED BY <1>2, <1>9, <2>1 DEF DirtyBytes, NextEnd, Dirty, EndOf
<1> DEFINE new == T - k .. T - 1
<1>12. Dirty(hits', T) = Dirty(hits, T) \cup new
  <2>1. Dirty(hits, T) \subseteq 0 .. T - 1 /\ Dirty(hits', T) \subseteq 0 .. T - 1
    BY DEF Dirty
  <2>2. new \subseteq 0 .. T - 1
    BY <1>4, <1>5, <1>7
  <2>3. ASSUME NEW b \in 0 .. T - 1
        PROVE  b \in Dirty(hits', T) <=> b \in Dirty(hits, T) \cup new
    <3>1. CASE b < n
      <4>1. b \in Dirty(hits', T) <=> b \in Dirty(hits, T)
        BY <1>1, <1>2, <1>3, <1>6, <3>1, DirtyBefore
      <4>2. b \notin new
        BY <1>4, <1>6, <1>7, <3>1
      <4>3. QED BY <4>1, <4>2
    <3>2. CASE n <= b
      <4>1. (b \in Dirty(hits', T) <=> T - m <= b) /\ b \notin Dirty(hits, T)
        BY <1>1, <1>2, <1>3, <1>5, <1>6, <3>2, DirtyBehind
      <4>2. b \in new <=> T - m <= b
        BY <1>4, <1>5, <1>6, <1>7, <3>2
      <4>3. QED BY <4>1, <4>2
    <3>3. QED BY <1>6, <3>1, <3>2
  <2> HIDE DEF new
  <2>4. QED BY <2>1, <2>2, <2>3
<1>13. IsFiniteSet(new) /\ Cardinality(new) = k
  <2>1. T - k \in Int /\ T - 1 \in Int
    BY <1>4
  <2>2. IsFiniteSet(new) /\ Cardinality(new) = IF T - k > T - 1 THEN 0 ELSE (T - 1) - (T - k) + 1
    BY <2>1, FS_Interval
  <2>3. QED BY <1>4, <2>2
<1>14. Dirty(hits, T) \cap new = {}
  <2>1. ASSUME NEW b \in Dirty(hits, T), b \in new PROVE FALSE
    <3>1. b \in Nat /\ b < n
      BY <1>1, <1>4, <1>6, DirtyBelowLast
    <3>2. T - k <= b
      BY <1>4, <2>1
    <3>3. QED BY <1>4, <1>6, <1>7, <3>1, <3>2
  <2>2. QED BY <2>1
<1> HIDE DEF new
<1>15. Cardinality(Dirty(hits, T) \cup new) = Cardinality(Dirty(hits, T)) + k
  <2>1. IsFiniteSet(Dirty(hits, T)) /\ Cardinality(Dirty(hits, T)) \in Nat
    BY <1>4, DirtyFinite
  <2>2. Cardinality(Dirty(hits, T) \cup new)
          = Cardinality(Dirty(hits, T)) + Cardinality(new) - Cardinality({})
    BY <1>13, <1>14, <2>1, FS_Union
  <2>3. QED BY <1>13, <2>1, <2>2, FS_EmptySet
<1>16. DirtyBytesOnce'
  BY <1>1, <1>8, <1>11, <1>12, <1>15, DirtyIs DEF DirtyBytesOnce
<1>17. QED BY <1>10, <1>16

(* Where nothing is counted, T alone changes, and no match ends behind it. *)
LEMMA DirtyElsewhere ==
    ASSUME DirtyInv, acsm' = acsm, text' = text, hits' = hits, T' \in {T, T + 1},
           lastPosition' = lastPosition, countDirtyCharacter' = countDirtyCharacter
    PROVE  LastEnd' /\ DirtyBytesOnce'
<1>1. SearchInv /\ LastEnd /\ DirtyBytesOnce
  BY DEF DirtyInv
<1>2. T \in Nat /\ lastPosition \in Nat /\ lastPosition <= T
  BY <1>1, LastEndBound
<1>3. (\A x : EndOf(x)' = EndOf(x)) /\ Expected' = Expected
  BY DEF EndOf, Expected
<1>4. LastEnd'
  BY <1>1, <1>3 DEF LastEnd
<1>5. PICK t \in Nat : t = T' /\ (t = T \/ t = T + 1)
  BY <1>2
<1>6. DirtyBytes' = Dirty(hits, t)
  BY <1>3, <1>5 DEF DirtyBytes, NextEnd, Dirty, EndOf
<1>7. PICK n \in Nat : n = T /\ n <= t
  <2>1. t = T \/ t = T + 1
    BY <1>5
  <2>2. QED BY <1>2, <2>1
<1>8. ASSUME NEW b \in Dirty(hits, t) PROVE b \in Dirty(hits, T)
  <2>1. b \in Nat /\ b < T
    BY <1>1, <1>2, DirtyBelowLast
  <2>2. b \in 0 .. T - 1
    BY <1>2, <2>1
  <2>3. QED BY <2>2 DEF Dirty
<1>9. Dirty(hits, t) = Dirty(hits, T)
  <2>1. ASSUME NEW b \in Dirty(hits, T) PROVE b \in Dirty(hits, t)
    <3>1. b \in 0 .. T - 1
      BY DEF Dirty
    <3>2. b \in 0 .. t - 1
      BY <1>7, <3>1
    <3>3. QED BY <3>2 DEF Dirty
  <2>2. QED BY <1>8, <2>1
<1>10. QED BY <1>1, <1>4, <1>6, <1>9, DirtyIs DEF DirtyBytesOnce

LEMMA DirtyInvInit == DirtyInit => DirtyInv
<1> SUFFICES ASSUME DirtyInit PROVE DirtyInv
  OBVIOUS
<1>1. Init /\ lastPosition = 0 /\ countDirtyCharacter = 0 /\ T = 0 /\ hits = {}
  BY DEF DirtyInit, Init
<1>2. SearchInv
  BY <1>1, SearchInvInit
<1>3. LastEnd
  BY <1>1 DEF LastEnd
<1>4. DirtyBytes = {}
  BY <1>1 DEF DirtyBytes
<1>5. QED BY <1>1, <1>2, <1>3, <1>4, FS_EmptySet DEF DirtyInv, DirtyBytesOnce

LEMMA DirtyInvStep == DirtyInv /\ [DirtyNext]_dirtyVars => DirtyInv'
<1> SUFFICES ASSUME DirtyInv, [DirtyNext]_dirtyVars PROVE DirtyInv'
  OBVIOUS
<1>1. [Next]_vars
  BY DEF DirtyNext, Next, fulllMatchCountDirty, dirtyVars
<1>2. SearchInv'
  BY <1>1, SearchInvStep DEF DirtyInv
<1>3. CASE fulllMatchCountDirty
  BY <1>2, <1>3, DirtyMatch DEF DirtyInv
<1>4. CASE Advance /\ UNCHANGED <<lastPosition, countDirtyCharacter>>
  <2>1. /\ acsm' = acsm /\ text' = text /\ hits' = hits /\ T' = T + 1
        /\ lastPosition' = lastPosition /\ countDirtyCharacter' = countDirtyCharacter
    BY <1>4 DEF Advance
  <2>2. QED BY <1>2, <2>1, DirtyElsewhere DEF DirtyInv
<1>5. CASE \/ Finish /\ UNCHANGED <<lastPosition, countDirtyCharacter>>
           \/ Done /\ UNCHANGED <<lastPosition, countDirtyCharacter>>
           \/ UNCHANGED dirtyVars
  <2>1. /\ acsm' = acsm /\ text' = text /\ hits' = hits /\ T' = T
        /\ lastPosition' = lastPosition /\ countDirtyCharacter' = countDirtyCharacter
    BY <1>5 DEF Finish, Done, dirtyVars, vars
  <2>2. QED BY <1>2, <2>1, DirtyElsewhere DEF DirtyInv
<1>6. QED BY <1>3, <1>4, <1>5 DEF DirtyNext

(* fulllMatchCountDirty adds every dirty byte exactly once, however the    *)
(* matches overlap and nest and however many end at one place: what it has *)
(* added is at every moment the number of dirty bytes of the text read.    *)
THEOREM DirtyCounted == DirtySpec => []DirtyBytesOnce
<1>1. DirtyInv => DirtyBytesOnce
  BY DEF DirtyInv
<1>2. QED BY <1>1, DirtyInvInit, DirtyInvStep, PTL DEF DirtySpec

=============================================================================
