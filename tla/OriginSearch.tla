--------------------------- MODULE OriginSearch ---------------------------
(***************************************************************************)
(* The search the odd-even methods are compared with: acsmSearchOrigin     *)
(* over the unsplit automaton, one transition per byte, with the callback  *)
(* originMatch once for every entry of the match list.  Mode 3 (acMode 0)  *)
(* knows every pattern, mode 20 (acMode 10) leaves one-byte patterns out.  *)
(*                                                                         *)
(* At a callback T is one byte past the last byte the automaton read.      *)
(* hits records what each increment of foundCounter stood for.             *)
(***************************************************************************)
EXTENDS SubPattern

CONSTANTS
    Char,
    Automata,   \* compiled automata with two more fields: patterns, the
                \* pattern file, and minLength, the shortest pattern kept
    Texts

INSTANCE Automaton WITH Char <- Char

ASSUME AutomataAssumption ==
    \A a \in Automata :
        /\ AutomatonTyped(a) /\ AutomatonCorrect(a)
        /\ a.patterns \in Seq(Seq(Char) \ {<< >>})
        /\ a.minLength \in {1, 2}
        /\ WholesOf(a.plist, a.patterns, a.minLength)

ASSUME TextsAssumption == Texts \subseteq Seq(Char)

VARIABLES
    acsm,
    text,
    pc,
    T,
    state,
    mlist,          \* position in acsmMatchList[state]
    foundCounter,
    hits

vars == <<acsm, text, pc, T, state, mlist, foundCounter, hits>>

Tend == Len(text)

MatchList == acsm.acsmMatchList[state]

Init ==
    /\ acsm \in Automata
    /\ text \in Texts
    /\ pc = "callback"
    /\ T = 0
    /\ state = 0
    /\ mlist = 1
    /\ foundCounter = 0
    /\ hits = {}

(* Faulty: one callback for the whole match list. *)
OneCallback ==
    LET p == acsm.plist[MatchList[mlist]] IN
    /\ pc = "callback"
    /\ mlist <= Len(MatchList)
    /\ foundCounter' = foundCounter + 1
    /\ hits' = hits \cup {<<p.iid, T - p.start>>}
    /\ mlist' = Len(MatchList) + 1
    /\ UNCHANGED <<acsm, text, pc, T, state>>

(* The callback, for one entry of the match list. *)
originMatch ==
    LET p == acsm.plist[MatchList[mlist]] IN
    /\ pc = "callback"
    /\ mlist <= Len(MatchList)
    /\ foundCounter' = foundCounter + 1
    /\ hits' = hits \cup {<<p.iid, T - p.start>>}
    /\ mlist' = mlist + 1
    /\ UNCHANGED <<acsm, text, pc, T, state>>

(* Faulty: a match sends the automaton back to state 0. *)
AdvanceAfterReset ==
    LET s == IF MatchList = << >> THEN state ELSE 0 IN
    /\ pc = "callback"
    /\ mlist > Len(MatchList)
    /\ T < Tend
    /\ state' = acsm.acsmNextState[s][At(text, T)]
    /\ T' = T + 1
    /\ mlist' = 1
    /\ UNCHANGED <<acsm, text, pc, foundCounter, hits>>

(* Faulty: the stride of the odd-even search. *)
AdvanceByTwo ==
    /\ pc = "callback"
    /\ mlist > Len(MatchList)
    /\ T < Tend
    /\ state' = acsm.acsmNextState[state][At(text, T)]
    /\ T' = T + 2
    /\ mlist' = 1
    /\ UNCHANGED <<acsm, text, pc, foundCounter, hits>>

(* The rest of the loop body: take the transition, T++. *)
Advance ==
    /\ pc = "callback"
    /\ mlist > Len(MatchList)
    /\ T < Tend
    /\ state' = acsm.acsmNextState[state][At(text, T)]
    /\ T' = T + 1
    /\ mlist' = 1
    /\ UNCHANGED <<acsm, text, pc, foundCounter, hits>>

(* Faulty: the state reached with the last byte is not looked at. *)
FinishEarly ==
    /\ pc = "callback"
    /\ T >= Tend
    /\ pc' = "done"
    /\ UNCHANGED <<acsm, text, T, state, mlist, foundCounter, hits>>

(* The match list of the state after the loop has been gone through. *)
Finish ==
    /\ pc = "callback"
    /\ mlist > Len(MatchList)
    /\ T >= Tend
    /\ pc' = "done"
    /\ UNCHANGED <<acsm, text, T, state, mlist, foundCounter, hits>>

Done == pc = "done" /\ UNCHANGED vars

Next == originMatch \/ Advance \/ Finish \/ Done

Spec == Init /\ [][Next]_vars

-----------------------------------------------------------------------------
(* Properties.                                                             *)

TypeOK ==
    /\ acsm \in Automata
    /\ text \in Texts
    /\ pc \in {"callback", "done"}
    /\ T \in 0 .. Tend
    /\ state \in States(acsm)
    /\ mlist \in 1 .. Len(MatchList) + 1
    /\ foundCounter \in Nat

Expected == Occurrences(acsm.patterns, acsm.minLength, text)

(* acsmSearchOrigin, aho_corasick.c:1379-1412: the state stands for the    *)
(* longest string of the trie that the bytes read so far end with.         *)
StateTracksText == IsLongestSuffix(acsm.label, state, SubSeq(text, 1, T))

(* The occurrence x has been passed, or ends at T and its entry of the     *)
(* match list has had its turn.                                            *)
Settled(x) ==
    LET end == x[2] + Len(acsm.patterns[x[1]]) IN
    \/ end < T
    \/ end = T /\ \E j \in 1 .. mlist - 1 : acsm.plist[MatchList[j]].iid = x[1]

(* Exactly the occurrences that end before T, and those that end at T in   *)
(* the order of the match list, are reported; none of them twice.          *)
HitsAreSettledOccurrences ==
    /\ hits = {x \in Expected : Settled(x)}
    /\ foundCounter = Cardinality(hits)

(* originMatch is only a counter, yet the search keeps the promise of the  *)
(* abstract matcher: the count is right at every moment and complete when  *)
(* the search ends.                                                        *)
Matcher == INSTANCE PatternMatcher WITH
    expected <- Expected,
    reported <- hits,
    count    <- foundCounter,
    finished <- (pc = "done")

MatcherSpec == Matcher!Spec

=============================================================================
