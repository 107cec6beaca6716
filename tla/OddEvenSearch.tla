--------------------------- MODULE OddEvenSearch ---------------------------
(***************************************************************************)
(* The two-phase search over a compiled odd-even automaton with the exact  *)
(* full match: modes 21 (with one-byte patterns, acMode 11) and 23         *)
(* (without, acMode 13).  The first phase feeds every second byte of the   *)
(* text to the automaton; whenever a half is complete, the second phase,   *)
(* fullMatchOrigin, compares the other half with the bytes skipped.        *)
(*                                                                         *)
(* hits records what each increment of foundCounter stood for; no action   *)
(* reads it.                                                               *)
(***************************************************************************)
EXTENDS TwoPhaseSearch

VARIABLES
    mlist,          \* position in acsmMatchList[state]
    hits

vars == <<acsm, text, pc, T, state, mlist, foundCounter, hits>>

Init ==
    /\ acsm \in Automata
    /\ text \in Texts
    /\ pc = "loop"
    /\ T = 0
    /\ state = 0
    /\ mlist = 1
    /\ foundCounter = 0
    /\ hits = {}

(* One pass of the loop: one-byte patterns are counted for the byte the    *)
(* automaton reads next and for the one after it, if there is one; then    *)
(* the state reached so far is looked at.  A state without match list has  *)
(* ps[1] = 0 and no callback: the callback of the model finds nothing.     *)
CountOneLen ==
    LET seen == {t \in {T, T + 1} : t < Tend} IN
    /\ pc = "loop"
    /\ T < Tend
    /\ foundCounter' = foundCounter
                       + acsm.oneLenTable[At(text, T)]
                       + IF T + 1 < Tend THEN acsm.oneLenTable[At(text, T + 1)] ELSE 0
    /\ hits' = hits \cup {x \in (DOMAIN acsm.patterns) \X seen :
                             x[1] \in OneByte(acsm, At(text, x[2]))}
    /\ mlist' = 1
    /\ pc' = "callback"
    /\ UNCHANGED <<acsm, text, T, state>>

(* Faulty: the list is entered one place early. *)
LeaveLoopEarlyIndex ==
    /\ pc = "loop"
    /\ T >= Tend
    /\ mlist' = 0
    /\ pc' = "callback"
    /\ UNCHANGED <<acsm, text, T, state, foundCounter, hits>>

(* T has passed the end of the text: the last state is still to be looked at. *)
LeaveLoop ==
    /\ pc = "loop"
    /\ T >= Tend
    /\ mlist' = 1
    /\ pc' = "callback"
    /\ UNCHANGED <<acsm, text, T, state, foundCounter, hits>>

(* Faulty: counts before it compares. *)
CountAllEntries ==
    LET p == acsm.plist[MatchList[mlist]] IN
    /\ pc = "callback"
    /\ mlist <= Len(MatchList)
    /\ foundCounter' = foundCounter + 1
    /\ hits' = IF RestMatches(p) THEN hits \cup {<<p.iid, T - p.start>>} ELSE hits
    /\ mlist' = mlist + 1
    /\ UNCHANGED <<acsm, text, pc, T, state>>

(* Faulty: an entry that does not match is not left behind. *)
StayAtMismatch ==
    LET p == acsm.plist[MatchList[mlist]] IN
    /\ pc = "callback"
    /\ mlist <= Len(MatchList)
    /\ IF RestMatches(p)
       THEN /\ foundCounter' = foundCounter + 1
            /\ hits' = hits \cup {<<p.iid, T - p.start>>}
            /\ mlist' = mlist + 1
       ELSE UNCHANGED <<foundCounter, hits, mlist>>
    /\ UNCHANGED <<acsm, text, pc, T, state>>

(* fullMatchOrigin, one pass of its loop over the match list. *)
FullMatch ==
    LET p == acsm.plist[MatchList[mlist]] IN
    /\ pc = "callback"
    /\ mlist <= Len(MatchList)
    /\ IF RestMatches(p)
       THEN /\ foundCounter' = foundCounter + 1
            /\ hits' = hits \cup {<<p.iid, T - p.start>>}
       ELSE UNCHANGED <<foundCounter, hits>>
    /\ mlist' = mlist + 1
    /\ UNCHANGED <<acsm, text, pc, T, state>>

(* Faulty: the automaton restarts at every step. *)
AdvanceFromRoot ==
    /\ pc = "callback"
    /\ mlist > Len(MatchList)
    /\ T < Tend
    /\ state' = acsm.acsmNextState[0][At(text, T)]
    /\ T' = T + 2
    /\ pc' = "loop"
    /\ UNCHANGED <<acsm, text, mlist, foundCounter, hits>>

(* The callback returned inside the loop: take the transition, T += 2. *)
Advance ==
    /\ pc = "callback"
    /\ mlist > Len(MatchList)
    /\ T < Tend
    /\ state' = acsm.acsmNextState[state][At(text, T)]
    /\ T' = T + 2
    /\ pc' = "loop"
    /\ UNCHANGED <<acsm, text, mlist, foundCounter, hits>>

(* The callback after the loop returned. *)
Finish ==
    /\ pc = "callback"
    /\ mlist > Len(MatchList)
    /\ T >= Tend
    /\ pc' = "done"
    /\ UNCHANGED <<acsm, text, T, state, mlist, foundCounter, hits>>

Done == pc = "done" /\ UNCHANGED vars

Next == CountOneLen \/ LeaveLoop \/ FullMatch \/ Advance \/ Finish \/ Done

Spec == Init /\ [][Next]_vars

FairSpec == Spec /\ WF_vars(Next)

-----------------------------------------------------------------------------
(* Properties.                                                             *)

TypeOK ==
    /\ acsm \in Automata
    /\ text \in Texts
    /\ pc \in {"loop", "callback", "done"}
    /\ T \in Nat
    /\ state \in States(acsm)
    /\ mlist \in Nat \ {0}
    /\ foundCounter \in Nat

(* The even bytes read so far end with w. *)
StreamEndsWith(w) ==
    /\ 2 * Len(w) <= T
    /\ \A k \in 1 .. Len(w) : w[k] = At(text, T - 2 - 2 * (Len(w) - k))

(* The first phase: the state the automaton is in stands for the longest   *)
(* string of the trie that the even bytes read so far end with.            *)
StateTracksStream ==
    /\ T % 2 = 0 /\ T <= Tend + 1
    /\ StreamEndsWith(acsm.label[state])
    /\ \A s \in States(acsm) :
        StreamEndsWith(acsm.label[s]) => Len(acsm.label[s]) <= Len(acsm.label[state])

(* The T at which an occurrence at offset o of a pattern of m >= 2 bytes   *)
(* is decided: the flag of the half the automaton can see is o's parity.   *)
DecidedAt(m, o) == o + Start(m, o % 2)

(* The occurrence x has had its turn. *)
Settled(x) ==
    LET m == Len(acsm.patterns[x[1]]) IN
    IF m = 1
    THEN x[2] < IF pc = "loop" THEN T ELSE T + 2
    ELSE \/ DecidedAt(m, x[2]) < T
         \/ DecidedAt(m, x[2]) = T /\ pc = "done"
         \/ /\ DecidedAt(m, x[2]) = T /\ pc = "callback"
            /\ \E j \in 1 .. Len(MatchList) :
                /\ j < mlist
                /\ acsm.plist[MatchList[j]].iid = x[1]
                /\ acsm.plist[MatchList[j]].flag = x[2] % 2

(* Both phases together, at every moment: exactly the occurrences whose    *)
(* turn has come are reported.                                             *)
HitsAreSettledOccurrences == hits = {x \in Expected : Settled(x)}

(* Nothing is counted twice (each occurrence is visible to the automaton   *)
(* through one of its halves only).                                        *)
CountedOnce == IsFiniteSet(hits) /\ foundCounter = Cardinality(hits)

(* When the search ends, foundCounter is the number of occurrences of the  *)
(* patterns in the text.                                                   *)
FoundIsExact ==
    pc = "done" => hits = Expected /\ foundCounter = Cardinality(Expected)

(* The search implements the abstract matcher. *)
Matcher == INSTANCE PatternMatcher WITH
    expected <- Expected,
    reported <- hits,
    count    <- foundCounter,
    finished <- (pc = "done")

MatcherSpec == Matcher!Spec

(* Every search ends. *)
EventuallyDone == <>(pc = "done")

=============================================================================
