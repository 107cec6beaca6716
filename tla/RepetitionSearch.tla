------------------------- MODULE RepetitionSearch -------------------------
(***************************************************************************)
(* The odd-even search with the repetition shortcut: callback              *)
(* fullMatchSnort, modes 16 and 19 (without one-byte patterns) and 17 and  *)
(* 22 (with).  As long as the automaton stays in one state and the byte it *)
(* skips stays the same, fullMatchSnort tries not to repeat the full       *)
(* match: it counts the repetitions, and for a run longer than the state's *)
(* repetition table allows it adds the result of the last full match       *)
(* again.                                                                  *)
(*                                                                         *)
(* The fields it keeps between callbacks live in the ACSM_STRUCT2 and      *)
(* survive a search.  runSimulateSnortAcSearch clears them before every    *)
(* text (initAcBeforeSearch), the loop of main does not: a search starts   *)
(* with any of the values in Leftovers.                                    *)
(***************************************************************************)
EXTENDS TwoPhaseSearch, FiniteSetsExt

CONSTANTS
    UChar,      \* values of an unsigned char: 256 in the code
    Leftovers   \* repetition fields a search may find

ASSUME UCharAssumption == UChar \in Nat /\ UChar > 2

VARIABLES
    lastState,      \* the state one transition before
    countConitnue,
    lastChar,
    lastFoundPatternCount,
    continueFlag

searchVars == <<acsm, text>>
repVars    == <<countConitnue, lastChar, lastFoundPatternCount, continueFlag>>
snortVars  == <<searchVars, pc, T, state, lastState, repVars, foundCounter>>

-----------------------------------------------------------------------------
(* acsmCaleFullMatchSnort: the repetition table of a state. *)

(* The skipped bytes of p that the full match compares first, as long as   *)
(* they are equal.                                                         *)
TrailingRun(p) ==
    Max({k \in 1 .. p.indexEnd \div 2 + 1 :
            \A j \in 0 .. k - 1 : At(p.origin, p.indexEnd - 2 * j) = At(p.origin, p.indexEnd)})

(* Counted in an unsigned char; when the last byte of the pattern lies in  *)
(* the matched half the first one counts for two, and so does the first    *)
(* one after the counter has wrapped to 0.                                 *)
RunValue(p) ==
    IF p.flag = Same(Len(p.origin))
    THEN IF TrailingRun(p) % (UChar - 1) = 0 THEN 0 ELSE (TrailingRun(p) % (UChar - 1)) + 1
    ELSE TrailingRun(p) % UChar

(* maxCharMapRepeat: the largest value for c in state s. *)
RepeatValue(a, s, c) ==
    Max({0} \cup {RunValue(a.plist[e]) : e \in
            {e \in DOMAIN a.plist :
                /\ \E j \in 1 .. Len(a.acsmMatchList[s]) : a.acsmMatchList[s][j] = e
                /\ At(a.plist[e].origin, a.plist[e].indexEnd) = c}})

(* Only values above 1 get into the table.  countRepeatTwice counts them   *)
(* in an unsigned char: where every byte has one the count wraps to 0, and *)
(* repeatSizeGroup says that the table is empty.                           *)
InTable(a, s, c) ==
    /\ RepeatValue(a, s, c) > 1
    /\ \E d \in 0 .. UChar - 1 : RepeatValue(a, s, d) <= 1

-----------------------------------------------------------------------------
SnortInit ==
    /\ acsm \in Automata
    /\ text \in Texts
    /\ pc = "loop"
    /\ T = 0
    /\ state = 0
    /\ lastState = 0
    /\ \E left \in Leftovers :
        /\ countConitnue = left.countConitnue
        /\ lastChar = left.lastChar
        /\ lastFoundPatternCount = left.lastFoundPatternCount
        /\ continueFlag = left.continueFlag
    /\ foundCounter = 0

(* One-byte patterns, as in OddEvenSearch; then the callback, if the state *)
(* has a match list.                                                       *)
SnortCountOneLen ==
    /\ pc = "loop"
    /\ T < Tend
    /\ foundCounter' = foundCounter
                       + acsm.oneLenTable[At(text, T)]
                       + IF T + 1 < Tend THEN acsm.oneLenTable[At(text, T + 1)] ELSE 0
    /\ pc' = IF MatchList = << >> THEN "advance" ELSE "callback"
    /\ UNCHANGED <<searchVars, T, state, lastState, repVars>>

SnortLeaveLoop ==
    /\ pc = "loop"
    /\ T >= Tend
    /\ pc' = IF MatchList = << >> THEN "done" ELSE "callback"
    /\ UNCHANGED <<searchVars, T, state, lastState, repVars, foundCounter>>

-----------------------------------------------------------------------------
(* fullMatchSnort *)

(* The sub patterns of the match list whose other half stands in the text. *)
Matches == {j \in 1 .. Len(MatchList) : RestMatches(acsm.plist[MatchList[j]])}

SnortFullMatch ==
    /\ foundCounter' = foundCounter + Cardinality(Matches)
    /\ lastFoundPatternCount' = Cardinality(Matches)

Return == pc' = "advance" /\ UNCHANGED <<searchVars, T, state, lastState>>

(* After the end of the text the shortcut is not tried. *)
AtTextEnd ==
    /\ pc = "callback"
    /\ T >= Tend
    /\ SnortFullMatch
    /\ UNCHANGED <<countConitnue, lastChar, continueFlag>>
    /\ Return

(* Faulty: a new state goes on with the run of the old one. *)
StateEnteredKeepingCount ==
    /\ pc = "callback"
    /\ T < Tend
    /\ lastState # state
    /\ continueFlag' = 0
    /\ SnortFullMatch
    /\ UNCHANGED <<countConitnue, lastChar>>
    /\ Return

(* Faulty: a new state goes on reusing the result of the old one. *)
StateEnteredKeepingFlag ==
    /\ pc = "callback"
    /\ T < Tend
    /\ lastState # state
    /\ countConitnue' = 0
    /\ SnortFullMatch
    /\ UNCHANGED <<continueFlag, lastChar>>
    /\ Return

StateEntered ==
    /\ pc = "callback"
    /\ T < Tend
    /\ lastState # state
    /\ countConitnue' = 0
    /\ continueFlag' = 0
    /\ SnortFullMatch
    /\ UNCHANGED lastChar
    /\ Return

InRun == pc = "callback" /\ T < Tend /\ lastState = state

continueChar == At(text, T - 1)

RunStarts ==
    /\ InRun
    /\ lastChar # continueChar
    /\ lastChar' = continueChar
    /\ countConitnue' = 1
    /\ continueFlag' = 0
    /\ SnortFullMatch
    /\ Return

RunContinues ==
    /\ InRun
    /\ lastChar = continueChar
    /\ countConitnue' = countConitnue + 1
    /\ UNCHANGED lastChar
    /\ Return

(* The state's table says that the last full match can be reused. *)
TableAllows ==
    /\ InTable(acsm, state, continueChar)
    /\ countConitnue' > RepeatValue(acsm, state, continueChar)

ReuseLastFound ==
    /\ RunContinues
    /\ continueFlag = 1 \/ TableAllows
    /\ foundCounter' = foundCounter + lastFoundPatternCount
    /\ continueFlag' = 1
    /\ UNCHANGED lastFoundPatternCount

(* isFoundRepetition is 0 here in any case: the statement that should set  *)
(* it is a comparison.                                                     *)
GiveUp ==
    /\ RunContinues
    /\ continueFlag # 1 /\ ~ TableAllows
    /\ countConitnue' > 2
    /\ UNCHANGED <<continueFlag, lastFoundPatternCount, foundCounter>>

ShortRun ==
    /\ RunContinues
    /\ continueFlag # 1 /\ ~ TableAllows
    /\ countConitnue' <= 2
    /\ SnortFullMatch
    /\ UNCHANGED continueFlag

fullMatchSnort ==
    AtTextEnd \/ StateEntered \/ RunStarts \/ ReuseLastFound \/ GiveUp \/ ShortRun

-----------------------------------------------------------------------------
SnortAdvance ==
    /\ pc = "advance"
    /\ T < Tend
    /\ lastState' = state
    /\ state' = acsm.acsmNextState[state][At(text, T)]
    /\ T' = T + 2
    /\ pc' = "loop"
    /\ UNCHANGED <<searchVars, repVars, foundCounter>>

SnortFinish ==
    /\ pc = "advance"
    /\ T >= Tend
    /\ pc' = "done"
    /\ UNCHANGED <<searchVars, T, state, lastState, repVars, foundCounter>>

SnortDone == pc = "done" /\ UNCHANGED snortVars

SnortNext ==
    \/ SnortCountOneLen \/ SnortLeaveLoop \/ fullMatchSnort
    \/ SnortAdvance \/ SnortFinish \/ SnortDone

SnortSpec == SnortInit /\ [][SnortNext]_snortVars

-----------------------------------------------------------------------------
(* Properties.                                                             *)

(* The states of the automaton after the even bytes of the text. *)
StateAfter ==
    LET after[k \in 0 .. (Tend + 1) \div 2] ==
            IF k = 0 THEN 0
            ELSE acsm.acsmNextState[after[k - 1]][At(text, 2 * k - 2)]
    IN  after

(* The largest k such that the last k skipped bytes are equal, and the     *)
(* automaton has been in one state before, between and after them.         *)
RunLength ==
    LET after == StateAfter
    IN  Max({k \in 0 .. T \div 2 :
                /\ \A j \in 0 .. k : after[T \div 2 - j] = state
                /\ \A j \in 0 .. k - 1 : At(text, T - 1 - 2 * j) = At(text, T - 1)})

(* fullMatchSnort, :607-620: after every callback inside the text          *)
(* countConitnue is the length of the run the text is in, and lastChar its *)
(* byte, whatever an earlier search has left in the fields: StateEntered   *)
(* does not reset lastChar, and need not.                                  *)
RunIsTracked ==
    pc = "advance" /\ MatchList # << >> /\ T < Tend =>
        /\ countConitnue = RunLength
        /\ countConitnue > 0 => lastChar = At(text, T - 1)
        /\ continueFlag = 1 => countConitnue > 2

(* Three equal skipped bytes in a row. *)
HasRepetition ==
    \E i \in 0 .. Tend - 5 :
        i % 2 = 1 /\ At(text, i) = At(text, i + 2) /\ At(text, i) = At(text, i + 4)

(* The shortcut is harmless where there is nothing to shorten: a text that *)
(* never repeats a skipped byte three times is searched exactly, with any  *)
(* leftovers.                                                              *)
ExactWithoutRepetition ==
    pc = "done" /\ ~ HasRepetition => foundCounter = Cardinality(Expected)

=============================================================================
