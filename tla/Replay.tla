------------------------------- MODULE Replay -------------------------------
(***************************************************************************)
(* The replay drivers: runSimulateSnortAcSearch (driver "ac") and          *)
(* runSimulateSnortWuSearch (driver "wu").  They read a file of automata   *)
(* with their patterns and a file of recorded texts, give every text the   *)
(* automaton with its id, and search text after text.                      *)
(*                                                                         *)
(* The AC driver is composed with the engines it calls, step by step:      *)
(* modules OriginSearch, DirtyCount, OddEvenSearch and RepetitionSearch    *)
(* share the variables of this module.  mwmSearch is one step that does    *)
(* what module WuManberSearch is checked to do.                            *)
(*                                                                         *)
(* foundCounter and countDirtyCharacter are globals that every search goes *)
(* on counting in; found records them at the end of each search and hits   *)
(* what was counted in this one; no action reads either.                   *)
(***************************************************************************)
EXTENDS ReferenceAutomaton

LOCAL INSTANCE SequencesExt
LOCAL INSTANCE FiniteSetsExt

CONSTANTS
    Char,
    UChar,      \* values of an unsigned char
    Upper,      \* the capital of each byte
    Configs,    \* command lines: driver, mode, noLenOne
    AcFiles,    \* sequences of AC_OBJECTs, each with an id and its patterns
    TraceFiles  \* sequences of PACKET_TEXTs, each with an acId and a traceText

VARIABLES
    config, acFile, traceFile,
    strategy,       \* the mode setAcStrategy has set up
    rest,           \* the words of the trace file not yet read
    traceInfoGroup, \* the texts read from it, in time with their matchAc
    phase, cause,   \* cause: why the program has stopped early
    countCall, countTraceCharacter,     \* of each automaton
    countTrace, countTraceLength,
    countTracePassLenOne, countLenOneTraceLength,
    found

(* The variables of the engines; T, state, ... are undefined between two   *)
(* searches (pc = "idle").                                                 *)
VARIABLES
    acsm, text, pc, T, state, mlist,
    lastState, countConitnue, lastChar, lastFoundPatternCount, continueFlag,
    lastPosition, countDirtyCharacter,
    foundCounter, hits

inputVars  == <<config, acFile, traceFile, strategy>>
parseVars  == <<rest, traceInfoGroup>>
runVars    == <<phase, cause>>
acVars     == <<countCall, countTraceCharacter>>
traceVars  == <<countTrace, countTraceLength, countTracePassLenOne, countLenOneTraceLength, found>>
driverVars == <<inputVars, parseVars, runVars, acVars, traceVars>>

placeVars      == <<acsm, text, pc, T, state>>
repetitionVars == <<lastState, countConitnue, lastChar, lastFoundPatternCount, continueFlag>>
dirtyVars      == <<lastPosition, countDirtyCharacter>>
engineVars     == <<placeVars, mlist, repetitionVars, dirtyVars, foundCounter, hits>>

vars == <<driverVars, engineVars>>

-----------------------------------------------------------------------------
(* setAcStrategy, for the modes the driver accepts and one it does not.    *)

Origin       == {3, 20}
Dirty        == {24}
OddEven      == {0, 21, 23}
Repetition   == {16, 17, 19, 22}
DoNothing    == {7}

(* The modes that search with oneLenTable whatever the file holds; mode 17 *)
(* does so when oneLenFalg is set.                                         *)
AlwaysOneLen == {21, 22}

(* The modes of setAcStrategy whose add function notes one-byte patterns.  *)
NotesOneLen == {17, 19, 21, 22}

SuitableModes == Origin \cup Dirty \cup OddEven \cup Repetition \cup DoNothing

oneLenFalg(k) ==
    strategy \in NotesOneLen /\ \E id \in DOMAIN acFile[k].patterns : Len(acFile[k].patterns[id]) < 2

PatternFiles == UNION {{f[k].patterns : k \in DOMAIN f} : f \in AcFiles}

(* The automata that adding and compiling the patterns gives.              *)
Split ==
    [file \in PatternFiles |->
        [b \in BOOLEAN |-> OddEvenAutomaton(Char, file, b)]]

Unsplit == [file \in PatternFiles |-> [m \in {1, 2} |-> OriginAutomaton(Char, file, m)]]

instance(k) ==
    LET file == acFile[k].patterns IN
    IF strategy \in Origin \cup Dirty THEN Unsplit[file][IF strategy = 3 THEN 1 ELSE 2]
    ELSE Split[file][(strategy \in {17, 21, 22})]

(* The patterns of one automaton in the Wu-Manber driver.                  *)
WuPatterns(k) ==
    SelectSeq(acFile[k].patterns, LAMBDA p : config.noLenOne = 0 \/ Len(p) >= 2)

-----------------------------------------------------------------------------
(* The words of the trace file, as fscanf("%s") sees them: the line of an  *)
(* empty text is white space.                                              *)
Words(traces) ==
    FlattenSeq([i \in DOMAIN traces |->
        <<[tag |-> "PACKET"], [tag |-> "PACKET_TEXT", acId |-> traces[i].acId]>>
        \o IF traces[i].traceText = << >> THEN << >>
           ELSE <<[tag |-> "HEX", traceText |-> traces[i].traceText]>>])

NoEngine == [patterns |-> << >>]

Init ==
    /\ config \in Configs
    /\ strategy = config.mode
    /\ acFile \in AcFiles
    /\ traceFile \in TraceFiles
    /\ rest = Words(traceFile)
    /\ traceInfoGroup = << >>
    /\ phase = "acFile"
    /\ cause = ""
    /\ countCall = [k \in DOMAIN acFile |-> 0]
    /\ countTraceCharacter = [k \in DOMAIN acFile |-> 0]
    /\ countTrace = 0 /\ countTraceLength = 0
    /\ countTracePassLenOne = 0 /\ countLenOneTraceLength = 0
    /\ found = << >>
    /\ acsm = NoEngine /\ text = << >> /\ pc = "idle" /\ T = 0 /\ state = 0 /\ mlist = 1
    /\ lastState = 0 /\ countConitnue = 0 /\ lastChar = 0
    /\ lastFoundPatternCount = 0 /\ continueFlag = 0
    /\ lastPosition = 0 /\ countDirtyCharacter = 0
    /\ foundCounter = 0 /\ hits = {}

(* The process ends before its work is done: exit, or a signal.            *)
Stop(why) ==
    /\ phase' = "stopped"
    /\ cause' = why

Proceed(next) == phase' = next /\ UNCHANGED cause

-----------------------------------------------------------------------------
(* parseSnortAcFile: the patterns are added, every automaton is compiled   *)
(* and the match lists are counted; the average is an integer division.    *)
HasFinalState ==
    \E k \in DOMAIN acFile : \E s \in DOMAIN instance(k).acsmMatchList :
        instance(k).acsmMatchList[s] # << >>

parseSnortAcFile ==
    /\ phase = "acFile"
    /\ IF config.driver = "ac" /\ ~HasFinalState
       THEN Stop("no final state")
       ELSE Proceed("traceFile")
    /\ UNCHANGED <<inputVars, parseVars, acVars, traceVars, engineVars>>

(* parseSnortTraceFile, one record at a time. *)
ReadPacket ==
    /\ phase = "traceFile"
    /\ rest # << >>
    /\ rest[1].tag = "PACKET"
    /\ rest' = Tail(rest)
    /\ UNCHANGED <<inputVars, traceInfoGroup, runVars, acVars, traceVars, engineVars>>

(* Faulty: a text without a line of its own is taken for empty. *)
ReadTextOrEmpty ==
    LET line == IF Len(rest) = 1 THEN [tag |-> "EOF"] ELSE rest[2]
        txt  == IF line.tag = "HEX" THEN line.traceText ELSE << >>
    IN
    /\ phase = "traceFile"
    /\ rest # << >>
    /\ rest[1].tag = "PACKET_TEXT"
    /\ traceInfoGroup' = Append(traceInfoGroup, [acId |-> rest[1].acId, traceText |-> txt, matchAc |-> 0])
    /\ rest' = SubSeq(rest, IF line.tag = "HEX" THEN 3 ELSE 2, Len(rest))
    /\ UNCHANGED <<inputVars, runVars, acVars, traceVars, engineVars>>

(* The next word is taken for the text, whatever it is; a record is no     *)
(* hexadecimal number, and hexTextToHexArray exits.  After the last record *)
(* the buffer stays empty.                                                 *)
ReadText ==
    LET line == IF Len(rest) = 1 THEN [tag |-> "EOF"] ELSE rest[2]
        txt  == IF line.tag = "HEX" THEN line.traceText ELSE << >>
    IN
    /\ phase = "traceFile"
    /\ rest # << >>
    /\ rest[1].tag = "PACKET_TEXT"
    /\ IF line.tag \in {"HEX", "EOF"}
       THEN /\ traceInfoGroup' =
                 Append(traceInfoGroup, [acId |-> rest[1].acId, traceText |-> txt, matchAc |-> 0])
            /\ rest' = IF line.tag = "EOF" THEN << >> ELSE Tail(Tail(rest))
            /\ UNCHANGED runVars
       ELSE Stop("not hexadecimal") /\ UNCHANGED parseVars
    /\ UNCHANGED <<inputVars, acVars, traceVars, engineVars>>

EndOfTraceFile ==
    /\ phase = "traceFile"
    /\ rest = << >>
    /\ Proceed("map")
    /\ UNCHANGED <<inputVars, parseVars, acVars, traceVars, engineVars>>

(* Faulty: the search for the id stops where it finds it. *)
FirstAcWith(acId) ==
    LET ks == {k \in DOMAIN acFile : acFile[k].id = acId} IN
    IF ks = {} THEN 0 ELSE Min(ks)

(* The loop of mapAcInTrace does not stop where it finds the id: the last  *)
(* automaton with the id stays; 0 is NULL.                                 *)
matchAc(acId) == Max({0} \cup {k \in DOMAIN acFile : acFile[k].id = acId})

mapAcInTrace ==
    /\ phase = "map"
    /\ IF \E i \in DOMAIN traceInfoGroup : matchAc(traceInfoGroup[i].acId) = 0
       THEN Stop("unknown id") /\ UNCHANGED traceInfoGroup
       ELSE /\ traceInfoGroup' = [i \in DOMAIN traceInfoGroup |->
                 [traceInfoGroup[i] EXCEPT !.matchAc = matchAc(traceInfoGroup[i].acId)]]
            /\ Proceed(IF config.driver = "ac" THEN "mode" ELSE "search")
    /\ UNCHANGED <<inputVars, rest, acVars, traceVars, engineVars>>

(* The check of the mode, then else if(config->mode = 16): an assignment.  *)
openClockFile ==
    /\ phase = "mode"
    /\ IF config.mode \notin SuitableModes
       THEN Stop("unsuitable mode") /\ UNCHANGED config
       ELSE /\ config' = [config EXCEPT !.mode = IF @ = 3 THEN 3 ELSE 16]
            /\ Proceed("search")
    /\ UNCHANGED <<acFile, traceFile, strategy, parseVars, acVars, traceVars, engineVars>>

-----------------------------------------------------------------------------
(* The loop over the texts. *)

currentTrace == traceInfoGroup[countTrace + 1]

current == currentTrace.matchAc

(* Where every search starts: initAcBeforeSearch clears the fields of the  *)
(* repetition, acsmSearchOrigin lastPosition, current_state is 0.          *)
EnterEngine ==
    /\ acsm' = instance(current)
    /\ text' = currentTrace.traceText
    /\ pc' = IF strategy \in Origin \cup Dirty THEN "callback" ELSE "loop"
    /\ T' = 0
    /\ mlist' = 1
    /\ lastState' = 0 /\ countConitnue' = 0 /\ lastChar' = 0
    /\ lastFoundPatternCount' = 0 /\ continueFlag' = 0
    /\ hits' = {}
    /\ UNCHANGED <<countDirtyCharacter, foundCounter>>

CountCall ==
    /\ countCall' = [countCall EXCEPT ![current] = @ + 1]
    /\ countTraceCharacter' = [countTraceCharacter EXCEPT ![current] = @ + Len(currentTrace.traceText)]

AcSearching ==
    /\ phase = "search" /\ config.driver = "ac"
    /\ pc = "idle"
    /\ countTrace < Len(traceInfoGroup)

(* An automaton to which no pattern was added has no oneLenTable.          *)
HasNoTable ==
    /\ strategy \in AlwaysOneLen
    /\ acFile[current].patterns = << >>
    /\ currentTrace.traceText # << >>

(* Faulty: the state of the last search is kept. *)
BeginSearchInLastState ==
    /\ AcSearching
    /\ CountCall
    /\ IF HasNoTable
       THEN Stop("no one-byte table") /\ UNCHANGED engineVars
       ELSE /\ EnterEngine
            /\ state' = IF state \in DOMAIN instance(current).acsmNextState THEN state ELSE 0
            /\ lastPosition' = 0
            /\ UNCHANGED runVars
    /\ UNCHANGED <<inputVars, parseVars, traceVars>>

(* Faulty: so is the place of its last match. *)
BeginSearchAtLastPosition ==
    /\ AcSearching
    /\ CountCall
    /\ IF HasNoTable
       THEN Stop("no one-byte table") /\ UNCHANGED engineVars
       ELSE EnterEngine /\ state' = 0 /\ UNCHANGED <<lastPosition, runVars>>
    /\ UNCHANGED <<inputVars, parseVars, traceVars>>

(* Faulty: the automaton is charged for the call before last. *)
BeginSearchUncounted ==
    /\ AcSearching
    /\ IF HasNoTable
       THEN Stop("no one-byte table") /\ UNCHANGED <<acVars, engineVars>>
       ELSE /\ EnterEngine /\ state' = 0 /\ lastPosition' = 0 /\ UNCHANGED runVars
            /\ IF currentTrace.traceText = << >> THEN UNCHANGED acVars ELSE CountCall
    /\ UNCHANGED <<inputVars, parseVars, traceVars>>

BeginSearch ==
    /\ AcSearching
    /\ CountCall
    /\ IF HasNoTable
       THEN Stop("no one-byte table") /\ UNCHANGED engineVars
       ELSE EnterEngine /\ state' = 0 /\ lastPosition' = 0 /\ UNCHANGED runVars
    /\ UNCHANGED <<inputVars, parseVars, traceVars>>

-----------------------------------------------------------------------------
(* The engines.  acsmSearch2 and the callback decide whose step it is.     *)
OriginEngine     == INSTANCE OriginSearch WITH Automata <- {}, Texts <- {}
DirtyEngine      == INSTANCE DirtyCount WITH Automata <- {}, Texts <- {}
OddEvenEngine    == INSTANCE OddEvenSearch WITH Automata <- {}, Texts <- {}
RepetitionEngine == INSTANCE RepetitionSearch WITH Automata <- {}, Texts <- {}, Leftovers <- {}

Searching == phase = "search" /\ config.driver = "ac" /\ pc \notin {"idle", "done"}

acsmSearchOrigin ==
    /\ Searching
    /\ strategy \in Origin
    /\ OriginEngine!originMatch \/ OriginEngine!Advance \/ OriginEngine!Finish
    /\ UNCHANGED <<driverVars, repetitionVars, dirtyVars>>

acsmSearchCountDirty ==
    /\ Searching
    /\ strategy \in Dirty
    /\ \/ DirtyEngine!fulllMatchCountDirty
       \/ (OriginEngine!Advance \/ OriginEngine!Finish) /\ UNCHANGED dirtyVars
    /\ UNCHANGED <<driverVars, repetitionVars>>

(* initFullMatchOddEven is called by main only: full_match writes to the   *)
(* patternIdGroup that is still NULL.                                      *)
FullMatchWithoutPatterns ==
    /\ Searching
    /\ strategy = 0
    /\ pc = "callback" /\ OddEvenEngine!MatchList # << >>
    /\ Stop("no pattern group")
    /\ UNCHANGED <<inputVars, parseVars, acVars, traceVars, engineVars>>

acsmSearchWithOddEven ==
    /\ Searching
    /\ strategy \in OddEven
    /\ ~(strategy = 0 /\ pc = "callback" /\ OddEvenEngine!MatchList # << >>)
    /\ \/ OddEvenEngine!CountOneLen \/ OddEvenEngine!LeaveLoop
       \/ OddEvenEngine!FullMatch
       \/ OddEvenEngine!Advance \/ OddEvenEngine!Finish
    /\ UNCHANGED <<driverVars, repetitionVars, dirtyVars>>

acsmSearchWithOddEvenSnort ==
    /\ Searching
    /\ strategy \in Repetition
    /\ \/ RepetitionEngine!SnortCountOneLen \/ RepetitionEngine!SnortLeaveLoop
       \/ RepetitionEngine!fullMatchSnort
       \/ RepetitionEngine!SnortAdvance \/ RepetitionEngine!SnortFinish
    /\ UNCHANGED <<driverVars, mlist, hits, dirtyVars>>

(* Mode 7: the automaton runs, fullMatchDoNothing counts nothing.          *)
acsmSearchDoNothing ==
    /\ Searching
    /\ strategy \in DoNothing
    /\ pc' = "done"
    /\ UNCHANGED <<driverVars, acsm, text, T, state, mlist, repetitionVars, dirtyVars,
                   foundCounter, hits>>

-----------------------------------------------------------------------------
(* The rest of the loop body. *)
EndSearch ==
    /\ phase = "search" /\ config.driver = "ac"
    /\ pc = "done"
    /\ pc' = "idle"
    /\ IF oneLenFalg(current)
       THEN /\ countTracePassLenOne' = countTracePassLenOne + 1
            /\ countLenOneTraceLength' = countLenOneTraceLength + Len(text)
       ELSE UNCHANGED <<countTracePassLenOne, countLenOneTraceLength>>
    /\ countTrace' = countTrace + 1
    /\ countTraceLength' = countTraceLength + Len(text)
    /\ found' = Append(found, [foundCounter |-> foundCounter, dirty |-> countDirtyCharacter,
                               places |-> hits])
    /\ UNCHANGED <<inputVars, parseVars, runVars, acVars, acsm, text, T, state, mlist,
                   repetitionVars, dirtyVars, foundCounter, hits>>

(* mwmSearch: every place of a pattern, or, with fewer than five patterns, *)
(* only the first place in capitals, and that if it is one.                *)
Capitals(s) == [i \in DOMAIN s |-> Upper[s[i]]]

WuPlaces(patterns, t) ==
    {x \in Occurrences(patterns, 1, t) :
        Len(patterns) < 5 =>
            \A o \in 0 .. x[2] - 1 : ~OccursAt(Capitals(patterns[x[1]]), Capitals(t), o)}

mwmSearch ==
    LET places == WuPlaces(WuPatterns(current), currentTrace.traceText) IN
    /\ phase = "search" /\ config.driver = "wu"
    /\ countTrace < Len(traceInfoGroup)
    /\ foundCounter' = foundCounter + Cardinality(places)
    /\ hits' = places
    /\ countTrace' = countTrace + 1
    /\ found' = Append(found, [foundCounter |-> foundCounter', dirty |-> 0, places |-> places])
    /\ UNCHANGED <<inputVars, parseVars, runVars, acVars, countTraceLength, countTracePassLenOne,
                   countLenOneTraceLength, placeVars, mlist, repetitionVars, dirtyVars>>

(* What the helper thread of mode 19 counts: searchOneLenWithOddEven over  *)
(* all texts.                                                              *)
threadMatchCount ==
    MapThenSumSet(
        LAMBDA i : Cardinality({x \in Occurrences(acFile[traceInfoGroup[i].matchAc].patterns, 1,
                                                  traceInfoGroup[i].traceText) :
                       Len(acFile[traceInfoGroup[i].matchAc].patterns[x[1]]) = 1}),
        DOMAIN traceInfoGroup)

(* The results are shown; the thread, if there was one, is waited for.     *)
showStatisticResult ==
    /\ phase = "search"
    /\ pc = "idle"
    /\ countTrace = Len(traceInfoGroup)
    /\ foundCounter' = foundCounter + IF config.driver = "ac" /\ config.mode = 19
                                      THEN threadMatchCount ELSE 0
    /\ Proceed("done")
    /\ UNCHANGED <<inputVars, parseVars, acVars, traceVars, placeVars, mlist, repetitionVars,
                   dirtyVars, hits>>

Ended == phase \in {"done", "stopped"} /\ UNCHANGED vars

Next ==
    \/ parseSnortAcFile
    \/ ReadPacket \/ ReadText \/ EndOfTraceFile
    \/ mapAcInTrace
    \/ openClockFile
    \/ BeginSearch
    \/ acsmSearchOrigin \/ acsmSearchCountDirty
    \/ acsmSearchWithOddEven \/ FullMatchWithoutPatterns
    \/ acsmSearchWithOddEvenSnort
    \/ acsmSearchDoNothing
    \/ EndSearch
    \/ mwmSearch
    \/ showStatisticResult
    \/ Ended

Spec == Init /\ [][Next]_vars

(* One process, which is never kept from its next step. *)
FairSpec == Spec /\ WF_vars(Next)

-----------------------------------------------------------------------------
(* Properties.                                                             *)

(* The automaton a text of the file is meant for: the last with its id.    *)
IsLastWith(k, id) ==
    /\ acFile[k].id = id
    /\ \A l \in DOMAIN acFile : acFile[l].id = id => l <= k

(* The places of the patterns of automaton k in t.  The modes that note    *)
(* one-byte patterns, and the unsplit ones, look for all of them.          *)
Places(k, t) ==
    CASE config.driver = "wu" -> WuPlaces(WuPatterns(k), t)
      [] strategy \in {3} \cup NotesOneLen -> Occurrences(acFile[k].patterns, 1, t)
      [] strategy \in {16, 20, 23, 24, 0} -> Occurrences(acFile[k].patterns, 2, t)
      [] OTHER -> {}

(* Those that the search for t reports.  In mode 19 the one-byte patterns  *)
(* are the helper thread's.                                                *)
SearchPlaces(k, t) ==
    {x \in Places(k, t) : strategy = 19 => Len(acFile[k].patterns[x[1]]) >= 2}

HasRepetition(t) ==
    \E i \in 0 .. Len(t) - 5 : i % 2 = 1 /\ At(t, i) = At(t, i + 2) /\ At(t, i) = At(t, i + 4)

FoundIn(i) == found[i].foundCounter - IF i = 1 THEN 0 ELSE found[i - 1].foundCounter

DirtyIn(i) == found[i].dirty - IF i = 1 THEN 0 ELSE found[i - 1].dirty

(* runSimulateSnortAcSearch, runSimulateSnortWuSearch: whatever has been   *)
(* searched before, and in which automaton, the search of the n-th text of *)
(* the file adds to foundCounter the number of places, of the patterns of  *)
(* the last automaton with its id, that it is there to report (mode 7      *)
(* none; the shortcut of the repetition modes where there is nothing to    *)
(* shorten).                                                               *)
EachTextCountedExactly ==
    \A i \in DOMAIN found, k \in DOMAIN acFile :
        LET t == traceFile[i].traceText IN
        /\ IsLastWith(k, traceFile[i].acId)
        /\ ~(config.driver = "ac" /\ strategy \in Repetition /\ HasRepetition(t))
        => FoundIn(i) = Cardinality(SearchPlaces(k, t))

(* A search leaves nothing behind in the structures that the next search   *)
(* of the same automaton can feel, the repetition modes included: the same *)
(* text gives the same counts wherever it stands in the file.              *)
SameTextSameCounts ==
    \A i, j \in DOMAIN found :
        traceFile[i] = traceFile[j] => FoundIn(i) = FoundIn(j) /\ DirtyIn(i) = DirtyIn(j)

TracesOf(k) == {i \in 1 .. countTrace : IsLastWith(k, traceFile[i].acId)}

Lengths(is) == MapThenSumSet(LAMBDA i : Len(traceFile[i].traceText), is)

(* simulate_snort_ac_search.c:678-679, 703-709: the counts per automaton,  *)
(* of all texts and of the texts of automata with one-byte patterns are of *)
(* the same texts; an automaton hidden by a later one with its id has none.*)
BookkeepingAgrees ==
    config.driver = "ac" /\ phase = "done" =>
        LET passed == UNION {TracesOf(k) : k \in {k \in DOMAIN acFile : oneLenFalg(k)}} IN
        /\ \A k \in DOMAIN acFile :
            /\ countCall[k] = Cardinality(TracesOf(k))
            /\ countTraceCharacter[k] = Lengths(TracesOf(k))
        /\ countTrace = Len(traceFile)
        /\ countTraceLength = Lengths(DOMAIN traceFile)
        /\ countTracePassLenOne = Cardinality(passed)
        /\ countLenOneTraceLength = Lengths(passed)

(* The even bytes of t hold the half h of a pattern. *)
HalfSeen(h, t) ==
    \E k \in 0 .. Len(t) : \A j \in 1 .. Len(h) :
        2 * (k + j - 1) < Len(t) /\ h[j] = At(t, 2 * (k + j - 1))

PatternsOf(k) == {acFile[k].patterns[id] : id \in DOMAIN acFile[k].patterns}

NothingToMatch ==
    \A k \in DOMAIN acFile : \A p \in PatternsOf(k) : Len(p) < IF strategy = 3 THEN 1 ELSE 2

TextSwallowsRecord == \E i \in 1 .. Len(traceFile) - 1 : traceFile[i].traceText = << >>

IdMissing == \E i \in DOMAIN traceFile : \A k \in DOMAIN acFile : acFile[k].id # traceFile[i].acId

SearchFails(i) ==
    \E k \in DOMAIN acFile :
        /\ IsLastWith(k, traceFile[i].acId)
        /\ \/ /\ strategy \in {21, 22}
              /\ PatternsOf(k) = {} /\ traceFile[i].traceText # << >>
           \/ /\ strategy = 0
              /\ \E p \in PatternsOf(k), flag \in {0, 1} :
                    Len(p) >= 2 /\ HalfSeen(Half(p, flag), traceFile[i].traceText)

(* What keeps the program from getting through, told from the command line *)
(* and the files alone, in the order in which it is met.                   *)
Obstacle ==
    LET ac == config.driver = "ac" IN
    CASE ac /\ NothingToMatch -> "no final state"
      [] ~(ac /\ NothingToMatch) /\ TextSwallowsRecord -> "not hexadecimal"
      [] ~(ac /\ NothingToMatch) /\ ~TextSwallowsRecord /\ IdMissing -> "unknown id"
      [] OTHER ->
            IF ac /\ strategy \notin SuitableModes THEN "unsuitable mode"
            ELSE IF ac /\ \E i \in DOMAIN traceFile : SearchFails(i) THEN "search" ELSE ""

(* Every way in which the drivers end before the results are shown: the    *)
(* average over no final state (simulate_snort_ac_search.c:408), the word  *)
(* after an empty text (:462), an id no automaton has (:558), a mode not   *)
(* served (:619), an automaton without the table (aho_corasick.c:1504) and *)
(* the pattern group main alone creates (method_odd_even.c:78).  They end  *)
(* so exactly for these files, and otherwise get through.                  *)
EndsAsTheFilesSay ==
    /\ phase = "done" => Obstacle = ""
    /\ phase = "stopped" =>
         Obstacle = IF cause \in {"no one-byte table", "no pattern group"} THEN "search" ELSE cause

(* In the modes without the repetition shortcut the whole replay is one    *)
(* matcher: of all texts together it reports places only, none twice,      *)
(* foundCounter counts them, and it gets to its end with all of them.      *)
Exact == config.driver = "wu" \/ strategy \notin Repetition

AllPlaces ==
    UNION {{<<i, x>> : x \in Places(k, traceFile[i].traceText)} :
              <<i, k>> \in {y \in (DOMAIN traceFile) \X (DOMAIN acFile) :
                              IsLastWith(y[2], traceFile[y[1]].acId)}}

PlacesReported ==
    UNION {{<<i, x>> : x \in found[i].places} : i \in DOMAIN found}
    \cup IF pc = "idle" THEN {} ELSE {<<countTrace + 1, x>> : x \in hits}

(* simulate_snort_ac_search.c:649-664 and :765-769: in mode 19 a thread    *)
(* counts the one-byte patterns, and runSimulateSnortAcSearch waits for it *)
(* and adds its "Length One Match Count": together the results are the     *)
(* number of places of the patterns, one-byte patterns included.           *)
TotalCountsPlaces ==
    phase = "done" /\ (\A i \in DOMAIN traceFile : ~HasRepetition(traceFile[i].traceText)) =>
        foundCounter = Cardinality(AllPlaces)

Matcher == INSTANCE PatternMatcher WITH
    expected <- IF Exact THEN AllPlaces ELSE {},
    reported <- IF Exact THEN PlacesReported ELSE {},
    count    <- IF Exact THEN foundCounter ELSE 0,
    finished <- Exact /\ phase = "done"

MatcherSpec == Matcher!Spec

(* The driver comes to an end, with the results or without.                *)
EventuallyEnds == <>(phase \in {"done", "stopped"})

=============================================================================
