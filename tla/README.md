# A TLA+ development of the odd-even Aho-Corasick engines

The repository (`src/`) is the research prototype behind *Accelerating
Aho-Corasick Algorithm using Odd-Even Sub Patterns to improve Snort*.  The C
program in `src/project/src` reads a file of byte patterns and a trace (or the
automata and texts recorded from a Snort run), builds a multi-pattern search
engine, runs it and reports how many occurrences it found and how long it took.
What matters about it is that the fast engines count what the plain one counts.
This directory states that as properties, model-checks the engines with TLC and
proves the central results with TLAPS.

Paths below are relative to `src/project/src` unless they start with `src/`.

## 1. The system

| Component | State | Operations | Interacts with |
|---|---|---|---|
| Aho-Corasick construction (`aho_corasick.c:20-1361`) | `ACSM_STRUCT2`: list of patterns, `oneLenTable`, transition lists, match lists, failure states, full table | `acsmAddPattern2`, `acsmCompile2` | every automaton search reads what it built |
| Odd-even search, exact (`aho_corasick.c:1428-1530`, `method_odd_even_snort.c:744`) | text pointer `T`, `state`, `foundCounter` | `acsmSearchWithOddEven`, `acsmSearchWithOddEvenSnortOneLen`, callback `fullMatchOrigin` (modes 21, 23) | called by the drivers through `acsmSearch2` |
| Odd-even search with the repetition shortcut (`method_odd_even_snort.c:19,526-742`) | the same, and `countConitnue`, `lastChar`, `continueFlag`, `lastFoundPatternCount` in the `ACSM_STRUCT2`, a repetition table per state | `acsmCaleFullMatchSnort`, `initAcBeforeSearch`, `fullMatchSnort` (modes 16, 17, 19, 22) | its fields survive from search to search |
| Origin search (`aho_corasick.c:1363`, `method_origin.c`) | `T`, `state`, `foundCounter` | `acsmSearchOrigin`, `originMatch` (modes 3, 20) | the yardstick of the experiments |
| Odd-even searches without bounds checks (`method_odd_even.c`, `method_odd_even_queue.c`, `method_last_char_hash.c`, `method_filter_digest.c`, the inline loops of `aho_corasick.c`) | the same, the global queue, tables `filterGroup`, `offsetGroup` per final state | `full_match` (mode 0), `fullMatchUsingLastCharHash` (8), `acsmSearchWithOddEvenInline` (10), `acsmSearchWithLastCharFilterInline` (11), `fullMatchFilterDigest` (12), `fullMatchToQueue`, `fullMatchFromQueue` (14) | repeated by the loop of `main` |
| Snort replay driver (`simulate_snort_ac_search.c`) | list of automata, list of texts, helper thread | `parseSnortAcFile`, `mapAcInTrace`, `runSimulateSnortAcSearch` | composes construction and searches |
| Wu-Manber (`snort_wu_manber.c`) | `MWM_STRUCT`: pattern list, sorted pattern array, hash groups, shift tables | `mwmAddPatternEx`, `mwmPrepPatterns`, `mwmSearch` | stands beside the automata; the prepared group is all that preparation and search share |
| Wu-Manber replay driver (`simulate_snort_wu_search.c`) | list of groups, list of texts | parsing, `runSimulateSnortWuSearch` | composes Wu-Manber groups and texts |
| Pattern trees (`method_char_tree.c`, `method_bitmap_tree.c`) | per final state a tree of the other halves, its lists pushed down | `processFinalStateSubPatternToCharTree`, `leafPushingCharTree`, the two walks (modes 1, 2) | made after `acsmCompile2`, plugged in by `main` |
| Synthesis (`method_synthesis.c`) | per final state one comparison string for all its entries | `createStrategySuffixSubPattern`, `fullMatchOddEven` (mode 6) | the same |
| Twice odd-even (`aho_corasick.c:2120-2240`) | depth of each state and pattern | `acsmSearchWithTwiceOddEven`, `fullMatchTwiceOddEven` (mode 4) | the same |
| Small-pattern hash (`method_hash_small_pattern.c`, `aho_corasick.c:1660-1770`) | tables of the patterns of one and two bytes | `addSmallPattern`, `acsmSearchWithSmallPattern` (mode 9) | filled while patterns are added |
| AC filter (`method_odd_even_ac_filter.c`, `aho_corasick.c:1920-1960`) | flag per byte of the text, a second, unsplit automaton | `fullMatchOddEvenAcFilter`, `searchOriginAcWithFlag` (mode 13) | the first search marks what the second visits |
| Dirty-character count (`method_count_dirty.c`) | `lastPosition`, `countDirtyCharacter` | `fulllMatchCountDirty` (mode 24) | callback of the origin search |
| Input files, command line, statistics, analyses | | parsing, printing | |

The program is sequential: the helper thread of the replay driver (mode 19) is
never started, because the assignment at `simulate_snort_ac_search.c:634`
turns mode 19 into mode 16.  What makes it hard is not concurrency:

* **order of construction** - breadth-first passes that read tables they are
  still filling in;
* **index arithmetic** - the two halves of a pattern, the parity of lengths and
  offsets, both ends of the text, odd text lengths;
* **state that survives** - a result kept from one callback to the next or from
  one search to the next, and used where it was not computed;
* **settling each occurrence exactly once** - each occurrence is visible
  through one of its halves only, while a state may list many sub patterns;
* **deferred work** - the queue, the callback after the loop;
* **skipping** - the Wu-Manber shifts must never carry the window over a place
  of a pattern, two shifts per pass, next to the end of the text; mode 13 skips
  bytes without telling its automaton;
* **one comparison for many** - trees, merged lists, digests and marks replace
  the comparison of each entry and must give the same answer;
* **files that stop the program** - ids nobody has, empty texts, automata
  without patterns or without a final state.

`PROJECT.json` lists the individual hazards at their lines.  The properties
that make the components correct:

* construction: failure links lead to longest suffixes, match lists are
  complete and duplicate-free, rows are final when they are read, all patterns
  are accounted for, the loops end;
* searches: at every moment exactly the occurrences whose turn has come have
  been counted, each once; at the end all of them; the automaton's state is the
  longest string of the trie that the bytes read end with; every search ends;
* repetition shortcut: the run bookkeeping is right whatever was left behind;
  the shortcut changes nothing where it does not apply;
* second phases without bounds checks: they stay near the text, find every
  occurrence, and what they invent touches an edge; a repetition counts what the
  first run counted;
* AC filter: the second phase is an exact search of what the first has left of
  the text, in every repetition; flags stay near their array;
* dirty count: every dirty byte is added once, however matches overlap;
* replay drivers: each text adds what stands in it under its automaton, no
  search feels another, the counters agree, and the program ends early exactly
  for the files and modes that make it;
* Wu-Manber preparation: sorting loses no pattern, each hash entry leads to all
  patterns with its prefix and to no other, shifts are safe and no smaller than
  they must be;
* Wu-Manber search: at every moment exactly the places the window has passed
  have been counted, each once, whatever the shifts skipped.

## 2. Modules

    TextMatch            strings, suffixes, the reference definition of a search
    PatternMatcher       what every engine promises (abstract specification)
    SubPattern           how a pattern is split; start, indexEnd
    Automaton            what the construction promises to the searches
    ReferenceAutomaton   automata written down by definition, for TLC
    AhoCorasick          acsmAddPattern2 and acsmCompile2, loop pass by loop pass
    TwoPhaseSearch       what the next two share: automata and texts, the variables
                         of the loop, the comparison of the other half
    OddEvenSearch        two-phase search, exact full match (modes 21, 23)
    RepetitionSearch     the same with fullMatchSnort (modes 16, 17, 19, 22)
    OriginSearch         the plain search (modes 3, 20)
    OtherHalf            what the second phases prepare per final state: trees,
                         synthesis, filters, digests
    UnboundedSearch      the second phases without bounds checks (modes 0, 1, 2,
                         4, 6, 8 to 12, 14)
    AcFilter             mode 13
    DirtyCount           mode 24, on top of OriginSearch
    Replay               both replay drivers, composed with the engines
    WuManberTables       a prepared pattern group and what makes it correct
    WuManberPrep         mwmAddPatternEx, mwmPrepPatterns and all they call
    WuManberSearch       mwmSearch: three table searches, or hbm_match (Boyer-Moore-
                         Horspool) for each of a few patterns
    SubPattern_proofs    lemmas on the split, theorem TwoPhaseMatch
    AhoCorasick_proofs   theorems on AhoCorasick: the compiled automaton is correct
    OddEvenSearch_proofs theorems on OddEvenSearch and RepetitionSearch
    OriginSearch_proofs  theorems on OriginSearch and DirtyCount
    UnboundedSearch_proofs
                         where those searches read, what they find and count
    AcFilter_proofs      theorems on AcFilter: what is written, what is counted
    WuManberPrep_proofs  theorem on WuManberPrep: the prepared group is correct
    WuManberSearch_proofs
                         theorems on WuManberSearch
    MC*                  finite instances

Construction and search meet in `Automaton`.  It is assume-guarantee: the
searches assume of their constant `Automata` that every member satisfies
`AutomatonTyped` and `AutomatonCorrect`, and `AhoCorasick` is proved to
deliver it (`CompiledAutomatonCorrect`) for every file and every mode.  The finite instances take their automata from
`ReferenceAutomaton`, which defines them directly; TLC evaluates the
assumptions on them.  `WuManberTables` plays the same part for Wu-Manber:
`WuManberPrep` is proved to deliver `GroupCorrect` (`PreparedCorrect`) for every
file whose pattern indices fit into a hash entry, `WuManberSearch` assumes it.
`OddEvenSearch`, `OriginSearch`, `WuManberSearch` and, for a whole
trace file, `Replay` implement `PatternMatcher`.

### Correspondence with the code

`AhoCorasick` - a variable per field of `ACSM_STRUCT2` under its name; a
transition list is a function from chars to states, a match list a sequence of
indices into `acsmPatterns`, memory cleared by calloc is 0 or `<< >>`.  `pc` is
the loop the code is in (`add`: pattern file; `match_up`, `add_rest`: the two
loops of `AddPatternStates`; `nfa_queue`, `nfa_char`, `nfa_fail`: the three
nested loops of `Build_NFA`; `dfa_queue`, `dfa_char`: those of
`Convert_NFA_To_DFA`).  One pass of a loop is one action.  The root rows
(`RootChildren`) and `Conv_List_To_Full` are loops without branches and are one
action each.  The ghost `label` records which string leads to a state.  All 14
`acMode`s are there: besides whole patterns and halves those that keep one-byte
patterns in `oneLenTable`, those that put patterns of one and two bytes into
`lengthOneTable` and `lengthTwoTable` (mode 9), and those that drop what cannot
be halved (mode 4 among them).

`OddEvenSearch` - one action per pass of the loop (`CountOneLen`), per entry of
the match list in the callback (`FullMatch`), for the transition and `T += 2`
(`Advance`), for leaving the loop and for returning.  `acsmSearchWithOddEven`
has no one-byte table: there `oneLenTable` is all zeros and the pass adds
nothing.  The pointers `Tstart`, `T`, `textEnd` are 0, `T`, `Len(text)`.  The
ghost `hits` records which occurrence each increment of `foundCounter` stood
for: `<<iid, T - start>>`.

`RepetitionSearch` - the loop is that of `OddEvenSearch` except that it keeps
`lastState` and passes over states without a match list; its steps have the
prefix `Snort`.  `fullMatchSnort` is one call: its branches are the
alternatives `AtTextEnd`, `StateEntered`, `RunStarts`, `ReuseLastFound`,
`GiveUp` (the early return at :647) and `ShortRun`; the loop over the match
list is the set `Matches`.  `acsmCaleFullMatchSnort` is the operators
`TrailingRun`, `RunValue`, `RepeatValue`, `InTable`; `RunValue` keeps the
`unsigned char` of the code, and `InTable` that of `countRepeatTwice`.  A search
begins with fields in `Leftovers`, because only the replay driver calls
`initAcBeforeSearch`.

`OriginSearch` - `originMatch` is called once per entry of the match list.
`UnboundedSearch` - the text lies between three arbitrary bytes and one or two;
`main` repeats the search `SearchRunTime` times without resetting
`foundCounter`, and `fullMatchFromQueue` runs after each search in mode 14.
The callbacks that walk the match list take one step per entry (`Visit`) with
their own test: `FullMatch` (modes 0 and 10), `LastCharMatch` (8, 11),
`filter(Entry) = digest(Entry)` and then `AllButLast` (12).  Those that answer
for the whole list at once are one step, `VisitAll`: the walk down a tree
(1, 2), the longest other half (6), the second walk through the automaton and
its marks (4).  There a half whose mark nobody has set is counted when it is met
behind the first byte: `strays` records those, as `hits` does the places found.
What they prepare once per final state (`postprocess`) is in `OtherHalf`, as
operators of the match list.  `digest` keeps the `unsigned char` of the code.
The states `crashed` are where the code dereferences a null pointer: mode 10
sets no callback and calls it for the state the last byte leads to; mode 9
compares into `patternIdGroup`, which `main` creates for mode 0 only; the trees
of modes 1 and 2 reverse a string of which nothing is left.

`AcFilter` - both phases inside the repetition loop of `main`.
`filterFlagGroup` is the set of the indices whose flag is 1; the flags are
never cleared.  `start` is unsigned in the code: a window that would begin
before the text marks nothing.  The callback for the state at the end of the
text writes up to three flags behind the array, which nobody reads.

`DirtyCount` - `OriginSearch` with the callback of mode 24 in place of
`originMatch`; its variables are added, the steps are shared.

`Replay` - the AC driver is composed with `OriginSearch`, `DirtyCount`,
`OddEvenSearch` and `RepetitionSearch`: these are instances over the variables
of this module, and a step of the search is a step of one of them; `EnterEngine`
is what `initAcBeforeSearch` and the head of each search reset.  `mwmSearch` is
one step that does what `WuManberSearch` is checked to do.  `Words` are the
words `fscanf` sees, so that an empty text is no word; `strategy` is the mode
`setAcStrategy` has set up before `openClockFile` assigns 16 to `config.mode`.
`cause` says why the program has ended early.

`WuManberPrep` - one action per pattern added, per hash group entered, per row
of a shift table and per pattern prepared for Boyer-Moore; the loops over the
bytes of a row are set expressions.  `qsort` is any order `sortcmp` accepts.
`HASH16` of a one-byte pattern reads a byte the program never wrote: any byte.
`Short` is the conversion to `HASH_TYPE`.  A pair of bytes stands for the
16-bit index of `msHash` and `msShift2`.

`WuManberSearch` - `T`, `B`, `Tleft` are the locals of the three searches,
which share the actions for the prefix hash, the pattern group
(`mwmGroupMatch2`) and the step to the next byte; `search` selects between them
as the function pointer does.  One pass of a shift loop is one action, for bad
characters with its two shifts.  `noCase` and `msLargeShifts` belong to the
interface of the engine and are modelled, although this program passes 0.
`hbm_match`, with its pointer `t`, is one action per byte (one-byte patterns),
per pass of the scan loop and per comparison.

Left out everywhere: printing, clocks, statistics counters, allocation sizes,
and the parameters every caller passes as 0 (`nocase` of the automata,
`offset`, `depth`, `negative`).

## 3. Runs

| Run | Instance | Shows |
|---|---|---|
| `build` | every file of one pattern of 1-4 bytes or of two (1-3 and 1-2 bytes) over 2 chars, seven longer files over 3 chars (shared prefixes, nested and repeated patterns, failure chains of length 3, one file with nothing to halve), 14 modes; 71,435 states | the two breadth-first passes never read what is not final; the automaton is right, no pattern is lost or doubled, every failure link leads to a shallower state, compilation ends |
| `odd_even` | every text of 0-7 bytes over 2 chars, 4 files, with and without one-byte patterns; 32,266 states | exactness at every step and at the end, refinement of `PatternMatcher`, termination |
| `repetition` | every text of 0-10 bytes over 2 chars, 3 files, with and without one-byte patterns, 3 leftovers; 421,176 states | run bookkeeping; exactness without three equal skipped bytes in a row |
| `origin` | the instance of `odd_even`, modes 3, 20 and 24; 22,361 states | the same for the plain search; the dirty count adds each byte once |
| `unbounded` | every text of 0-6 bytes between bytes of any value, 5 files, searched twice, modes 0, 1, 2, 4, 6, 8 to 12 and 14; 870,968 states | reads stay within one byte of the text (digests and trees: three in front, mode 9: two behind), the exact second phases find every occurrence and their inventions touch an edge (mode 4: except for patterns of two and three bytes), runs agree |
| `short_missed` | mode 4, one search | **violation**: an occurrence of a pattern of two or three bytes is looked for in the wrong place |
| `digest_missed` | mode 12, one search | **violation**: an occurrence whose other half has two bytes is rejected by the digest |
| `ac_filter` | every text of 0-9 bytes over 2 chars, 4 files, 3 runs; 180,228 states | mode 13 is an exact search of the text without the unmarked bytes, in each run; what the first phase sees in time is counted; flags stay near the array |
| `replay` | 14 command lines, 5 files of automata, trace files of up to 3 texts of up to 10 bytes; 333,791 states | each search adds what its text holds, searches leave nothing behind, the counters agree, early ends are those the files explain, refinement of `PatternMatcher`, termination |
| `thread_never_started` | the files of `replay` in mode 19 | **violation**: the places of one-byte patterns are missing in the result |
| `wu_prepare` | eight chosen groups, every group of one pattern of 1-3 bytes or two of 1-2 over 3 chars, with and without `noCase` and large shifts; 8,376 states | groups exact, shifts safe, those of `msShift` the largest that are, no pattern lost, preparation ends |
| `wu_search` | one group with one-byte patterns, three with shortest patterns of 2, 3, 4 bytes, five small groups for Boyer-Moore, each search and `noCase`; texts of 0-7 bytes; 159,489 states | exactness at every step, refinement of `PatternMatcher`, termination |

Bounds.  Two chars suffice to make every pair of bytes equal or different, which
is all the engines ask; three are used where a failure chain should have side
branches.  Files hold patterns of even and odd length, patterns inside others,
duplicates, and one-byte patterns.  Seven bytes of text let the longest pattern
(5 bytes) start at both parities and touch both ends, with text lengths of both
parities; `fullMatchSnort` reuses or gives up a comparison only at the fourth
equal skipped byte, offset 8, so the repetition run takes texts of up to ten
bytes.  The files of `unbounded` include lists with several
entries of one length, other halves that end in one another (the trees), and
runs of equal bytes.  The automata are those the modes build: in mode 9 without
the patterns of one and two bytes, in the others without those of one byte.
Every mode meets every file.  The texts of `ac_filter` are long enough for a gap
between two windows, its three runs for a run that finds flags of two others.
The files of `replay` have equal ids, an unknown id, an automaton without
patterns, one with one-byte patterns only, equal and empty texts; three texts
let a second search of one automaton follow one of another.  `AlphabetSize`
(256 in the code), the texts, the files, `UChar`, `SearchRunTime` and the
memory in front of a text (`Fronts`: three bytes, any two of them arbitrary) are
the only bounds; no counter is capped.

For Wu-Manber three bytes are used, a letter, its capital and one that is no
letter, and in the search a fourth that no pattern has, so that the longest
shift happens.  `MaxShift` (255 in the code) is 3, so that some
groups have patterns longer than it; `FewPatterns` is the code's 5.
`ShortBits` is the code's 16: the indices of the instances are far below the
bound, what happens beyond it is not checked.  Patterns whose window
ends always with the same byte make shifts of every length happen.

Assumed of the environment: files are well-formed apart from what `Replay`
makes of them (a word that is no hexadecimal number), allocation succeeds, the
directory `log/` exists.

Fairness.  The runs with liveness properties (`build`, `odd_even`, `replay`,
`wu_prepare`, `wu_search`) assume weak fairness of `Next` as a whole: one sequential thread that keeps
running.  Nothing is assumed about which alternative is taken.

### Disagreements

`src/README.md:4` says that in the second phase "a full match is performed to
determine if sub input text matches patterns".  Two runs show where a search
counts less (1, 2), a third where the replay driver does (3).

1. `method_filter_digest.c:115` - the digest of a pattern is made from every
   second byte, that of the text from adjacent ones.  Pattern 101 in 1101: not
   found in mode 12, found in modes 8 and 11.
2. `aho_corasick.c:2157` - in mode 4 both halves of a pattern of two or three
   bytes get the mark `depth - 1`, also the half that does not end the pattern;
   when that half is the one that was read, the other is looked for two bytes
   early.  Pattern 01 in 01: not found.  With the mark of the longer patterns it
   would be.
3. `simulate_snort_ac_search.c:634` - assigns 16 to the mode where it means to
   compare, so that the helper thread of mode 19 (:649-664) is never started and
   its "Length One Match Count" (:765-769) never added, while the search leaves
   the one-byte patterns to it.  Pattern 1 in 01: not counted.

Other facts met while modelling.  They are part of the models, and the
properties are stated so that they hold in spite of them:

* `method_odd_even_snort.c:647`: after more than two equal skipped bytes
  `fullMatchSnort` returns without comparing, although for a byte that is not in
  the state's repetition table nothing says that the last result could be taken
  over.  Of the three occurrences of pattern 01 in 0001010100 two are counted.
* `method_odd_even_snort.c:635` adds `lastFoundPatternCount`, the result of a
  full match made before the run was long enough: pattern 00010 stands once in
  0000000101010 and is counted twice.  `ExactWithoutRepetition` speaks of texts
  without such runs, for this fact and the one before.
* `full_match` and the callbacks like it compare bytes outside the text:
  pattern 01 is counted in the text 1 when the byte before it is 0.
  `OnlyEdgesInvented` confines this to the edges.
* Mode 13 misses occurrences decided one byte late: the window leaves out their
  first byte.  A pattern abc is missed at offsets 0 and 2 and counted at 1.
  `SeenInTimeAreCounted` says which are safe.
* Mode 4 counts halves of one byte whose mark nobody has set
  (`aho_corasick.c:2201`), whatever stands beside them, and with the mark of 3
  can take two halves two bytes apart for a match: `OnlyEdgesInvented` confines
  both to patterns of two and three bytes.
* Mode 24 does not count the bytes of a match that lie before the end of an
  earlier, shorter match: `DirtyBytes`.
* Mode 9 ends in a null pointer once a half has been seen, mode 10 when a half
  ends with the text (`aho_corasick.c:1819`), modes 1 and 2 when a tree has
  nothing left to reverse (`method_char_tree.c:104`), mode 0 in the replay
  driver with the first half seen.
* `method_odd_even_snort.c:634` reads `isFoundRepetition == 1;`: the flag, which
  should keep the bytes of the repetition table from the early return at :647,
  is never set.  The miss of pattern 01 does not depend on it: its byte is not
  in the table.
* `snort_wu_manber.c:1505`: with fewer than five patterns only the first place
  in capitals is tested for its case, a later one never looked at, although the
  comment at :1506 says "no match".  `HitsAreSettledPlaces` expects just that
  place of such a group (`FirstPlace`).
* From pattern 32,768 on a hash entry of Wu-Manber is negative
  (`snort_wu_manber.c:741`).  Digests of different bytes can be equal modulo
  256; two byte values are too few to show it.

## 4. Proofs

For every alphabet, every automaton that meets `Automaton`, every file and
every text (assumptions `AutomataAssumption`, `TextsAssumption`; for Wu-Manber
every group that meets `WuManberTables`, `GroupsAssumption`; for the
construction every file of patterns that are not empty, `AlphabetAssumption`
and `InputAssumption`):

* `TypeCorrect`, `StatesDistinct`, `FailureLinks`, `FailureChain`, `MatchLists`,
  `DfaRows`, `PatternsAccounted` and `CompiledAutomaton` (`AhoCorasick_proofs`) -
  `acsmCompile2` builds the automaton the searches assume.
* `PreparedGroup` (`WuManberPrep_proofs`) - `mwmPrepPatterns` builds the group
  `mwmSearch` assumes, for every file whose indices fit into `HASH_TYPE`
  (`IndicesFit`: up to 32,768 patterns; beyond that it is false, see
  `snort_wu_manber.c:741` above) and under `FilesAssumption`.

* `TwoPhaseMatch` (`SubPattern_proofs`) - once a half has matched, the bounded
  comparison of the other half succeeds exactly if the pattern stands in the
  text.  It rests on the closed forms of `start` and `indexEnd`
  (`SplitArithmetic`) and on the two halves covering the pattern
  (`HalvesCover`).
* `TypeCorrect`, `StreamTracked`, `HitsCorrect`, `FoundExact`,
  `SearchRefinesMatcher` (`OddEvenSearch_proofs`).
* `RunTracking`, `ExactWhereNothingRepeats` (`OddEvenSearch_proofs`) - the run
  bookkeeping of `fullMatchSnort` is right, and the shortcut does no harm where
  no skipped byte comes three times, whatever an earlier search has left behind
  (also assumed: `UCharAssumption`).
* `TypeCorrect`, `StateTracked`, `HitsCorrect`, `SearchRefinesMatcher`
  (`OriginSearch_proofs`).
* `TypeCorrect`, `HitsCorrect`, `SearchRefinesMatcher`
  (`WuManberSearch_proofs`).
* `DirtyCounted` (`OriginSearch_proofs`) - mode 24 adds up every dirty byte
  once.
* `VisitedCounted`, `SeenInTimeCounted` (`AcFilter_proofs`) - what mode 13
  counts in every run, and what it cannot miss.
* `EdgesOnlyInvented`, `RunsCountAlike` (`UnboundedSearch_proofs`) - the eleven
  modes without bounds checks miss nothing (except mode 12), count nothing but
  occurrences and places that need a byte next to the text, and count the same
  in every run.  In mode 4 that leaves out the patterns of two and three bytes
  at offsets where the half read does not end them (`Misplaced`), and what is
  counted includes halves of one byte that have no mark (`strays`); the theorem
  bounds both to those patterns.
* `ReadsStayNearText` (`UnboundedSearch_proofs`) and `FlagsStayNearArray`
  (`AcFilter_proofs`): the memory those searches touch outside their arrays is
  bounded by one to three bytes, for patterns of every length.

The inductive invariant of the construction is `IInv`, one conjunct per data
structure.  `TrieInv`: `label` is a bijection between the states up to
`acsmNumStates` and the prefixes of the patterns added, an entry of a list
leads to the string with that char at the end, and a match list holds the
patterns that end there.  `NfaInv` and `DfaInv` say what a breadth-first pass
has finished.  The queue is ordered by length and its lengths differ by at most
one (`Ordered`, `After`), and each state is either finished (`Settled`,
`FinalEntry`) or waits: it is in the queue, or it is below the state whose row
the pass is in, at a char the pass has still to come to (`WaitsInNfa`,
`WaitsInDfa`).  `FailureLinksCorrect` alone is not inductive, because a failure
state is final only if all shorter states are; the order of the queue gives
that.  `FoundFailure` shows that where `nfa_fail` stops, the longest suffix has
been found: on the way up the chain no longer suffix of the string has been
passed over.  `JoinedLists` shows that putting the list of the failure state
behind the own one gives all patterns that end there, each once, since the own
one is as long as the state.  In the second pass `FailureRow` and
`InheritedEntry` show that an entry taken from the row of the failure state is
the longest suffix again, and `RowAdvances` carries a half-filled row through
`dfa_char`.  Arguments by induction on lengths are written as arguments on a
least counterexample (`UpTo`).

The invariant of the Wu-Manber preparation is `PrepInv`, a conjunct per loop of
`mwmPrepPatterns`: the array holds every pattern of the file once, in the order
of `sortcmp` (`ArrayCorrect`; the places are an injection between two finite
sets of the same size, so nothing is lost), the hash tables describe the groups
of the patterns before `i` (`HashedUpTo`), each row of a shift table behind the
loop holds its minimum (`CharShiftsUpTo`, `WordShiftsUpTo`, `BmhUpTo`).  The
search needs the patterns of one hash to lie together.  Of the order `sortcmp`
makes only the first two bytes matter (`SortedByHash`), and an order of the
neighbours in these is an order of all (`HashOrderTransitive`, `OrderedPairs`).
`HASH16` of a one-byte
pattern reads a byte behind it, but a one-byte pattern never stands behind a
longer one with the same first byte (`OneByteFirst`), so whatever that byte is,
the loop over longer patterns ends a group where it should
(`PrefixGroupEntered`).  Carried along is also that `i` is in no group of a
pattern before it.  `SmallestNumber` replaces induction again.

The inductive invariant of the two-phase search is `SearchInv`: types, `StateTracksStream` (first
phase), `HitsAreSettledOccurrences` (both phases), `CountedOnce`, and
`EndReached`.  `FoundExact` alone is not inductive: it speaks of the end only.
What has to be carried along is *which* occurrences have been reported, and
that is determined by `T`, `pc` and the position in the match list: the
occurrence at offset `o` of a pattern of `m` bytes is decided when
`T = o + Start(m, o % 2)`, through the half whose flag is the parity of `o`.
`MatchListTracks` ties the entries of the current match list to the text by
way of the first phase, `EntryDecides` (with `TwoPhaseMatch`) says which
occurrence an entry decides, and `OccurrenceDecided` that each occurrence gets
its turn before the search ends.  The rest is one lemma per action
(`HitsCountOneLen`, `HitsFullMatch`, `HitsAdvance`, ...), and for the counter
the fact that an entry never decides what has been reported (`DecidesNew`).

For `RepetitionSearch` three invariants carry the argument, and none of them
speaks of how the leftovers of an earlier search came about.  `RepPlace` says
that `state` and `lastState` are the last two values of `StateAfter`.  That
function is defined recursively; that it has a value for every text is
`PathExists`, by the least text length without one.  `RunTracked` says that
the fields describe the run up to this place after a callback, and up to the
place before, if the state has not changed since.  In between they may be
anything: while the states have no match list the fields are not touched.  That
is harmless because the first callback in a state finds `lastState # state`:
state 0 has no list (`NoListAtStart`), so every state with one is entered from
another, and `StateEntered` starts a new run.  `RunBroken`, `RunRestarts` and
`RunOneLonger` are the three ways a run goes on, and `TableAllowsLong` shows
that no value of the repetition table, wrapped or not, lets a run of one or two
reuse a result.  For `CountsTurns` it follows that without three equal skipped
bytes every callback ends in a full match (`FullMatchAlways`).  A full match
adds as many as are due at `T` (`DueCount`: `EntryPlace` makes the entries that
match and the occurrences decided at `T` correspond one to one), and where no
callback happens nothing is due (`NothingDue`).

The plain search has the same argument without the parities: an occurrence is
settled when the byte after its last is the next to read.  The invariant is
again called `SearchInv`; `TracksNext` carries the state along, `OccurrenceListed`
and `EntryOccurrence` tie the match list to the occurrences that end at `T`,
and `CountsNew` keeps the counter equal to the number of what was reported.
Since the three searches implement `PatternMatcher`, each ends with the number
of occurrences of the patterns it knows; that is what makes the timing
comparisons of the drivers comparisons of equal work.

`mwmSearch` counts as it goes, and what has to be carried along is that nothing
was skipped.  A place is settled when the window has moved past it, or stands
on it and the pattern has had its turn in its group; in the Boyer-Moore branch
when all earlier patterns are done.  `SearchInv` adds to that the window
(`TypeOK`), that `patrn .. patrnEnd - 1` is the untested end of exactly the
group the hash of the current bytes stands for (`GroupInv`), and that
`hbm_match` has ruled out every earlier place of its pattern (`ScanInv`).  All
three kinds of shift rest on one lemma, `SafeShift`: a place the shift would
jump over would put one of the pattern's bytes under the end of the window, and
the table entry of that byte forbids the shift; `CharShiftSafe`,
`WordShiftSafe` and `BmhShiftSafe` are its uses.  The second shift of a pass is
the first one again, from the window the first has left.  There is one lemma
per action (`HitsBadChar`, `HitsPrefixHash`, `HitsScan`, ...).

`ReadsStayNearText`: the automaton has read one of two bytes, so the string it
stands for has at most half as many bytes as the text so far (`NearInv`), and
its other half reaches no further than one byte beyond that; for the longest
half of a list the set of lengths must have a largest element
(`LargestNumber`, by well-foundedness of the numbers).  `FlagsStayNearArray`
uses the same lemma for `acsmCaleMaxPatternLength`.

What these searches find is a matter of *places*, pattern and offset, where the
offset may be -1.  `Seen` are the places whose half stands in the bytes the
automaton reads, `TurnOf` is the `T` at which the other half is compared,
`Total` the places the comparison accepts: `Stands`, in the text and the memory
next to it, or `DigestAgrees` in mode 12, or, where mode 4 misplaces the mark of
a short pattern, `FoundEarly`: the other half stands two bytes before its place.
`AllStrays` are the halves that the second walk of mode 4 meets behind its first
byte while nothing has set their mark, a matter of the bytes around one `T`
(`UnmarkedAt`).  `Passed` are the places that had their turn.  `SearchInv` says
that `hits` is `Total \cap Passed`, that `strays` is the part of `AllStrays`
whose lists have been settled, and that `foundCounter` is the number of both and
`RunTotal`, the size of `Total` and `AllStrays`, for each run before; in
mode 9 it is the small patterns before `T`, and no longer pattern has had a
turn; in mode 14 the queue holds each of `Passed` exactly once, and later
`hits` is what was accepted of the part already compared.  `OnlyEdgesInvented`
and `RunsAgree` are not inductive: they speak of the end of a run, and what
`Total` and `AllStrays` hold is a matter of the inputs alone (`PlacesKept`).
That `Total` holds all occurrences but the misplaced ones is `ExpectedFound`,
that it holds nothing else inside the text `InventedAtEdge`, and that a stray is
a half of one byte `StraysShort`.

The automaton reads every second byte of the memory as a text of its own
(`EvenStream`), so the lemmas on `Reads` apply (`StreamGoesOn`), and the match
list at `T` is, entry for entry, the places whose turn is `T`
(`EntryIsPlace`, `PlaceIsListed`, `PlaceListedOnce`).  It remains to show, for
each way of settling a list, that it accepts what `Total` holds:

* entry by entry: `VisitDecides`; the last byte first is the same comparison in
  another order (`LastByteFirst`), and from the queue it is the same comparison
  later (`QueuedDecided`).
* mode 6: the other halves that are suffixes of the longest one agree with the
  text as far as that one does (`SynthesisDecides`), and the sum of
  `subPatternArray` up to there is their number (`AddedCounts`).
* modes 1 and 2: a place is accepted if its word in the tree is the path the
  skipped bytes spell (`TreeDecides`); the node where the walk ends, or the last
  final one, lists the words of all nodes above it (`TreesKeep`).
* mode 4: the second walk through the automaton, over the skipped bytes, is in a
  state that lists the other half where the mark says it must end
  (`SubStatesRead`, `SiblingMark`).  The halves counted are those with a sibling
  in the list, which correspond one to one to the accepted entries
  (`MarkedHasSibling`, `MarkedCount`), and those without, which are the strays
  of this `T` (`StrayNow`, `UnpairedCount`).  A list that is about to be read
  has none behind it (`StraysWait`).

The recursive functions of modes 4 and 6 have a value for every length
(`IterationExists`, by the least length without one).  The assumption on the
automata is `AutomataAssumption`: they meet `Automaton`, and `plist` holds both
halves of every pattern of at least `minLength` bytes, once
(`PatternsAccounted` says so of the construction).

`DirtyInv` adds to the invariant of the plain search that `lastPosition` is the
end of the last reported match, 0 when there is none (`LastEnd`).  A match list
is gone through entry by entry while `T` stands still.  The first entry adds the
bytes behind `lastPosition` the longest match of the list reaches back to, at
most `T - lastPosition`; the others add nothing, because `lastPosition` is `T`
by then.  In `DirtyBytes` the new end `T` becomes the next end of exactly the
bytes behind `lastPosition` and of no earlier one.

`FilterInv` of mode 13 has a part for each phase.  While the first phase runs,
the split automaton has read the even bytes before `T`, the windows of all
earlier even places are marked, and `foundCounter` is what the run before left.
Once a first phase has ended, all windows are marked (`AllMarked`), so the first
phase of a later run marks nothing new and `VisitedText` no longer changes; that
is why the flags that are never cleared do no harm.  While the second phase runs,
the whole automaton has read as much of `VisitedText` as there are marked bytes
before `T`, and `foundCounter` has grown by the occurrences in it that end before
that.  `SubPattern_proofs` holds the lemmas on an automaton that reads some text
(`ReadsStart`, `ReadsNext`, `ReadsLists`), which the plain search uses as well.
`SeenInTimeCounted` follows: the window of such an occurrence has no gap, so
its place in `VisitedText` is its place in the text less the unmarked bytes
before it, and two occurrences never meet there.  `AcFilter` assumes
(`AutomataAssumption`) that the two automata meet `Automaton` and were built
from the same file, one from the halves and one from the whole patterns;
`CompiledAutomaton` and `PatternsAccounted` say so of the construction.

`CountedOnce` is part of the inductive invariant of the two-phase search only.
Only model-checked: what the repetition shortcut counts in texts that do repeat
(too little, see above, so there is no bound to prove), the replay drivers, and
everything about termination (liveness and ENABLED are beyond the prover).

## 5. Not modelled

* Mode 5 (`method_longest_sub_pattern.c`): an unfinished prototype whose
  callback indexes bytes outside the pattern, so that the result depends on the
  heap.  Mode 15: `acsmSearchWithOddEvenHash` does search, but it indexes rows
  of 256 entries with two bytes, `(T[0] << 4) + T[1]`, up to 4,095, so that its
  path depends on the heap, and its callback, `fullMatchDoNothing`, counts
  nothing.  Mode 18
  (`method_twice_odd_even.c`): an unfinished rewrite that keeps an automaton
  state from text to text and reads bytes twice; nothing says what it should
  count.
* Reading pattern and trace files (`util_file.c`, `util_paser.c`) and the
  command line: input without branches that a search could feel.
* `analysis_remain_*.c`, `profile.c`, `statistic.c`, `clock_count.c`: figures
  about finished automata and searches.
* `stable_aho_corasick.c`, `twice_aho_corasick.c`, `method_template.c` and the
  other files the makefile does not link: older copies.
* The rule sets and scripts.  Some 50,000 of the 64,000 lines of C in the
  repository are `src/snortrules-snapshot-2976/so_rules`, third-party rule data
  the program neither compiles nor reads; the models stand for the engines and
  drivers among the 12,500 lines of `project/src`.
* Two hazards without a model: `createAhoCorasick` ends without a return
  statement (`aho_corasick.c:2115`), and the queue of mode 14 stores an index in
  an `unsigned short` that only patterns of 65,536 bytes exceed
  (`method_odd_even_queue.c:17`).

What stays with TLC, and why: the invariants of `Replay`.  Its engines search
automata computed by `ReferenceAutomaton` from the pattern file, by recursion
over the file, and its texts and counts are folds (`FlattenSeq`,
`MapThenSumSet`) over the trace; what such a definition computes for every file
and every trace is an induction over data, which the provers cannot do.  The
engines themselves are covered: each search `Replay` calls has its theorems in
its own module, for every automaton that meets `Automaton` (of the repetition
shortcut what is said above), and `AhoCorasick_proofs` proves that the code's
construction delivers such an automaton.
