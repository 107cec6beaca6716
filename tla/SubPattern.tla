----------------------------- MODULE SubPattern -----------------------------
(***************************************************************************)
(* How a pattern is cut into its even and odd halves (the "sub patterns")  *)
(* and what is remembered about each half.  An ACSM_PATTERN2 is a record:  *)
(* iid is the pattern number, flag says which half patrn is (0: bytes      *)
(* 0, 2, 4 ..., 1: bytes 1, 3, 5 ...), start and indexEnd place the other  *)
(* half relative to the text pointer at the time patrn has been matched.   *)
(***************************************************************************)
EXTENDS TextMatch

(* splitPatternLengths[flag]: bytes flag, flag + 2, ... below n. *)
HalfLength(n, flag) == (n + 1 - flag) \div 2

Half(p, flag) == [j \in 1 .. HalfLength(Len(p), flag) |-> p[2 * j - 1 + flag]]

Same(n) == IF HalfLength(n, 0) = HalfLength(n, 1) THEN 1 ELSE 0

(* Faulty: the two cases swapped. *)
StartSwapped(n, flag) == IF flag = Same(n) THEN n ELSE n + 1

Start(n, flag) == IF flag = Same(n) THEN n + 1 ELSE n

(* Faulty: right for an even number of bytes only. *)
IndexEndOfEven(n, flag) == n - 1 - flag

IndexEnd(n, flag) ==
    IF flag = 0 THEN n + Same(n) - 2 ELSE n - Same(n) - 1

(* The indices i = indexEnd, indexEnd - 2, ... >= 0 the full match visits. *)
RestIndices(indexEnd) == {i \in 0 .. indexEnd : (indexEnd - i) % 2 = 0}

SubPatternOf(p, iid, flag) ==
    [iid      |-> iid,
     flag     |-> flag,
     origin   |-> p,
     patrn    |-> Half(p, flag),
     start    |-> Start(Len(p), flag),
     indexEnd |-> IndexEnd(Len(p), flag)]

(* A pattern of the unsplit automaton: the whole pattern is in the trie.   *)
(* The code has no start for it; here it leads back to the first byte of   *)
(* an occurrence, for the properties.                                      *)
WholePattern(p, iid) ==
    [iid      |-> iid,
     flag     |-> 0,
     origin   |-> p,
     patrn    |-> p,
     start    |-> Len(p),
     indexEnd |-> 0]

(* plist holds both halves of every pattern of two bytes or more, each     *)
(* once, and nothing else.                                                 *)
HalvesOf(plist, patterns) ==
    /\ \A e \in DOMAIN plist :
        /\ plist[e].iid \in DOMAIN patterns
        /\ Len(patterns[plist[e].iid]) >= 2
        /\ plist[e].flag \in {0, 1}
        /\ plist[e] = SubPatternOf(patterns[plist[e].iid], plist[e].iid, plist[e].flag)
    /\ \A id \in DOMAIN patterns, flag \in {0, 1} :
        Len(patterns[id]) >= 2 =>
            \E e \in DOMAIN plist : plist[e].iid = id /\ plist[e].flag = flag
    /\ \A e1, e2 \in DOMAIN plist :
        plist[e1].iid = plist[e2].iid /\ plist[e1].flag = plist[e2].flag => e1 = e2

(* plist holds every pattern of at least minLength bytes once, unsplit. *)
WholesOf(plist, patterns, minLength) ==
    /\ \A e \in DOMAIN plist :
        /\ plist[e].iid \in DOMAIN patterns
        /\ Len(patterns[plist[e].iid]) >= minLength
        /\ plist[e] = WholePattern(patterns[plist[e].iid], plist[e].iid)
    /\ \A id \in DOMAIN patterns :
        Len(patterns[id]) >= minLength => \E e \in DOMAIN plist : plist[e].iid = id
    /\ \A e1, e2 \in DOMAIN plist : plist[e1].iid = plist[e2].iid => e1 = e2

=============================================================================
