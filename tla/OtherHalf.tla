------------------------------ MODULE OtherHalf ------------------------------
(***************************************************************************)
(* The other half of a sub pattern, read from its end towards its front,   *)
(* and the two structures that keep the other halves of all the sub        *)
(* patterns of a final state: one longest other half that the others are   *)
(* suffixes of (method_synthesis.c), and a tree (method_char_tree.c, and   *)
(* as a bitmap method_bitmap_tree.c).  entries is always the set of the    *)
(* sub patterns in one match list.                                         *)
(***************************************************************************)
EXTENDS SubPattern, SequencesExt

OtherLength(p) == Cardinality(RestIndices(p.indexEnd))

(* The k-th byte from the end of otherPattern. *)
OtherFromEnd(p, k) == At(p.origin, p.indexEnd - 2 * (k - 1))

Reversed(p) == [k \in 1 .. OtherLength(p) |-> OtherFromEnd(p, k)]

(* flag == same: the pattern ends in this half, the other half ends before. *)
EndsHere(p) == p.flag = Same(Len(p.origin))

-----------------------------------------------------------------------------
(* createStrategySuffixSubPattern.                                         *)

Longest(entries) ==
    CHOOSE p \in entries : \A q \in entries : OtherLength(q) <= OtherLength(p)

(* Faulty: nobody asks where the other halves end. *)
SuffixesOfAny(entries) ==
    \A p \in entries : IsPrefix(Reversed(p), Reversed(Longest(entries)))

(* finalStateTypeGroup[state] = SSP: the other halves end at the same      *)
(* place, and all are suffixes of the longest one.                         *)
SuffixSubPattern(entries) ==
    /\ \A p, q \in entries : EndsHere(p) = EndsHere(q)
    /\ \A p \in entries : IsPrefix(Reversed(p), Reversed(Longest(entries)))

(* Of the longest: how many other halves have k + 1 bytes. *)
subPatternArray(entries) ==
    [k \in 0 .. OtherLength(Longest(entries)) - 1 |->
        Cardinality({p \in entries : OtherLength(p) - 1 = k})]

-----------------------------------------------------------------------------
(* The tree.  A node is the word that leads to it from the root.           *)

(* valueSubPatternReverseNoFirstChar: an other half that ends at the last  *)
(* byte the search has passed keeps this byte, firstChar, out of the tree. *)
TreeWord(p) == IF EndsHere(p) THEN Reversed(p) ELSE Tail(Reversed(p))

firstChar(p) == Head(Reversed(p))

(* Nothing is left of the other half to be reversed: right = index - 1     *)
(* wraps, and the first exchange is with a byte 4 GByte behind buffer.     *)
ReverseCrashes(p) == TreeWord(p) = << >>

Nodes(entries) ==
    {<< >>} \cup UNION {{SubSeq(TreeWord(p), 1, k) : k \in 1 .. Len(TreeWord(p))} : p \in entries}

(* processCharTree: firstCharList or wildcardList of the node. *)
OwnList(entries, node) == {p \in entries : TreeWord(p) = node}

(* duplicateCharTreeFinalNode: and those of the nodes above it. *)
NodeList(entries, node) == UNION {OwnList(entries, SubSeq(node, 1, k)) : k \in 1 .. Len(node)}

isFinalNode(entries, node) == NodeList(entries, node) # {}

=============================================================================
