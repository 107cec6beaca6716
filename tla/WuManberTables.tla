--------------------------- MODULE WuManberTables ---------------------------
(***************************************************************************)
(* A prepared Wu-Manber pattern group (an MWM_STRUCT after                 *)
(* mwmPrepPatterns), and what the searches need it to be.  The searches    *)
(* assume it, the preparation (module WuManberPrep) is checked to deliver  *)
(* it.  A group is a record with the fields                                *)
(*   msNumPatterns, msPatArray   the sorted patterns, indices from 0       *)
(*   msHash, msHash1, msNumArray the patterns by their first two bytes, by *)
(*                               their only byte; -1: there is none        *)
(*   msShiftLen, msShift         bad-character shifts                      *)
(*   msShift2                    bad-word shifts                           *)
(*   msMethod                    "MTH_BM" or "MTH_MWM"                     *)
(*   search                      "NoBC", "BC" or "BW" (MTH_MWM only)       *)
(*   psBmh                       Boyer-Moore shifts per pattern (MTH_BM)   *)
(* and a pattern one with psPat (upper case), psPatCase, psNoCase, psIID.  *)
(* Two bytes that index msHash or msShift2 are a pair, in text order.      *)
(***************************************************************************)
EXTENDS TextMatch

CONSTANTS
    Char,    \* the bytes, numbers in the order of memcmp
    Upper    \* xlatcase: toupper of every byte

ASSUME CharAssumption == Char \subseteq Nat

ASSUME UpperAssumption ==
    /\ Upper \in [Char -> Char]
    /\ \A c \in Char : Upper[Upper[c]] = Upper[c]

(* ConvCaseToUpper *)
ToUpper(s) == [i \in DOMAIN s |-> Upper[s[i]]]

Indices(ps) == 0 .. ps.msNumPatterns - 1

PatLen(ps, k) == Len(ps.msPatArray[k].psPat)

(* Byte j (from 0) of pattern k, in upper case. *)
PatByte(ps, k, j) == At(ps.msPatArray[k].psPat, j)

(* The patterns a hash entry h stands for: msNumArray[h] of them from h on. *)
GroupAt(ps, h) == IF h = -1 THEN {} ELSE h .. h + ps.msNumArray[h] - 1

GroupsTyped(ps) ==
    /\ ps.msNumPatterns \in Nat
    /\ ps.msPatArray \in
         [Indices(ps) -> [psPat : Seq(Char), psPatCase : Seq(Char), psNoCase : Nat, psIID : Nat]]
    /\ \A k \in Indices(ps) :
        /\ PatLen(ps, k) > 0
        /\ ps.msPatArray[k].psPat = ToUpper(ps.msPatArray[k].psPatCase)
    /\ ps.msNumArray \in [Indices(ps) -> Nat]
    /\ ps.msHash \in [Char \X Char -> Indices(ps) \cup {-1}]
    /\ ps.msHash1 \in [Char -> Indices(ps) \cup {-1}]

(* Every hash entry leads to the patterns with that prefix, all of them    *)
(* and no others; a pattern of one byte is in the one-byte table only.     *)
GroupsExact(ps) ==
    /\ \A w \in Char \X Char :
        GroupAt(ps, ps.msHash[w]) =
            {k \in Indices(ps) : PatLen(ps, k) > 1 /\ w = <<PatByte(ps, k, 0), PatByte(ps, k, 1)>>}
    /\ \A c \in Char :
        GroupAt(ps, ps.msHash1[c]) =
            {k \in Indices(ps) : PatLen(ps, k) = 1 /\ c = PatByte(ps, k, 0)}

(* A shift never jumps over the first byte of a pattern: a byte that a     *)
(* pattern has at j < msShiftLen moves the window msShiftLen - 1 - j bytes *)
(* at most, and any other byte moves it by its length at most.             *)
ShiftsSafe(ps) ==
    /\ ps.msShiftLen \in Nat \ {0}
    /\ \A k \in Indices(ps) : ps.msShiftLen <= PatLen(ps, k)
    /\ ps.msShift \in [Char -> 0 .. ps.msShiftLen]
    /\ \A k \in Indices(ps), j \in 0 .. ps.msShiftLen - 1 :
        ps.msShift[PatByte(ps, k, j)] <= ps.msShiftLen - 1 - j

(* The same for two bytes at j and j + 1. *)
WordShiftsSafe(ps) ==
    /\ ps.msShift2 \in [Char \X Char -> 0 .. ps.msShiftLen - 1]
    /\ \A k \in Indices(ps), j \in 0 .. ps.msShiftLen - 2 :
        ps.msShift2[<<PatByte(ps, k, j), PatByte(ps, k, j + 1)>>] <= ps.msShiftLen - 2 - j

(* The search function fits the tables: the ones that skip bytes need      *)
(* patterns of two bytes or more.                                          *)
SearchFits(ps) ==
    /\ ps.search \in {"NoBC", "BC", "BW"}
    /\ ShiftsSafe(ps)
    /\ ps.search = "NoBC" <=> ps.msShiftLen = 1
    /\ ps.search = "BW" => WordShiftsSafe(ps)

(* The same for a pattern searched on its own, its own length being the    *)
(* longest shift.                                                          *)
BmhSafe(ps) ==
    \A k \in Indices(ps) :
        /\ ps.psBmh[k] \in [Char -> 0 .. PatLen(ps, k)]
        /\ \A j \in 0 .. PatLen(ps, k) - 1 :
            ps.psBmh[k][PatByte(ps, k, j)] <= PatLen(ps, k) - 1 - j

GroupCorrect(ps) ==
    /\ GroupsTyped(ps)
    /\ ps.msMethod \in {"MTH_BM", "MTH_MWM"}
    /\ GroupsExact(ps)
    /\ IF ps.msMethod = "MTH_MWM" THEN SearchFits(ps) ELSE BmhSafe(ps)

=============================================================================
