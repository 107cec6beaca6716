----------------------------- MODULE DirtyCount -----------------------------
(***************************************************************************)
(* Mode 24: the search of module OriginSearch with the callback            *)
(* fulllMatchCountDirty, which besides foundCounter adds up how many bytes *)
(* of the text belong to a match (countDirtyCharacter).  lastPosition is   *)
(* the end of the last match; acsmSearchOrigin sets it to 0 before every   *)
(* search.                                                                 *)
(***************************************************************************)
EXTENDS OriginSearch, FiniteSetsExt

VARIABLES
    lastPosition,
    countDirtyCharacter

dirtyVars == <<vars, lastPosition, countDirtyCharacter>>

(* acsmCaleCountDirty: the longest pattern a state ends. *)
maxLengthGroup(a, s) ==
    Max({0} \cup {Len(a.plist[a.acsmMatchList[s][j]].patrn) : j \in DOMAIN a.acsmMatchList[s]})

DirtyInit ==
    /\ Init
    /\ lastPosition = 0
    /\ countDirtyCharacter = 0

(* Faulty: a second entry of the same match list adds its bytes again. *)
CountDirtyEachEntry ==
    /\ originMatch
    /\ countDirtyCharacter' = countDirtyCharacter + maxLengthGroup(acsm, state)
    /\ lastPosition' = T

(* The bytes up to the last match are never added again. *)
fulllMatchCountDirty ==
    /\ originMatch
    /\ countDirtyCharacter' =
         countDirtyCharacter + Min({maxLengthGroup(acsm, state), T - lastPosition})
    /\ lastPosition' = T

DirtyNext ==
    \/ fulllMatchCountDirty
    \/ (Advance \/ Finish \/ Done) /\ UNCHANGED <<lastPosition, countDirtyCharacter>>

DirtySpec == DirtyInit /\ [][DirtyNext]_dirtyVars

-----------------------------------------------------------------------------
(* Properties.                                                             *)

EndOf(x) == x[2] + Len(acsm.patterns[x[1]])

(* The first end of a reported match behind byte b. *)
NextEnd(b) == Min({e \in {EndOf(x) : x \in hits} : e > b})

(* A byte is dirty when a match that ends at the next end behind it        *)
(* reaches back to it; a longer match that ends later does not count: its  *)
(* bytes before an earlier end are taken for counted already.              *)
DirtyBytes ==
    {b \in 0 .. T - 1 :
        /\ \E x \in hits : EndOf(x) > b
        /\ \E x \in Expected : EndOf(x) = NextEnd(b) /\ x[2] <= b}

(* method_count_dirty.c:34-50: every dirty byte is added exactly once,     *)
(* however the matches overlap and nest and however many end at one place. *)
DirtyBytesOnce == countDirtyCharacter = Cardinality(DirtyBytes)

=============================================================================
