----------------------------- MODULE TextMatch -----------------------------
(***************************************************************************)
(* Vocabulary shared by the search engines: byte strings as C sees them,   *)
(* and the reference definition of what a multi-pattern search must find.  *)
(* Nothing here is taken from an engine; the engines are compared with it. *)
(***************************************************************************)
EXTENDS Integers, Sequences, FiniteSets

(* C's s[i]: TLA+ sequences start at 1. *)
At(s, i) == s[i + 1]

(* w is a suffix of v. *)
EndsWith(v, w) ==
    /\ Len(w) <= Len(v)
    /\ \A i \in 1 .. Len(w) : w[i] = v[Len(v) - Len(w) + i]

(* label[s] is the longest label that is a suffix of the word v. *)
IsLongestSuffix(label, s, v) ==
    /\ EndsWith(v, label[s])
    /\ \A t \in DOMAIN label : EndsWith(v, label[t]) => Len(label[t]) <= Len(label[s])

(* w is v without its last element. *)
IsFrontOf(w, v) ==
    /\ Len(w) = Len(v) - 1
    /\ \A i \in 1 .. Len(w) : w[i] = v[i]

(* The pattern p stands in the text t at offset o. *)
OccursAt(p, t, o) ==
    /\ o >= 0
    /\ o + Len(p) <= Len(t)
    /\ \A i \in 0 .. Len(p) - 1 : At(p, i) = At(t, o + i)

(* All the places <<pattern number, offset>> at which a pattern of at least *)
(* minLength bytes stands in t.                                             *)
Occurrences(patterns, minLength, t) ==
    {x \in (DOMAIN patterns) \X (0 .. Len(t)) :
        /\ Len(patterns[x[1]]) >= minLength
        /\ OccursAt(patterns[x[1]], t, x[2])}

=============================================================================
