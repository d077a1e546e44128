--------------------------- MODULE MCObjectLocks ---------------------------
(* Two tasks over one or two objects with up to three versions each, and at   *)
(* most MaxTotal versions of all objects together.                            *)
EXTENDS ObjectLocks, FiniteSetsExt, TLC

CONSTANTS t1, t2, o1, o2, MaxTotal

Symmetry == Permutations(Task) \cup Permutations(Object)

FewVersions == MapThenSumSet(Latest, Object) <= MaxTotal
=============================================================================
