------------------------- MODULE MCDocumentLifecycle -------------------------
(* Small instances of DocumentLifecycle: one owner, approvers, one admin. *)
EXTENDS DocumentLifecycle, TLC

CONSTANTS d1, d2, owner, amy, bob, cas, root

SameOwner == [d \in Docs |-> owner]

(* The approval chains an owner may configure. *)
NoChains == {}
InOrder == {<<amy, bob>>}
EitherOrder == {<<amy, bob>>, <<bob, amy>>}
ThreeSteps == {<<amy, bob, cas>>}
=============================================================================
