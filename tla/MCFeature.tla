----------------------------- MODULE MCFeature -----------------------------
(* An instance of Feature: the pinned plan and a stray one, two questions.    *)
EXTENDS Feature, TLC
CONSTANTS own, stray
MCPlans == {own, stray}
Alike == Permutations(Questions)
=============================================================================
