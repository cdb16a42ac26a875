---------------------------- MODULE MCPromotion ----------------------------
EXTENDS Promotion, TLC

CONSTANTS c1, c2, r1, r2, r3

(* Two candidates that were given the same release identifier; the first   *)
(* is certified twice.                                                     *)
MCReleaseId == [c \in {c1, c2} |-> "a"]
MCCandOf == [r \in {r1, r2, r3} |-> IF r = r3 THEN c2 ELSE c1]
MCSymmetry == Permutations({r1, r2})
=============================================================================
