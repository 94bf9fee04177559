----------------------------- MODULE MCEmitter -----------------------------
(* Emitter with two event types.                                           *)
EXTENDS Emitter, TLC

CONSTANTS alpha, apple

Symmetry == Permutations({alpha, apple})
=============================================================================
