---------------------------- MODULE MCIdempotency ----------------------------
(* Small instances of Idempotency: handlers and keys are interchangeable.  *)
EXTENDS Idempotency, TLC

Symmetry == Permutations(Handlers) \cup Permutations(Keys)

=============================================================================
