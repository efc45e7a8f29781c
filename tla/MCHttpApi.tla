------------------------------ MODULE MCHttpApi ------------------------------
(* Small instances of HttpApi: connections and workers are interchangeable. *)
EXTENDS HttpApi, TLC

Symmetry == Permutations(Conns) \cup Permutations(Workers)

=============================================================================
