---------------------------- MODULE MCRatesService ----------------------------
(* Small instances of RatesService.  Workers and handlers are              *)
(* interchangeable: the runs of safety properties use Symmetry.            *)
EXTENDS RatesService, TLC

Symmetry == Permutations(Workers) \cup Permutations(Handlers)

=============================================================================
