--------------------------- MODULE MCProviderChain ---------------------------
(* Small instances of ProviderChain: the callers are interchangeable.      *)
EXTENDS ProviderChain, TLC

CONSTANTS EUR, USD, MXN

ReferenceRates == EUR :> 6 @@ USD :> 5 @@ MXN :> 1

ApiOfSource == [s \in Sources |-> IF s = "primary" THEN "frankfurter" ELSE "exchangeratesapi"]

Symmetry == Permutations(Callers)

=============================================================================
