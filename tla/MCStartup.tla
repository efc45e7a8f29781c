------------------------------ MODULE MCStartup ------------------------------
(* Small instances of Startup: builds of two migrations, and an older one. *)
EXTENDS Startup

CONSTANTS new1, new2, old

ShippedByBuild == [i \in Instances |-> IF i = old THEN 1 ELSE 2]

Defaults == [provider |-> "", key |-> FALSE, currencies |-> <<"EUR", "USD">>,
             count |-> [c \in DOMAIN DefaultCount |-> << >>],
             time |-> [d \in DOMAIN DefaultTime |-> << >>]]

(* The defaults, the boundaries, and what Load refuses. *)
Deployments ==
  { [Defaults EXCEPT !.key = TRUE, !.count = [c \in DOMAIN DefaultCount |-> <<0>>],
                     !.time = [d \in DOMAIN DefaultTime |-> <<0>>]],
    [Defaults EXCEPT !.provider = "exchangeratesapi", !.count["workers"] = <<2>>,
                     !.time["base"] = <<100>>, !.time["interval"] = <<-1>>],
    [Defaults EXCEPT !.currencies = <<"EUR", "", "EUR">>] }

=============================================================================
