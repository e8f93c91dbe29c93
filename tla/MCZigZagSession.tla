--------------------------- MODULE MCZigZagSession ---------------------------
(* Two parties, a key supply for each, and every kind of choice.           *)
EXTENDS Validator, TLC

CONSTANTS c1, c2, s1, s2

MCKeysOf  == (Client :> {c1, c2}) @@ (Server :> {s1, s2})
MCOneKey  == (Client :> {c1}) @@ (Server :> {s1})
MCChoices == {<<>>, <<{"BOUND_WITNESS"}>>, <<{"TAKE_ORIGIN_CHAIN"}>>,
              <<{"GIVE_ORIGIN_CHAIN", "BOUND_WITNESS"}>>}
=============================================================================
