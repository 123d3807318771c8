------------------------------- MODULE Arguments -------------------------------
(* Named arguments, as calls of the BTSync daemon have them: what TLC writes *)
(* :> and @@, in definitions that a proof can expand.                        *)

Named(name, value) == [n \in {name} |-> value]

(* What both have, with the values of f where they differ.                   *)
f ++ g == [n \in DOMAIN f \cup DOMAIN g |-> IF n \in DOMAIN f THEN f[n] ELSE g[n]]
=============================================================================
