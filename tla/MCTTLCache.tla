----------------------------- MODULE MCTTLCache -----------------------------
(* Small instances of TTLCache for TLC. *)
EXTENDS TTLCache, TLC

CONSTANTS k1, k2, k3, b1, c1, p1, p2

\* b1 is one byte long, c1 two.  Every key keeps the length of its body in
\* ServesFixed; k1 changes it in ServesVarying.
BodyLength == (b1 :> 1) @@ (c1 :> 2)
ServesFixed == (k1 :> {b1}) @@ (k2 :> {c1}) @@ (k3 :> {b1})
ServesVarying == (k1 :> {b1, c1}) @@ (k2 :> {b1})
AllTargets == {{k1}, {k1, k2}}
=============================================================================
