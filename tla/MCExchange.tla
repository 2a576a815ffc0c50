----------------------------- MODULE MCExchange -----------------------------
(* Two calls: one may be handled while the other is being closed.           *)
EXTENDS Exchange

MCCalls == {"c1", "c2"}

\* A proper request beside one that the server gets less far with.
MCMixes == {m \in [MCCalls -> Contents] : m["c1"] = "good"}
=============================================================================
