----------------------------- MODULE MCRuntime -----------------------------
(* Small instances of Runtime for TLC. *)
EXTENDS Runtime, TLC

CONSTANTS t1, t2, t3, c1, c2

ThreeCalls == {t1, t2, t3}
TwoClients == {c1, c2}
=============================================================================
