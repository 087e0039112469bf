--------------------------- MODULE MCProvisioning ---------------------------
(* Small instances of Provisioning for TLC. *)
EXTENDS Provisioning, TLC

CONSTANTS f1, f2, pi, admin

OneFlow == {f1}
TwoFlows == {f1, f2}
TwoAccounts == {pi, admin}

\* The dialog is closed at any step but the short ones of the key store.
HostAndFinish == HostSteps \cup {"finish"}
=============================================================================
