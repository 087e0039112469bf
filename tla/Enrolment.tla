------------------------------ MODULE Enrolment ------------------------------
(***************************************************************************)
(* What setting up one machine promises, without the flows that do it.  Home *)
(* Assistant establishes one identity for the machine, a key and a secret,   *)
(* once; the machine admits that key and no other, trusts that secret and no *)
(* other; an account is entered when all of that is in place.  Nothing the   *)
(* machine was given is taken back.                                          *)
(***************************************************************************)
CONSTANTS Accounts, Keys, None

VARIABLES
    identity,    \* {} or the one key and secret there will ever be
    authorized,  \* keys each account admits
    installed,   \* helper files on the machine
    policy,      \* the account that may run the helper as root
    trust,       \* the secret the helper trusts
    entry        \* the account Home Assistant uses

vars == <<identity, authorized, installed, policy, trust, entry>>

Init ==
    /\ identity = {}
    /\ authorized = [a \in Accounts |-> {}]
    /\ installed = {}
    /\ policy = None /\ trust = None /\ entry = None

----------------------------------------------------------------------------
Establish(i) ==
    /\ identity = {}
    /\ identity' = {i}
    /\ UNCHANGED <<authorized, installed, policy, trust, entry>>

Admit(a) ==
    /\ \E i \in identity : authorized' = [authorized EXCEPT ![a] = @ \cup {i.key}]
    /\ UNCHANGED <<identity, installed, policy, trust, entry>>

\* The files follow the key, the agent first.
Install(file) ==
    /\ \E a \in Accounts, i \in identity : i.key \in authorized[a]
    /\ file = "ctl" => "agent" \in installed
    /\ installed' = installed \cup {file}
    /\ UNCHANGED <<identity, authorized, policy, trust, entry>>

\* The helper may be run as root by an account the key opens.
Delegate(a) ==
    /\ \E i \in identity : i.key \in authorized[a]
    /\ installed = {"agent", "ctl"}
    /\ policy' = a
    /\ UNCHANGED <<identity, authorized, installed, trust, entry>>

Trust ==
    /\ trust = None /\ policy # None
    /\ \E i \in identity : trust' = i.secret
    /\ UNCHANGED <<identity, authorized, installed, policy, entry>>

Enter(a) ==
    /\ \E i \in identity : i.key \in authorized[a] /\ trust = i.secret
    /\ entry' = a
    /\ UNCHANGED <<identity, authorized, installed, policy, trust>>

Leave ==
    /\ entry' = None
    /\ UNCHANGED <<identity, authorized, installed, policy, trust>>

----------------------------------------------------------------------------
Next ==
    \/ \E i \in [key : Keys, secret : Keys] : Establish(i)
    \/ \E a \in Accounts : Admit(a) \/ Delegate(a) \/ Enter(a)
    \/ \E file \in {"agent", "ctl"} : Install(file)
    \/ Trust
    \/ Leave

Spec == Init /\ [][Next]_vars
=============================================================================
