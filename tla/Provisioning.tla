---------------------------- MODULE Provisioning ----------------------------
(***************************************************************************)
(* Setting up one machine: config flows bootstrap it over a password         *)
(* connection, with a keypair and an upgrade secret that the key store keeps *)
(* as three files, and end by creating or updating the config entry.  Every  *)
(* step may fail and be tried again, the dialog may be closed, Home          *)
(* Assistant may restart.  Key store and host keep whatever was done.        *)
(***************************************************************************)
EXTENDS Naturals

CONSTANTS
    Flows,        \* slots for config flows
    Accounts,     \* SSH accounts of the machine
    None,
    Torn,         \* a private key file that was created but not written
    Dismissable,  \* steps during which the dialog is closed
    MaxFaults,    \* bound: failed steps and restarts
    MaxDraws      \* bound: keypairs and secrets ever generated

KeySteps == {"look", "private", "public", "secret", "redraw", "load"}
HostSteps == {"authorize", "agent", "ctl", "sudoers", "login", "trust", "configure", "status"}
Running == KeySteps \cup HostSteps \cup {"finish"}
Draws == 1 .. MaxDraws

ASSUME ConstantsAssumption ==
    /\ None \notin Accounts \cup Draws
    /\ Torn \notin Draws \cup {None}
    /\ Dismissable \subseteq Running
    /\ MaxFaults \in Nat /\ MaxDraws \in Nat

VARIABLES
    private, public, secret,  \* the key store's files: who generated them
    authorized,  \* public keys in each account's authorized_keys
    installed,   \* helper files on the machine
    policy,      \* the account the active sudoers policy names
    trust,       \* the secret in the machine's trust record
    entry,       \* the account in the config entry, or None
    kind,        \* what each flow in progress is for ("none": not listed)
    pc,          \* the step each flow is at
    account,     \* the account it was given
    material,    \* the key material it was handed
    drawn, faults

store == <<private, public, secret>>
host == <<authorized, installed, policy, trust>>
flow == <<kind, pc, account, material>>
vars == <<store, host, entry, flow, drawn, faults>>

Material == [private : Draws \cup {None, Torn}, public : Draws \cup {None}, secret : Draws \cup {None}]
NoMaterial == [private |-> None, public |-> None, secret |-> None]

TypeOK ==
    /\ private \in Draws \cup {None, Torn}
    /\ {public, secret, trust} \subseteq Draws \cup {None}
    /\ authorized \in [Accounts -> SUBSET Draws]
    /\ installed \subseteq {"agent", "ctl"}
    /\ {policy, entry} \subseteq Accounts \cup {None}
    /\ kind \in [Flows -> {"none", "user", "reconfigure"}]
    /\ pc \in [Flows -> Running \cup {"idle", "confirm"}]
    /\ account \in [Flows -> Accounts \cup {None}]
    /\ material \in [Flows -> Material]
    /\ drawn \in 0 .. MaxDraws
    /\ faults \in 0 .. MaxFaults

----------------------------------------------------------------------------
Goto(f, step) == pc' = [pc EXCEPT ![f] = step]

\* The form is shown again, unless nobody is there to see it.
Back(f) == Goto(f, IF kind[f] = "none" THEN "idle" ELSE "confirm")

\* async_step_user: discovery succeeds and the confirmation is shown.  A
\* user flow gives way to a configured machine, and Home Assistant refuses
\* a second flow in progress with the same unique ID; reconfigure and reauth
\* set none.
Discover(f, a) ==
    /\ pc[f] = "idle"
    /\ entry = None => \A g \in Flows : kind[g] # "user"
    /\ kind' = [kind EXCEPT ![f] = IF entry = None THEN "user" ELSE "reconfigure"]
    /\ account' = [account EXCEPT ![f] = a]
    /\ material' = [material EXCEPT ![f] = NoMaterial]
    /\ Goto(f, "confirm")
    /\ UNCHANGED <<store, host, entry, drawn, faults>>

\* async_step_confirm is submitted, for the first time or again.
Confirm(f) ==
    /\ pc[f] = "confirm"
    /\ Goto(f, "look")
    /\ UNCHANGED <<store, host, entry, kind, account, material, drawn, faults>>

----------------------------------------------------------------------------
(* KeyStore._create_for_machine, in an executor thread *)

Draw == drawn < MaxDraws /\ drawn' = drawn + 1

\* Slip: an incomplete keypair is generated anew.
Look_Regenerate(f) ==
    /\ pc[f] = "look"
    /\ IF private # None /\ public # None
       THEN /\ Goto(f, IF secret = None THEN "redraw" ELSE "load")
            /\ UNCHANGED <<material, drawn>>
       ELSE /\ Draw
            /\ material' = [material EXCEPT ![f] =
                  [private |-> drawn', public |-> drawn', secret |-> drawn']]
            /\ Goto(f, "private")
    /\ UNCHANGED <<store, host, entry, kind, account, faults>>

\* Slip: one of the two files is enough to reuse the keypair.
Look_Either(f) ==
    /\ pc[f] = "look"
    /\ \/ /\ private # None \/ public # None
          /\ Goto(f, IF secret = None THEN "redraw" ELSE "load")
          /\ UNCHANGED <<material, drawn>>
       \/ /\ private = None /\ public = None
          /\ Draw
          /\ material' = [material EXCEPT ![f] =
                [private |-> drawn', public |-> drawn', secret |-> drawn']]
          /\ Goto(f, "private")
    /\ UNCHANGED <<store, host, entry, kind, account, faults>>

\* Slip: the secret is drawn again whenever the keypair is reused.
Look_Redraw(f) ==
    /\ pc[f] = "look"
    /\ \/ /\ private # None /\ public # None
          /\ Goto(f, "redraw")
          /\ UNCHANGED <<material, drawn>>
       \/ /\ private = None /\ public = None
          /\ Draw
          /\ material' = [material EXCEPT ![f] =
                [private |-> drawn', public |-> drawn', secret |-> drawn']]
          /\ Goto(f, "private")
       \/ /\ (private = None) # (public = None)
          /\ Back(f)
          /\ UNCHANGED <<material, drawn>>
    /\ UNCHANGED <<store, host, entry, kind, account, faults>>

\* A keypair is reused, a missing one generated; half of one is an error.
Look(f) ==
    /\ pc[f] = "look"
    /\ \/ /\ private # None /\ public # None
          /\ Goto(f, IF secret = None THEN "redraw" ELSE "load")
          /\ UNCHANGED <<material, drawn>>
       \/ /\ private = None /\ public = None
          /\ Draw
          /\ material' = [material EXCEPT ![f] =
                [private |-> drawn', public |-> drawn', secret |-> drawn']]
          /\ Goto(f, "private")
       \/ /\ (private = None) # (public = None)
          /\ Back(f)
          /\ UNCHANGED <<material, drawn>>
    /\ UNCHANGED <<store, host, entry, kind, account, faults>>

\* O_EXCL: an existing file is left as it is, without an error.
WritePrivate(f) ==
    /\ pc[f] = "private"
    /\ private' = IF private = None THEN material[f].private ELSE private
    /\ Goto(f, "public")
    /\ UNCHANGED <<public, secret, host, entry, kind, account, material, drawn, faults>>

\* os.replace: an existing file gives way.
WritePublic(f) ==
    /\ pc[f] = "public"
    /\ public' = material[f].public
    /\ Goto(f, "secret")
    /\ UNCHANGED <<private, secret, host, entry, kind, account, material, drawn, faults>>

WriteSecret(f) ==
    /\ pc[f] = "secret"
    /\ secret' = material[f].secret
    /\ Goto(f, "authorize")
    /\ UNCHANGED <<private, public, host, entry, kind, account, material, drawn, faults>>

\* A keypair without a secret gets a new one.
RedrawSecret(f) ==
    /\ pc[f] = "redraw"
    /\ Draw
    /\ secret' = drawn'
    /\ Goto(f, "load")
    /\ UNCHANGED <<private, public, host, entry, kind, account, material, faults>>

LoadMaterial(f) ==
    /\ pc[f] = "load"
    /\ material' = [material EXCEPT ![f] = [private |-> private, public |-> public, secret |-> secret]]
    /\ Goto(f, "authorize")
    /\ UNCHANGED <<store, host, entry, kind, account, drawn, faults>>

----------------------------------------------------------------------------
(* Bootstrapper.async_bootstrap on the machine *)

AuthorizeKey(f) ==
    /\ pc[f] = "authorize"
    /\ authorized' = [authorized EXCEPT ![account[f]] = @ \cup {material[f].public}]
    /\ Goto(f, "agent")
    /\ UNCHANGED <<store, installed, policy, trust, entry, kind, account, material, drawn, faults>>

InstallHelper(f) ==
    /\ pc[f] \in {"agent", "ctl"}
    /\ installed' = installed \cup {pc[f]}
    /\ Goto(f, IF pc[f] = "agent" THEN "ctl" ELSE "sudoers")
    /\ UNCHANGED <<store, authorized, policy, trust, entry, kind, account, material, drawn, faults>>

\* Staged, accepted by visudo and moved into place: the policy has one line,
\* for one account.
InstallSudoers(f) ==
    /\ pc[f] = "sudoers"
    /\ policy' = account[f]
    /\ Goto(f, "login")
    /\ UNCHANGED <<store, authorized, installed, trust, entry, kind, account, material, drawn, faults>>

\* Slip: an existing trust record is refused, even an equal one.
Accepts_NoEqual(f) ==
    /\ pc[f] = "login" => material[f].private \in authorized[account[f]]
    /\ pc[f] \in {"trust", "configure", "status"} => policy = account[f]
    /\ pc[f] = "trust" => trust = None

\* What the machine answers to the flow's next call: a login needs a key it
\* knows, a privileged call the policy, a trust record is never replaced.
Accepts(f) ==
    /\ pc[f] = "login" => material[f].private \in authorized[account[f]]
    /\ pc[f] \in {"trust", "configure", "status"} => policy = account[f]
    /\ pc[f] = "trust" => trust \in {None, material[f].secret}

Login(f) ==
    /\ pc[f] = "login" /\ Accepts(f)
    /\ Goto(f, "trust")
    /\ UNCHANGED <<store, host, entry, kind, account, material, drawn, faults>>

ConfigureTrust(f) ==
    /\ pc[f] = "trust" /\ Accepts(f)
    /\ trust' = material[f].secret
    /\ Goto(f, "configure")
    /\ UNCHANGED <<store, authorized, installed, policy, entry, kind, account, material, drawn, faults>>

\* configure-services, then the final status.
CallHelper(f) ==
    /\ pc[f] \in {"configure", "status"} /\ Accepts(f)
    /\ Goto(f, IF pc[f] = "configure" THEN "status" ELSE "finish")
    /\ UNCHANGED <<store, host, entry, kind, account, material, drawn, faults>>

Refused(f) ==
    /\ pc[f] \in HostSteps /\ ~Accepts(f)
    /\ Back(f)
    /\ UNCHANGED <<store, host, entry, kind, account, material, drawn, faults>>

\* The entry is created, or updated and reloaded.  What a flow returns that
\* is no longer in progress is dropped.
Finish(f) ==
    /\ pc[f] = "finish"
    /\ entry' = IF kind[f] = "none" THEN entry ELSE account[f]
    /\ kind' = [kind EXCEPT ![f] = "none"]
    /\ Goto(f, "idle")
    /\ UNCHANGED <<store, host, account, material, drawn, faults>>

----------------------------------------------------------------------------
Fault == faults < MaxFaults /\ faults' = faults + 1

\* Writing the private key stops half way for those who are at it.
MayTear(writing) ==
    private' \in {private} \cup (IF writing /\ private = None THEN {Torn} ELSE {})

\* A full disk, a lost connection, a timeout: the step is not done, or (the
\* step, then this at the next one) done without anybody knowing.
StepFails(f) ==
    /\ pc[f] \in Running \ {"finish"}
    /\ Fault
    /\ MayTear(pc[f] = "private")
    /\ Back(f)
    /\ UNCHANGED <<public, secret, host, entry, kind, account, material, drawn>>

\* The confirmation is declined or times out, or the fingerprint changed.
Decline(f) ==
    /\ pc[f] = "confirm"
    /\ kind' = [kind EXCEPT ![f] = "none"]
    /\ Goto(f, "idle")
    /\ UNCHANGED <<store, host, entry, account, material, drawn, faults>>

\* The dialog is closed while its step runs, which goes on unlisted.
Dismiss(f) ==
    /\ pc[f] \in Dismissable /\ kind[f] # "none"
    /\ kind' = [kind EXCEPT ![f] = "none"]
    /\ UNCHANGED <<store, host, entry, pc, account, material, drawn, faults>>

Restart ==
    /\ Fault
    /\ MayTear(\E f \in Flows : pc[f] = "private")
    /\ pc' = [f \in Flows |-> "idle"]
    /\ kind' = [f \in Flows |-> "none"]
    /\ UNCHANGED <<public, secret, host, entry, account, material, drawn>>

\* Removing the entry leaves key store and machine alone.
RemoveEntry ==
    /\ entry # None
    /\ entry' = None
    /\ UNCHANGED <<store, host, flow, drawn, faults>>

----------------------------------------------------------------------------
Init ==
    /\ private = None /\ public = None /\ secret = None
    /\ authorized = [a \in Accounts |-> {}]
    /\ installed = {}
    /\ policy = None /\ trust = None /\ entry = None
    /\ kind = [f \in Flows |-> "none"]
    /\ pc = [f \in Flows |-> "idle"]
    /\ account = [f \in Flows |-> None]
    /\ material = [f \in Flows |-> NoMaterial]
    /\ drawn = 0 /\ faults = 0

Advance(f) ==
    \/ Look(f) \/ WritePrivate(f) \/ WritePublic(f) \/ WriteSecret(f)
    \/ RedrawSecret(f) \/ LoadMaterial(f)
    \/ AuthorizeKey(f) \/ InstallHelper(f) \/ InstallSudoers(f)
    \/ Login(f) \/ ConfigureTrust(f) \/ CallHelper(f) \/ Refused(f) \/ Finish(f)

Next ==
    \/ \E f \in Flows :
          \/ \E a \in Accounts : Discover(f, a)
          \/ Confirm(f)
          \/ Look(f)
          \/ WritePrivate(f)
          \/ WritePublic(f)
          \/ WriteSecret(f)
          \/ RedrawSecret(f)
          \/ LoadMaterial(f)
          \/ AuthorizeKey(f)
          \/ InstallHelper(f)
          \/ InstallSudoers(f)
          \/ Login(f)
          \/ ConfigureTrust(f)
          \/ CallHelper(f)
          \/ Refused(f)
          \/ Finish(f)
          \/ StepFails(f)
          \/ Decline(f)
          \/ Dismiss(f)
    \/ Restart
    \/ RemoveEntry

Spec == Init /\ [][Next]_vars

\* Steps end (every command has a timeout), and the user who sees the form
\* submits it again or gives up.
Fairness == \A f \in Flows : WF_vars(Advance(f)) /\ WF_vars(Confirm(f) \/ Decline(f))

FairSpec == Spec /\ Fairness

----------------------------------------------------------------------------
\* The machine's trust record is the stored secret or missing, at every
\* point where a bootstrap can stop, so that a retry is not refused as
\* trust_already_configured and signed upgrades verify.
TrustAgrees == trust # None => trust = secret

\* A config entry exists only on top of a complete bootstrap: the private
\* key the runtime will load is one the machine accepts for the entry's
\* account, the helper is there, the secret is the trusted one.
EntryWorks ==
    entry # None =>
        /\ private \in authorized[entry]
        /\ trust # None /\ trust = secret
        /\ installed = {"agent", "ctl"}
        /\ policy # None

\* The machine refuses a flow only where the policy names another account,
\* one that an overlapping or earlier flow put there: never a login, never a
\* trust record, however many attempts stopped before this one.
OnlyRivalsRefuse ==
    \A f \in Flows :
        pc[f] \in HostSteps /\ ~Accepts(f) =>
            /\ pc[f] \in {"trust", "configure", "status"}
            /\ policy \in Accounts \ {account[f]}

\* The three files are there, and with them what the machine will know.
Complete == private # None /\ public # None /\ secret # None

Enrolled == INSTANCE Enrolment WITH
    Keys <- Draws,
    identity <- IF Complete THEN {[key |-> private, secret |-> secret]} ELSE {}

\* Overlapping, failing, abandoned and restarted flows amount to one
\* enrolment: the identity is established once and never changes, the machine
\* is only ever given that one, in an order in which each step finds what it
\* rests on, and nothing is taken back.
EnrolmentSpec == Enrolled!Spec

\* A bootstrap that failed part-way, wherever, can be retried: a user who
\* goes on submitting gets the entry, unless the key store holds half a pair
\* or another flow takes the policy away for another account.
HalfPair == (private = None) # (public = None)
Rivals(f) == {g \in Flows : pc[g] = "sudoers" /\ account[g] # account[f]}

PartialSetupRetries ==
    \A f \in Flows :
        (pc[f] = "confirm" /\ kind[f] = "user")
            ~> (entry # None \/ kind[f] = "none" \/ HalfPair \/ Rivals(f) # {})

\* "A deterministic retry state" (bootstrap.py:36): a failed attempt leaves
\* nothing in the key store that makes every later one fail.
RetryStateUsable == (\A f \in Flows : pc[f] \notin KeySteps) => ~HalfPair
=============================================================================
