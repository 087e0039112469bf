------------------------ MODULE Provisioning_proofs ------------------------
(* Theorems about Provisioning, for any number of flows, accounts, faults    *)
(* and restarts.                                                             *)
EXTENDS Provisioning, TLAPS

----------------------------------------------------------------------------
(* Types *)

\* What a flow carries through its steps: an account, and once the key store
\* has been looked at, or is about to be read, a public key.
CarriesKey ==
    \A f \in Flows :
        /\ pc[f] # "idle" => account[f] \in Accounts
        /\ pc[f] \in {"private", "public", "secret"} \cup HostSteps => material[f].public \in Draws
        /\ pc[f] = "load" \/ pc[f] = "redraw" => public \in Draws

LEMMA InitTyped == Init => TypeOK /\ CarriesKey
  BY ConstantsAssumption
     DEF Init, TypeOK, CarriesKey, Material, NoMaterial, Draws, HostSteps

LEMMA FaultTyped == TypeOK /\ Fault => faults' \in 0 .. MaxFaults
  BY ConstantsAssumption DEF TypeOK, Fault

LEMMA DrawTyped == TypeOK /\ Draw => drawn' \in Draws /\ drawn' \in 0 .. MaxDraws
  BY ConstantsAssumption DEF TypeOK, Draw, Draws

\* A torn write leaves a private key file that is not a key.
LEMMA TearTyped ==
  ASSUME TypeOK, NEW w \in BOOLEAN, MayTear(w)
  PROVE  private' \in Draws \cup {None, Torn}
  BY DEF TypeOK, MayTear

\* Going back shows the form or ends the flow.
LEMMA BackTyped ==
  ASSUME TypeOK, CarriesKey, NEW f \in Flows, pc[f] # "idle", Back(f),
         UNCHANGED <<public, account, material>>
  PROVE  pc' \in [Flows -> Running \cup {"idle", "confirm"}] /\ CarriesKey'
  <1>1. pc'[f] \in {"idle", "confirm"} /\ \A g \in Flows \ {f} : pc'[g] = pc[g]
    BY DEF Back, Goto, TypeOK
  <1>2. pc' \in [Flows -> Running \cup {"idle", "confirm"}]
    BY DEF Back, Goto, TypeOK
  <1> QED BY <1>1, <1>2 DEF CarriesKey, HostSteps

LEMMA StepTyped == TypeOK /\ CarriesKey /\ [Next]_vars => TypeOK' /\ CarriesKey'
  <1> SUFFICES ASSUME TypeOK, CarriesKey, [Next]_vars PROVE TypeOK' /\ CarriesKey'
    OBVIOUS
  <1> USE ConstantsAssumption DEF store, host, flow, KeySteps, HostSteps, Running, Goto
  <1>1. ASSUME NEW f \in Flows, NEW a \in Accounts, Discover(f, a) PROVE TypeOK' /\ CarriesKey'
    BY <1>1 DEF TypeOK, CarriesKey, Discover, Material, NoMaterial
  <1>2. ASSUME NEW f \in Flows, Confirm(f) PROVE TypeOK' /\ CarriesKey'
    BY <1>2 DEF TypeOK, CarriesKey, Confirm
  <1>3. ASSUME NEW f \in Flows, Look(f) PROVE TypeOK' /\ CarriesKey'
    <2>1. CASE /\ private # None /\ public # None
               /\ Goto(f, IF secret = None THEN "redraw" ELSE "load")
               /\ UNCHANGED <<material, drawn>>
      BY <1>3, <2>1 DEF TypeOK, CarriesKey, Look
    <2>2. CASE /\ Draw
               /\ material' = [material EXCEPT ![f] =
                     [private |-> drawn', public |-> drawn', secret |-> drawn']]
               /\ Goto(f, "private")
      BY <1>3, <2>2, DrawTyped DEF TypeOK, CarriesKey, Look, Material
    <2>3. CASE Back(f) /\ UNCHANGED <<material, drawn>>
      BY <1>3, <2>3, BackTyped DEF TypeOK, Look
    <2> QED BY <1>3, <2>1, <2>2, <2>3 DEF Look
  <1>4. ASSUME NEW f \in Flows, WritePrivate(f) PROVE TypeOK' /\ CarriesKey'
    BY <1>4 DEF TypeOK, CarriesKey, WritePrivate, Material
  <1>5. ASSUME NEW f \in Flows, WritePublic(f) PROVE TypeOK' /\ CarriesKey'
    BY <1>5 DEF TypeOK, CarriesKey, WritePublic
  <1>6. ASSUME NEW f \in Flows, WriteSecret(f) PROVE TypeOK' /\ CarriesKey'
    BY <1>6 DEF TypeOK, CarriesKey, WriteSecret, Material
  <1>7. ASSUME NEW f \in Flows, RedrawSecret(f) PROVE TypeOK' /\ CarriesKey'
    BY <1>7, DrawTyped DEF TypeOK, CarriesKey, RedrawSecret
  <1>8. ASSUME NEW f \in Flows, LoadMaterial(f) PROVE TypeOK' /\ CarriesKey'
    BY <1>8 DEF TypeOK, CarriesKey, LoadMaterial, Material
  <1>9. ASSUME NEW f \in Flows, AuthorizeKey(f) PROVE TypeOK' /\ CarriesKey'
    BY <1>9 DEF TypeOK, CarriesKey, AuthorizeKey
  <1>10. ASSUME NEW f \in Flows, InstallHelper(f) PROVE TypeOK' /\ CarriesKey'
    BY <1>10 DEF TypeOK, CarriesKey, InstallHelper
  <1>11. ASSUME NEW f \in Flows, InstallSudoers(f) PROVE TypeOK' /\ CarriesKey'
    BY <1>11 DEF TypeOK, CarriesKey, InstallSudoers
  <1>12. ASSUME NEW f \in Flows, Login(f) PROVE TypeOK' /\ CarriesKey'
    BY <1>12 DEF TypeOK, CarriesKey, Login
  <1>13. ASSUME NEW f \in Flows, ConfigureTrust(f) PROVE TypeOK' /\ CarriesKey'
    BY <1>13 DEF TypeOK, CarriesKey, ConfigureTrust, Material
  <1>14. ASSUME NEW f \in Flows, CallHelper(f) PROVE TypeOK' /\ CarriesKey'
    BY <1>14 DEF TypeOK, CarriesKey, CallHelper
  <1>15. ASSUME NEW f \in Flows, Refused(f) PROVE TypeOK' /\ CarriesKey'
    BY <1>15, BackTyped DEF TypeOK, Refused
  <1>16. ASSUME NEW f \in Flows, Finish(f) PROVE TypeOK' /\ CarriesKey'
    BY <1>16 DEF TypeOK, CarriesKey, Finish
  <1>17. ASSUME NEW f \in Flows, StepFails(f) PROVE TypeOK' /\ CarriesKey'
    BY <1>17, BackTyped, FaultTyped, TearTyped DEF TypeOK, StepFails
  <1>18. ASSUME NEW f \in Flows, Decline(f) PROVE TypeOK' /\ CarriesKey'
    <2>1. /\ kind' \in [Flows -> {"none", "user", "reconfigure"}]
          /\ pc' \in [Flows -> Running \cup {"idle", "confirm"}]
          /\ UNCHANGED <<store, host, entry, account, material, drawn, faults>>
      BY <1>18 DEF TypeOK, Decline, Goto
    <2>2. TypeOK'
      BY <2>1 DEF TypeOK, store, host
    <2>3. \A g \in Flows : pc'[g] = IF g = f THEN "idle" ELSE pc[g]
      BY <1>18 DEF TypeOK, Decline, Goto
    <2>4. CarriesKey'
      BY <2>1, <2>3 DEF CarriesKey, store, host, HostSteps
    <2> QED BY <2>2, <2>4
  <1>22. ASSUME NEW f \in Flows, Dismiss(f) PROVE TypeOK' /\ CarriesKey'
    <2>1. /\ kind' \in [Flows -> {"none", "user", "reconfigure"}]
          /\ UNCHANGED <<store, host, entry, pc, account, material, drawn, faults>>
      BY <1>22 DEF TypeOK, Dismiss
    <2>2. TypeOK'
      BY <2>1 DEF TypeOK, store, host
    <2>3. CarriesKey'
      BY <2>1 DEF CarriesKey, store, host
    <2> QED BY <2>2, <2>3
  <1>19. CASE Restart
    BY <1>19, FaultTyped, TearTyped DEF TypeOK, CarriesKey, Restart
  <1>20. CASE RemoveEntry
    BY <1>20 DEF TypeOK, CarriesKey, RemoveEntry
  <1>21. CASE UNCHANGED vars
    BY <1>21 DEF TypeOK, CarriesKey, vars
  <1> QED
    BY <1>1, <1>2, <1>3, <1>4, <1>5, <1>6, <1>7, <1>8, <1>9, <1>10, <1>11, <1>12, <1>13,
       <1>14, <1>15, <1>16, <1>17, <1>18, <1>19, <1>20, <1>21, <1>22 DEF Next

\* Every variable keeps its type, and so does every key on the machine, with
\* dialogs closed at any step.
THEOREM TypeCorrect == Spec => []TypeOK
  <1>1. Spec => [](TypeOK /\ CarriesKey)
    BY InitTyped, StepTyped, PTL DEF Spec
  <1> QED BY <1>1, PTL

----------------------------------------------------------------------------
(* The key store *)

\* Files are written in one order and never taken back.
StoreInv ==
    /\ private # None /\ public # None => private = public
    /\ secret # None => private # None /\ public # None

\* One listed flow at most generates or completes key material, and none
\* does once the machine has, or had, an entry.
Generating == {"private", "public", "secret", "redraw"}

FlowInv ==
    /\ \A f \in Flows : pc[f] \in KeySteps \cup {"confirm"} => kind[f] # "none"
    /\ \A f \in Flows : pc[f] \in Generating => kind[f] = "user"
    /\ \A f, g \in Flows : kind[f] = "user" /\ kind[g] = "user" => f = g
    /\ entry # None \/ (\E f \in Flows : kind[f] = "reconfigure") => Complete

Written(f) ==
    /\ pc[f] = "private" => private = None /\ public = None
    /\ pc[f] = "public" => private = material[f].private /\ public = None
    /\ pc[f] = "secret" => private = material[f].private /\ public = material[f].public
    /\ pc[f] \in Generating => secret = None
    /\ pc[f] = "redraw" => private # None /\ public # None
    /\ pc[f] \in {"private", "public", "secret"} =>
          /\ material[f].private = material[f].public
          /\ {material[f].private, material[f].secret} \subseteq Draws
    /\ pc[f] = "load" => Complete
    /\ pc[f] \in HostSteps \cup {"finish"} =>
          Complete /\ material[f] = [private |-> private, public |-> public, secret |-> secret]

KeyInv == StoreInv /\ FlowInv /\ \A f \in Flows : Written(f)

\* The dialog is not closed in the milliseconds of the key store's files.
KeyStepsListed == Dismissable \cap KeySteps = {}

LEMMA InitKey == Init => KeyInv
  BY ConstantsAssumption
     DEF Init, KeyInv, StoreInv, FlowInv, Written, Generating, KeySteps, HostSteps

LEMMA BackKey ==
  ASSUME TypeOK, KeyInv, NEW f \in Flows, pc[f] # "idle", Back(f),
         UNCHANGED <<store, entry, kind, material>>
  PROVE  KeyInv'
  <1>1. /\ pc'[f] = "idle" \/ (pc'[f] = "confirm" /\ kind[f] # "none")
        /\ \A g \in Flows \ {f} : pc'[g] = pc[g]
    BY DEF Back, Goto, TypeOK
  <1> QED BY <1>1 DEF KeyInv, StoreInv, FlowInv, Written, Complete, Generating, KeySteps, HostSteps, store

LEMMA StepKey == KeyStepsListed /\ TypeOK /\ CarriesKey /\ KeyInv /\ [Next]_vars => KeyInv'
  <1> SUFFICES ASSUME KeyStepsListed, TypeOK, CarriesKey, KeyInv, [Next]_vars PROVE KeyInv'
    OBVIOUS
  <1> USE ConstantsAssumption DEF store, host, flow, KeySteps, HostSteps, Generating, Goto, Complete
  <1>1. ASSUME NEW f \in Flows, NEW a \in Accounts, Discover(f, a) PROVE KeyInv'
    BY <1>1 DEF TypeOK, KeyInv, StoreInv, FlowInv, Written, Discover
  <1>2. ASSUME NEW f \in Flows, Confirm(f) PROVE KeyInv'
    BY <1>2 DEF TypeOK, KeyInv, StoreInv, FlowInv, Written, Confirm
  <1>3. ASSUME NEW f \in Flows, Look(f) PROVE KeyInv'
    <2>1. CASE /\ private # None /\ public # None
               /\ Goto(f, IF secret = None THEN "redraw" ELSE "load")
               /\ UNCHANGED <<material, drawn>>
      BY <1>3, <2>1 DEF TypeOK, KeyInv, StoreInv, FlowInv, Written, Look
    <2>2. CASE /\ private = None /\ public = None /\ Draw
               /\ material' = [material EXCEPT ![f] =
                     [private |-> drawn', public |-> drawn', secret |-> drawn']]
               /\ Goto(f, "private")
      BY <1>3, <2>2, DrawTyped DEF TypeOK, KeyInv, StoreInv, FlowInv, Written, Look
    <2>3. CASE Back(f) /\ UNCHANGED <<material, drawn>>
      BY <1>3, <2>3, BackKey DEF Look
    <2> QED BY <1>3, <2>1, <2>2, <2>3 DEF Look
  <1>4. ASSUME NEW f \in Flows, WritePrivate(f) PROVE KeyInv'
    BY <1>4 DEF TypeOK, KeyInv, StoreInv, FlowInv, Written, WritePrivate
  <1>5. ASSUME NEW f \in Flows, WritePublic(f) PROVE KeyInv'
    BY <1>5 DEF TypeOK, KeyInv, StoreInv, FlowInv, Written, WritePublic
  <1>6. ASSUME NEW f \in Flows, WriteSecret(f) PROVE KeyInv'
    BY <1>6 DEF TypeOK, KeyInv, StoreInv, FlowInv, Written, WriteSecret, Material
  <1>7. ASSUME NEW f \in Flows, RedrawSecret(f) PROVE KeyInv'
    BY <1>7, DrawTyped DEF TypeOK, KeyInv, StoreInv, FlowInv, Written, RedrawSecret
  <1>8. ASSUME NEW f \in Flows, LoadMaterial(f) PROVE KeyInv'
    BY <1>8 DEF TypeOK, KeyInv, StoreInv, FlowInv, Written, LoadMaterial
  <1>9. ASSUME NEW f \in Flows,
               AuthorizeKey(f) \/ InstallHelper(f) \/ InstallSudoers(f) \/ Login(f)
                  \/ ConfigureTrust(f) \/ CallHelper(f)
        PROVE  KeyInv'
    <2>1. /\ pc[f] \in HostSteps
          /\ pc'[f] \in HostSteps \cup {"finish"} /\ \A g \in Flows \ {f} : pc'[g] = pc[g]
          /\ UNCHANGED <<store, entry, kind, material>>
      BY <1>9 DEF TypeOK, AuthorizeKey, InstallHelper, InstallSudoers, Login, ConfigureTrust, CallHelper
    <2> QED BY <2>1 DEF KeyInv, StoreInv, FlowInv, Written
  <1>10. ASSUME NEW f \in Flows, Refused(f) PROVE KeyInv'
    BY <1>10, BackKey DEF Refused
  <1>11. ASSUME NEW f \in Flows, Finish(f) PROVE KeyInv'
    BY <1>11 DEF TypeOK, KeyInv, StoreInv, FlowInv, Written, Finish
  <1>12. ASSUME NEW f \in Flows, StepFails(f) PROVE KeyInv'
    <2>1. CASE UNCHANGED private
      BY <1>12, <2>1, BackKey DEF StepFails, Running
    <2>2. CASE pc[f] = "private" /\ private = None /\ private' = Torn
      BY <1>12, <2>2 DEF TypeOK, KeyInv, StoreInv, FlowInv, Written, StepFails, Back
    <2> QED BY <1>12, <2>1, <2>2 DEF StepFails, MayTear
  <1>13. ASSUME NEW f \in Flows, Decline(f) \/ Dismiss(f) PROVE KeyInv'
    BY <1>13 DEF TypeOK, KeyInv, StoreInv, FlowInv, Written, Decline, Dismiss, KeyStepsListed, Running
  <1>14. CASE Restart
    BY <1>14 DEF TypeOK, KeyInv, StoreInv, FlowInv, Written, Restart, MayTear
  <1>15. CASE RemoveEntry \/ UNCHANGED vars
    BY <1>15 DEF KeyInv, StoreInv, FlowInv, Written, RemoveEntry, vars
  <1> QED
    BY <1>1, <1>2, <1>3, <1>4, <1>5, <1>6, <1>7, <1>8, <1>9, <1>10, <1>11, <1>12, <1>13, <1>14,
       <1>15 DEF Next

----------------------------------------------------------------------------
(* The host *)

\* What a flow at each step has done to the host, nothing undoes.
Deployed(f) ==
    /\ pc[f] \in (HostSteps \cup {"finish"}) \ {"authorize"} => private \in authorized[account[f]]
    /\ pc[f] \in (HostSteps \cup {"finish"}) \ {"authorize", "agent"} => "agent" \in installed
    /\ pc[f] \in (HostSteps \cup {"finish"}) \ {"authorize", "agent", "ctl"} => "ctl" \in installed
    /\ pc[f] \in {"login", "trust", "configure", "status", "finish"} => policy # None
    /\ pc[f] \in {"configure", "status", "finish"} => trust # None

HostInv == TrustAgrees /\ EntryWorks /\ \A f \in Flows : Deployed(f)

LEMMA InitHost == Init => HostInv
  BY DEF Init, HostInv, TrustAgrees, EntryWorks, Deployed, HostSteps

\* A complete set of key files is never changed again.
LEMMA CompleteStays ==
  ASSUME TypeOK, KeyInv, Complete, [Next]_vars
  PROVE  UNCHANGED store
  <1> USE DEF KeyInv, Written, Complete, Generating, store
  <1>1. ASSUME NEW f \in Flows,
               WritePrivate(f) \/ WritePublic(f) \/ WriteSecret(f) \/ RedrawSecret(f)
        PROVE  FALSE
    BY <1>1 DEF WritePrivate, WritePublic, WriteSecret, RedrawSecret
  <1>2. ASSUME NEW f \in Flows, StepFails(f) PROVE UNCHANGED store
    BY <1>2 DEF StepFails, MayTear
  <1>3. CASE Restart
    BY <1>3 DEF Restart, MayTear
  <1> QED
    BY <1>1, <1>2, <1>3
       DEF Next, vars, Discover, Confirm, Look, LoadMaterial, AuthorizeKey, InstallHelper,
           InstallSudoers, Login, ConfigureTrust, CallHelper, Refused, Finish, Decline,
           Dismiss, RemoveEntry

\* A step that leaves the machine and the entry alone, and sends no flow on
\* to a step it has not deployed for, preserves HostInv.
LEMMA IdleOnHost ==
  ASSUME TypeOK, KeyInv, HostInv, [Next]_vars, UNCHANGED <<host, account>>,
         entry' \in {entry, None},
         \A f \in Flows : pc'[f] # pc[f] => pc'[f] \notin (HostSteps \cup {"finish"}) \ {"authorize"}
  PROVE  HostInv'
  <1>1. Complete => UNCHANGED store
    BY CompleteStays
  <1>2. TrustAgrees'
    BY <1>1 DEF HostInv, TrustAgrees, KeyInv, StoreInv, Complete, host, store
  <1>3. EntryWorks'
    BY <1>1 DEF HostInv, EntryWorks, KeyInv, FlowInv, Complete, host, store
  <1>4. ASSUME NEW f \in Flows PROVE Deployed(f)'
    BY <1>1 DEF HostInv, Deployed, KeyInv, Written, HostSteps, host, store
  <1> QED BY <1>2, <1>3, <1>4 DEF HostInv

LEMMA StepHost == TypeOK /\ CarriesKey /\ KeyInv /\ HostInv /\ [Next]_vars => HostInv'
  <1> SUFFICES ASSUME TypeOK, CarriesKey, KeyInv, HostInv, [Next]_vars PROVE HostInv'
    OBVIOUS
  <1> USE ConstantsAssumption DEF store, host, flow, HostSteps, Goto
  <1>1. ASSUME NEW f \in Flows, NEW a \in Accounts, Discover(f, a) PROVE HostInv'
    BY <1>1, CompleteStays
       DEF Discover, TypeOK, HostInv, TrustAgrees, EntryWorks, Deployed, KeyInv, Written
  <1>2. ASSUME NEW f \in Flows,
               \/ Confirm(f) \/ Look(f) \/ WritePrivate(f) \/ WritePublic(f) \/ WriteSecret(f)
               \/ RedrawSecret(f) \/ LoadMaterial(f) \/ Refused(f) \/ StepFails(f)
               \/ Decline(f) \/ Dismiss(f)
        PROVE  HostInv'
    <2>1. UNCHANGED <<host, account, entry>>
      BY <1>2 DEF Confirm, Look, WritePrivate, WritePublic, WriteSecret, RedrawSecret,
                  LoadMaterial, Refused, StepFails, Decline, Dismiss
    <2>2. \A g \in Flows : pc'[g] # pc[g] => pc'[g] \notin (HostSteps \cup {"finish"}) \ {"authorize"}
      BY <1>2 DEF TypeOK, Back, Confirm, Look, WritePrivate, WritePublic, WriteSecret, RedrawSecret,
                  LoadMaterial, Refused, StepFails, Decline, Dismiss
    <2> QED BY <2>1, <2>2, IdleOnHost
  <1>3. ASSUME NEW f \in Flows, AuthorizeKey(f) PROVE HostInv'
    BY <1>3 DEF AuthorizeKey, TypeOK, CarriesKey, HostInv, TrustAgrees, EntryWorks, Deployed,
                KeyInv, StoreInv, FlowInv, Written, Complete
  <1>4. ASSUME NEW f \in Flows, InstallHelper(f) PROVE HostInv'
    BY <1>4 DEF InstallHelper, TypeOK, HostInv, TrustAgrees, EntryWorks, Deployed
  <1>5. ASSUME NEW f \in Flows, InstallSudoers(f) PROVE HostInv'
    BY <1>5 DEF InstallSudoers, TypeOK, CarriesKey, HostInv, TrustAgrees, EntryWorks, Deployed
  <1>6. ASSUME NEW f \in Flows, Login(f) \/ CallHelper(f) PROVE HostInv'
    BY <1>6 DEF Login, CallHelper, TypeOK, HostInv, TrustAgrees, EntryWorks, Deployed
  <1>7. ASSUME NEW f \in Flows, ConfigureTrust(f) PROVE HostInv'
    BY <1>7 DEF ConfigureTrust, TypeOK, HostInv, TrustAgrees, EntryWorks, Deployed,
                KeyInv, Written, Complete
  <1>8. ASSUME NEW f \in Flows, Finish(f) PROVE HostInv'
    BY <1>8 DEF Finish, TypeOK, HostInv, TrustAgrees, EntryWorks, Deployed
  <1>9. CASE Restart
    BY <1>9, IdleOnHost DEF Restart
  <1>10. CASE RemoveEntry \/ UNCHANGED vars
    BY <1>10, IdleOnHost DEF RemoveEntry, vars
  <1> QED
    BY <1>1, <1>2, <1>3, <1>4, <1>5, <1>6, <1>7, <1>8, <1>9, <1>10 DEF Next

LEMMA HostCorrect == KeyStepsListed => (Spec => []HostInv)
  <1>1. KeyStepsListed /\ TypeOK /\ CarriesKey /\ KeyInv /\ HostInv /\ [Next]_vars
           => TypeOK' /\ CarriesKey' /\ KeyInv' /\ HostInv'
    BY StepTyped, StepKey, StepHost
  <1>2. KeyStepsListed => KeyStepsListed'
    BY DEF KeyStepsListed
  <1> QED BY <1>1, <1>2, InitTyped, InitKey, InitHost, PTL DEF Spec

\* The machine's trust record is the stored secret, wherever bootstraps stop
\* and however often Home Assistant restarts.
THEOREM TrustCorrect == KeyStepsListed => (Spec => []TrustAgrees)
  <1>1. HostInv => TrustAgrees
    BY DEF HostInv
  <1> QED BY <1>1, HostCorrect, PTL

\* An entry stands on a complete bootstrap, for any number of overlapping,
\* interrupted and abandoned flows with any accounts.
THEOREM EntryCorrect == KeyStepsListed => (Spec => []EntryWorks)
  <1>1. HostInv => EntryWorks
    BY DEF HostInv
  <1> QED BY <1>1, HostCorrect, PTL
LEMMA RefusalsExplained ==
  ASSUME TypeOK, KeyInv, HostInv PROVE OnlyRivalsRefuse
  <1> SUFFICES ASSUME NEW f \in Flows, pc[f] \in HostSteps, ~Accepts(f)
               PROVE  /\ pc[f] \in {"trust", "configure", "status"}
                      /\ policy \in Accounts \ {account[f]}
    BY DEF OnlyRivalsRefuse
  <1>1. Complete /\ material[f] = [private |-> private, public |-> public, secret |-> secret]
    BY DEF KeyInv, Written
  <1>2. pc[f] = "login" => material[f].private \in authorized[account[f]]
    BY <1>1 DEF HostInv, Deployed, HostSteps
  <1>3. trust \in {None, material[f].secret}
    BY <1>1 DEF HostInv, TrustAgrees
  <1>4. pc[f] \in {"trust", "configure", "status"} /\ policy # account[f]
    BY <1>2, <1>3 DEF Accepts
  <1>5. policy # None
    BY <1>4 DEF HostInv, Deployed
  <1> QED BY <1>4, <1>5 DEF TypeOK

\* However many bootstraps failed, were abandoned or overlap, the machine
\* admits the next one's login and takes its trust record; only a policy for
\* another account stands in its way.
THEOREM RefusalsCorrect == KeyStepsListed => (Spec => []OnlyRivalsRefuse)
  <1>1. KeyStepsListed /\ TypeOK /\ CarriesKey /\ KeyInv /\ HostInv /\ [Next]_vars
           => TypeOK' /\ CarriesKey' /\ KeyInv' /\ HostInv'
    BY StepTyped, StepKey, StepHost
  <1>2. KeyStepsListed => KeyStepsListed'
    BY DEF KeyStepsListed
  <1>3. TypeOK /\ KeyInv /\ HostInv => OnlyRivalsRefuse
    BY RefusalsExplained
  <1> QED BY <1>1, <1>2, <1>3, InitTyped, InitKey, InitHost, PTL DEF Spec

----------------------------------------------------------------------------
(* The abstract enrolment *)

Identity == IF Complete THEN {[key |-> private, secret |-> secret]} ELSE {}

\* A flow at work on the host carries the identity, of which it has the key
\* admitted before it needs it.
CarriesIdentity(f) ==
    pc[f] \in HostSteps \cup {"finish"} =>
        /\ Identity = {[key |-> material[f].public, secret |-> material[f].secret]}
        /\ material[f].public = private
        /\ account[f] \in Accounts

LEMMA HostStepCarries ==
  ASSUME TypeOK, CarriesKey, KeyInv, NEW f \in Flows
  PROVE  CarriesIdentity(f)
  <1> SUFFICES ASSUME pc[f] \in HostSteps \cup {"finish"}
               PROVE  /\ Identity = {[key |-> material[f].public, secret |-> material[f].secret]}
                      /\ material[f].public = private
                      /\ account[f] \in Accounts
    BY DEF CarriesIdentity
  <1>1. Complete /\ material[f] = [private |-> private, public |-> public, secret |-> secret]
    BY DEF KeyInv, Written
  <1>2. private = public
    BY <1>1 DEF KeyInv, StoreInv, Complete
  <1>3. account[f] \in Accounts
    BY DEF CarriesKey, HostSteps
  <1> QED BY <1>1, <1>2, <1>3 DEF Identity

LEMMA EnrolmentInit == Init => Enrolled!Init
  BY DEF Init, Enrolled!Init, Complete

\* Steps on the key store keep the identity, or establish it with the last
\* of the three files.
LEMMA StoreStep ==
  ASSUME TypeOK, CarriesKey, KeyInv, KeyInv', [Next]_vars,
         UNCHANGED <<authorized, installed, policy, trust, entry>>
  PROVE  [Enrolled!Next]_(Enrolled!vars)
  <1>1. CASE Complete
    <2>1. UNCHANGED store
      BY <1>1, CompleteStays
    <2> QED BY <2>1 DEF Enrolled!vars, store, Complete
  <1>2. CASE ~Complete /\ ~Complete'
    BY <1>2 DEF Enrolled!vars
  <1>3. CASE ~Complete /\ Complete'
    <2>1. private' \in Draws /\ secret' \in Draws
      <3>1. private' = public'
        BY <1>3 DEF KeyInv, StoreInv, Complete
      <3>2. {public', secret'} \subseteq Draws \cup {None}
        BY StepTyped DEF TypeOK
      <3> QED BY <1>3, <3>1, <3>2 DEF Complete
    <2>2. [key |-> private', secret |-> secret'] \in [key : Draws, secret : Draws]
      BY <2>1
    <2>3. Enrolled!Establish([key |-> private', secret |-> secret'])
      BY <1>3 DEF Enrolled!Establish
    <2> QED BY <2>2, <2>3 DEF Enrolled!Next
  <1> QED BY <1>1, <1>2, <1>3

\* A step on the host or on the entry leaves the identity alone.
LEMMA IdentityStays ==
  ASSUME UNCHANGED store
  PROVE  Identity' = Identity
  BY DEF store, Complete, Identity

LEMMA EnrolmentStep ==
  TypeOK /\ CarriesKey /\ KeyInv /\ KeyInv' /\ HostInv /\ [Next]_vars => [Enrolled!Next]_(Enrolled!vars)
  <1> SUFFICES ASSUME TypeOK, CarriesKey, KeyInv, KeyInv', HostInv, [Next]_vars
               PROVE  [Enrolled!Next]_(Enrolled!vars)
    OBVIOUS
  <1> USE DEF HostSteps
  <1>1. ASSUME NEW f \in Flows, AuthorizeKey(f) PROVE Enrolled!Admit(account[f]) /\ account[f] \in Accounts
    <2>1. /\ Identity = {[key |-> material[f].public, secret |-> material[f].secret]}
          /\ account[f] \in Accounts
      BY <1>1, HostStepCarries DEF CarriesIdentity, AuthorizeKey
    <2>2. Identity' = Identity
      BY <1>1, IdentityStays DEF AuthorizeKey
    <2>3. \E i \in Identity : authorized' = [authorized EXCEPT ![account[f]] = @ \cup {i.key}]
      BY <1>1, <2>1 DEF AuthorizeKey
    <2> QED BY <1>1, <2>1, <2>2, <2>3 DEF Enrolled!Admit, Identity, AuthorizeKey
  <1>2. ASSUME NEW f \in Flows, InstallHelper(f)
        PROVE  Enrolled!Install(pc[f]) /\ pc[f] \in {"agent", "ctl"}
    BY <1>2, HostStepCarries, IdentityStays
       DEF CarriesIdentity, Identity, InstallHelper, Enrolled!Install, store, HostInv, Deployed, KeyInv, Written
  <1>3. ASSUME NEW f \in Flows, InstallSudoers(f)
        PROVE  Enrolled!Delegate(account[f]) /\ account[f] \in Accounts
    <2>1. /\ Identity = {[key |-> material[f].public, secret |-> material[f].secret]}
          /\ material[f].public = private
      BY <1>3, HostStepCarries DEF CarriesIdentity, InstallSudoers
    <2>2. private \in authorized[account[f]]
      BY <1>3 DEF InstallSudoers, HostInv, Deployed
    <2>3. \E i \in Identity : i.key \in authorized[account[f]]
      BY <2>1, <2>2
    <2>4. installed = {"agent", "ctl"}
      BY <1>3 DEF InstallSudoers, HostInv, Deployed, TypeOK
    <2>5. Identity' = Identity
      BY <1>3, IdentityStays DEF InstallSudoers
    <2>6. account[f] \in Accounts
      BY <1>3, HostStepCarries DEF CarriesIdentity, InstallSudoers
    <2> QED BY <1>3, <2>3, <2>4, <2>5, <2>6 DEF Enrolled!Delegate, Identity, InstallSudoers
  <1>4. ASSUME NEW f \in Flows, ConfigureTrust(f), trust = None PROVE Enrolled!Trust
    <2>1. Identity = {[key |-> material[f].public, secret |-> material[f].secret]}
      BY <1>4, HostStepCarries DEF CarriesIdentity, ConfigureTrust
    <2>2. \E i \in Identity : trust' = i.secret
      BY <1>4, <2>1 DEF ConfigureTrust
    <2>3. policy # None
      BY <1>4 DEF ConfigureTrust, HostInv, Deployed
    <2>4. Identity' = Identity
      BY <1>4, IdentityStays DEF ConfigureTrust
    <2> QED BY <1>4, <2>2, <2>3, <2>4 DEF Enrolled!Trust, Identity, ConfigureTrust
  <1>5. ASSUME NEW f \in Flows, ConfigureTrust(f), trust # None
        PROVE  UNCHANGED <<authorized, installed, policy, trust, entry>>
    BY <1>5 DEF ConfigureTrust, Accepts
  <1>6. ASSUME NEW f \in Flows, Finish(f), entry' # entry
        PROVE  Enrolled!Enter(account[f]) /\ account[f] \in Accounts
    BY <1>6, HostStepCarries, IdentityStays
       DEF CarriesIdentity, Identity, Finish, Enrolled!Enter, store, host, HostInv, TrustAgrees, Deployed, KeyInv, Written
  <1>7. CASE RemoveEntry
    <2>1. Identity' = Identity
      BY <1>7, IdentityStays DEF RemoveEntry
    <2>2. Enrolled!Leave
      BY <1>7, <2>1 DEF RemoveEntry, Enrolled!Leave, Identity, host
    <2> QED BY <2>2 DEF Enrolled!Next
  <1>8. ASSUME NEW f \in Flows, Finish(f), entry' = entry
        PROVE  UNCHANGED <<authorized, installed, policy, trust, entry>>
    BY <1>8 DEF Finish, host
  <1>9. ASSUME NEW f \in Flows,
               \/ \E a \in Accounts : Discover(f, a)
               \/ Confirm(f) \/ Look(f) \/ WritePrivate(f) \/ WritePublic(f) \/ WriteSecret(f)
               \/ RedrawSecret(f) \/ LoadMaterial(f) \/ Login(f) \/ CallHelper(f) \/ Refused(f)
               \/ StepFails(f) \/ Decline(f) \/ Dismiss(f)
        PROVE  UNCHANGED <<authorized, installed, policy, trust, entry>>
    BY <1>9 DEF Discover, Confirm, Look, WritePrivate, WritePublic, WriteSecret, RedrawSecret,
                LoadMaterial, Login, CallHelper, Refused, StepFails, Decline, Dismiss, host
  <1>10. CASE Restart \/ UNCHANGED vars
    <2>1. UNCHANGED <<authorized, installed, policy, trust, entry>>
      BY <1>10 DEF Restart, vars, host
    <2> QED BY <2>1, StoreStep
  <1>11. CASE UNCHANGED <<authorized, installed, policy, trust, entry>>
    BY <1>11, StoreStep
  <1> HIDE DEF HostSteps
  <1> QED
    BY <1>1, <1>2, <1>3, <1>4, <1>5, <1>6, <1>7, <1>8, <1>9, <1>10, <1>11 DEF Next, Enrolled!Next

\* Whatever the flows do at the same time, and wherever each stops, they
\* amount to one enrolment: one identity, established once, given to the
\* machine step by step and never replaced.
THEOREM EnrolmentCorrect == KeyStepsListed => (Spec => EnrolmentSpec)
  <1>1. KeyStepsListed /\ TypeOK /\ CarriesKey /\ KeyInv /\ HostInv /\ [Next]_vars
           => /\ TypeOK' /\ CarriesKey' /\ KeyInv' /\ HostInv'
              /\ [Enrolled!Next]_(Enrolled!vars)
    BY StepTyped, StepKey, StepHost, EnrolmentStep
  <1>2. KeyStepsListed => KeyStepsListed'
    BY DEF KeyStepsListed
  <1> QED
    BY <1>1, <1>2, InitTyped, InitKey, InitHost, EnrolmentInit, PTL DEF Spec, EnrolmentSpec, Enrolled!Spec
=============================================================================
