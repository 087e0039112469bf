----------------------------- MODULE Migration -----------------------------
(***************************************************************************)
(* The signed helper and policy migration of one managed host: the          *)
(* coordinator's refreshes find an old helper or a stale sudoers policy and *)
(* call upgrade-helper, whose process on the host replaces the agent, the   *)
(* launcher and the policy one file at a time.                              *)
(***************************************************************************)
EXTENDS Naturals, FiniteSets

CONSTANTS
    Initial,          \* the refresh that async_setup_entry starts
    Requested,        \* slots for requested and scheduled refreshes
    InstalledBefore,  \* helper versions the host may have to begin with
    MaxFaults,        \* bound: calls and installations that fail
    MaxReloads        \* bound: reloads of the config entry

\* Versions: 0 stands for "unknown", 1 for anything older than the helper
\* this integration carries, 3 for anything newer.
HELPER_VERSION == 2

Refreshes == {Initial} \cup Requested
Runtimes == 0 .. MaxReloads

ASSUME ConstantsAssumption ==
    /\ Initial \notin Requested
    /\ InstalledBefore \subseteq 1 .. 3
    /\ MaxFaults \in Nat /\ MaxReloads \in Nat

VARIABLES
    agent, ctl, policy,  \* versions of the files on the host
    proc,        \* the upgrade-helper process of each refresh, by next step
    sudoers,     \* is that process given a policy?
    pc,          \* the await each refresh is suspended at
    runtime,     \* the runtime each refresh belongs to
    reported,    \* the versions in the status it has read
    current,     \* the runtime of the entry now (one per reload)
    attempted,   \* helper_upgrade_attempted of each runtime
    started,     \* has the entry's initial refresh begun?
    issues,      \* open repair issues
    category,    \* last_error_category
    faults

host == <<agent, ctl, policy>>
entry == <<current, started>>
vars == <<host, proc, sudoers, pc, runtime, reported, entry, attempted, issues, category, faults>>

Versions == 0 .. 3

\* "refused" stands for the codes and error classes of refused answers.
Categories == {"none", "cannot_connect", "refused", "helper_incompatible", "fingerprint_changed"}

TypeOK ==
    /\ {agent, ctl, policy} \subseteq Versions
    /\ proc \in [Refreshes -> {"none", "agent", "ctl", "sudoers", "ok", "error"}]
    /\ sudoers \in [Refreshes -> BOOLEAN]
    /\ pc \in [Refreshes -> {"idle", "status", "check", "material", "stage1", "stage2", "verify"}]
    /\ runtime \in [Refreshes -> Runtimes]
    /\ reported \in [Refreshes -> [agent : Versions, policy : Versions]]
    /\ current \in Runtimes
    /\ attempted \in [Runtimes -> BOOLEAN]
    /\ started \in BOOLEAN
    /\ issues \in SUBSET {"helper", "fingerprint"}
    /\ category \in Categories
    /\ faults \in 0 .. MaxFaults

Fault == faults < MaxFaults /\ faults' = faults + 1

----------------------------------------------------------------------------
\* How a refresh ends: with data, or as UpdateFailed with its category.
Succeed(r) ==
    /\ pc' = [pc EXCEPT ![r] = "idle"]
    /\ category' = "none"
    /\ UNCHANGED issues

Unavailable(r, c) ==
    /\ pc' = [pc EXCEPT ![r] = "idle"]
    /\ category' = c
    /\ issues' = issues \cup (CASE c = "helper_incompatible" -> {"helper"}
                                [] c = "fingerprint_changed" -> {"fingerprint"}
                                [] OTHER -> {})

\* Slip: the flag is set only when the trust material has been loaded.
Decide_LateFlag(r, v) ==
    LET stale == v.agent < HELPER_VERSION \/ v.policy # HELPER_VERSION IN
    \/ ~stale /\ Succeed(r) /\ UNCHANGED attempted
    \/ stale /\ attempted[runtime[r]] /\ Unavailable(r, "helper_incompatible")
             /\ UNCHANGED attempted
    \/ /\ stale /\ ~attempted[runtime[r]]
       /\ pc' = [pc EXCEPT ![r] = "material"]
       /\ UNCHANGED <<attempted, issues, category>>

\* async_upgrade_if_needed up to its first await, on the status read before.
Decide(r, v) ==
    LET stale == v.agent < HELPER_VERSION \/ v.policy # HELPER_VERSION IN
    \/ ~stale /\ Succeed(r) /\ UNCHANGED attempted
    \/ stale /\ attempted[runtime[r]] /\ Unavailable(r, "helper_incompatible")
             /\ UNCHANGED attempted
    \/ /\ stale /\ ~attempted[runtime[r]]
       /\ attempted' = [attempted EXCEPT ![runtime[r]] = TRUE]
       /\ pc' = [pc EXCEPT ![r] = "material"]
       /\ UNCHANGED <<issues, category>>

\* A process of upgrade-helper starts.  An older agent has no --sudoers
\* argument and refuses the whole call.
Call(r, withPolicy) ==
    /\ proc' = [proc EXCEPT ![r] =
                  IF withPolicy /\ agent < HELPER_VERSION THEN "error" ELSE "agent"]
    /\ sudoers' = [sudoers EXCEPT ![r] = withPolicy]

----------------------------------------------------------------------------
\* Only one requested or scheduled refresh of a coordinator runs at a time;
\* the initial one is started past the coordinator's lock.  (Bound: a slot
\* is used again only when its upgrade-helper process has ended.)
Begin(r) ==
    /\ pc[r] = "idle"
    /\ proc[r] \in {"none", "ok", "error"}
    /\ IF r = Initial
       THEN ~started
       ELSE \A q \in Requested : runtime[q] = current => pc[q] = "idle"
    /\ started' = (started \/ r = Initial)
    /\ runtime' = [runtime EXCEPT ![r] = current]
    /\ pc' = [pc EXCEPT ![r] = "status"]
    /\ UNCHANGED <<host, proc, sudoers, reported, current, attempted, issues, category, faults>>

\* The status arrives.  If a package check is due the refresh awaits it,
\* otherwise it goes on at once.
Status(r) ==
    LET v == [agent |-> agent, policy |-> policy] IN
    /\ pc[r] = "status"
    /\ reported' = [reported EXCEPT ![r] = v]
    /\ \/ /\ pc' = [pc EXCEPT ![r] = "check"]
          /\ UNCHANGED <<attempted, issues, category>>
       \/ Decide(r, v)
    /\ UNCHANGED <<host, proc, sudoers, runtime, entry, faults>>

StatusFails(r) ==
    /\ pc[r] = "status"
    /\ Fault
    /\ \E c \in {"cannot_connect", "refused", "fingerprint_changed"} : Unavailable(r, c)
    /\ UNCHANGED <<host, proc, sudoers, runtime, reported, entry, attempted>>

\* The package check ends; its errors are swallowed, and the status read
\* before it is what the migration goes by.
CheckEnds(r) ==
    /\ pc[r] = "check"
    /\ Decide(r, reported[r])
    /\ UNCHANGED <<host, proc, sudoers, runtime, reported, entry, faults>>

\* Key, secret and helper sources are loaded.  Only an older helper needs
\* the first, unextended stage.
Material(r) ==
    LET old == reported[r].agent < HELPER_VERSION IN
    /\ pc[r] = "material"
    /\ Call(r, ~old)
    /\ pc' = [pc EXCEPT ![r] = IF old THEN "stage1" ELSE "stage2"]
    /\ UNCHANGED <<host, runtime, reported, entry, attempted, issues, category, faults>>

Stage1Done(r) ==
    /\ pc[r] = "stage1"
    /\ proc[r] = "ok"
    /\ Call(r, TRUE)
    /\ pc' = [pc EXCEPT ![r] = "stage2"]
    /\ UNCHANGED <<host, runtime, reported, entry, attempted, issues, category, faults>>

Stage2Done(r) ==
    /\ pc[r] = "stage2"
    /\ proc[r] = "ok"
    /\ pc' = [pc EXCEPT ![r] = "verify"]
    /\ UNCHANGED <<host, proc, sudoers, runtime, reported, entry, attempted, issues, category, faults>>

\* Slip: the helper's own error code becomes the category.
StageRefused_RawCode(r) ==
    /\ pc[r] \in {"stage1", "stage2"}
    /\ proc[r] = "error"
    /\ Unavailable(r, "helper_upgrade_signature_invalid")
    /\ UNCHANGED <<host, proc, sudoers, runtime, reported, entry, attempted, faults>>

\* The helper answered an error code.
StageRefused(r) ==
    /\ pc[r] \in {"stage1", "stage2"}
    /\ proc[r] = "error"
    /\ Unavailable(r, "helper_incompatible")
    /\ UNCHANGED <<host, proc, sudoers, runtime, reported, entry, attempted, faults>>

\* Trust material missing, connection lost, fingerprint changed, or no
\* answer in time, in which case the process on the host goes on.
MigrationFails(r) ==
    /\ pc[r] \in {"material", "stage1", "stage2", "verify"}
    /\ Fault
    /\ Unavailable(r, "helper_incompatible")
    /\ UNCHANGED <<host, proc, sudoers, runtime, reported, entry, attempted>>

\* A channel that ends without an exit status raises a TypeError, which no
\* handler here expects: the refresh ends with neither category nor issue.
Escapes(r) ==
    /\ pc[r] \in {"status", "check", "stage1", "stage2", "verify"}
    /\ Fault
    /\ pc' = [pc EXCEPT ![r] = "idle"]
    /\ UNCHANGED <<host, proc, sudoers, runtime, reported, entry, attempted, issues, category>>

Verify(r) ==
    /\ pc[r] = "verify"
    /\ IF agent >= HELPER_VERSION /\ policy = HELPER_VERSION
       THEN Succeed(r) ELSE Unavailable(r, "helper_incompatible")
    /\ UNCHANGED <<host, proc, sudoers, runtime, reported, entry, attempted, faults>>

----------------------------------------------------------------------------
\* Slip: the policy goes first, then the helper it belongs to.
NextFile_PolicyFirst(r) ==
    CASE proc[r] = "agent" -> (IF sudoers[r] THEN "sudoers" ELSE "ctl")
      [] proc[r] = "sudoers" -> "ctl"
      [] OTHER -> "ok"

\* _upgrade_helper past its checks: os.replace of the agent, of the
\* launcher, then of the policy if one was given and visudo accepts it.
NextFile(r) ==
    CASE proc[r] = "agent" -> "ctl"
      [] proc[r] = "ctl" -> (IF sudoers[r] THEN "sudoers" ELSE "ok")
      [] OTHER -> "ok"

\* Slip: an upgrade leaves the policy to the next one.
InstallFile_NoPolicy(r) ==
    /\ proc[r] \in {"agent", "ctl", "sudoers"}
    /\ agent' = IF proc[r] = "agent" THEN HELPER_VERSION ELSE agent
    /\ ctl' = IF proc[r] = "ctl" THEN HELPER_VERSION ELSE ctl
    /\ proc' = [proc EXCEPT ![r] = NextFile(r)]
    /\ UNCHANGED <<policy, sudoers, pc, runtime, reported, entry, attempted, issues, category, faults>>

InstallFile(r) ==
    /\ proc[r] \in {"agent", "ctl", "sudoers"}
    /\ agent' = IF proc[r] = "agent" THEN HELPER_VERSION ELSE agent
    /\ ctl' = IF proc[r] = "ctl" THEN HELPER_VERSION ELSE ctl
    /\ policy' = IF proc[r] = "sudoers" THEN HELPER_VERSION ELSE policy
    /\ proc' = [proc EXCEPT ![r] = NextFile(r)]
    /\ UNCHANGED <<sudoers, pc, runtime, reported, entry, attempted, issues, category, faults>>

\* Signature refused, disk full, visudo unhappy, or the process killed: the
\* files replaced so far stay replaced.
InstallFails(r) ==
    /\ proc[r] \in {"agent", "ctl", "sudoers"}
    /\ Fault
    /\ proc' = [proc EXCEPT ![r] = "error"]
    /\ UNCHANGED <<host, sudoers, pc, runtime, reported, entry, attempted, issues, category>>

\* The entry is unloaded and set up again: a new runtime and coordinator.
\* The initial refresh is cancelled, a requested one goes on by itself.
Reload ==
    /\ current < MaxReloads
    /\ current' = current + 1
    /\ started' = FALSE
    /\ pc' = [pc EXCEPT ![Initial] = "idle"]
    /\ UNCHANGED <<host, proc, sudoers, runtime, reported, attempted, issues, category, faults>>

----------------------------------------------------------------------------
Init ==
    /\ agent \in InstalledBefore
    /\ ctl = agent
    /\ policy \in {0, agent}
    /\ proc = [r \in Refreshes |-> "none"]
    /\ sudoers = [r \in Refreshes |-> FALSE]
    /\ pc = [r \in Refreshes |-> "idle"]
    /\ runtime = [r \in Refreshes |-> 0]
    /\ reported = [r \in Refreshes |-> [agent |-> 0, policy |-> 0]]
    /\ current = 0
    /\ attempted = [n \in Runtimes |-> FALSE]
    /\ started = FALSE
    /\ issues = {}
    /\ category = "none"
    /\ faults = 0

Resume(r) ==
    \/ Status(r) \/ CheckEnds(r) \/ Material(r) \/ Stage1Done(r) \/ Stage2Done(r)
    \/ StageRefused(r) \/ Verify(r)

Next ==
    \/ \E r \in Refreshes :
          \/ Begin(r)
          \/ Status(r)
          \/ StatusFails(r)
          \/ CheckEnds(r)
          \/ Material(r)
          \/ Stage1Done(r)
          \/ Stage2Done(r)
          \/ StageRefused(r)
          \/ MigrationFails(r)
          \/ Escapes(r)
          \/ Verify(r)
          \/ InstallFile(r)
          \/ InstallFails(r)
    \/ Reload

Spec == Init /\ [][Next]_vars

\* Awaits end, an upgrade-helper process runs to its end, and the
\* coordinator's timer requests a refresh again and again.
Fairness ==
    /\ \A r \in Refreshes : WF_vars(Resume(r)) /\ WF_vars(InstallFile(r))
    /\ WF_vars(Begin(Initial))
    /\ SF_vars(\E r \in Requested : Begin(r))

FairSpec == Spec /\ Fairness

----------------------------------------------------------------------------
Migrating(r) == pc[r] \in {"material", "stage1", "stage2", "verify"}
HostCurrent == agent >= HELPER_VERSION /\ policy = HELPER_VERSION

\* The policy marker that status reports never runs ahead of the helper: a
\* current policy means that agent and launcher are current too, wherever an
\* upgrade-helper process stopped, however many of them ran.
PolicyIsLast == policy = HELPER_VERSION => agent = HELPER_VERSION /\ ctl = HELPER_VERSION

\* Overlapping refreshes of one runtime never migrate the host twice at once.
OneMigration ==
    \A r, q \in Refreshes :
        Migrating(r) /\ Migrating(q) /\ runtime[r] = runtime[q] => r = q

\* A runtime migrates once and never again, so its one attempt has to do:
\* while nothing fails, an attempt that is over leaves a current host behind,
\* whatever refreshes of this and of earlier runtimes did in between.
AttemptSuffices ==
    attempted[current] /\ faults = 0 =>
        HostCurrent \/ \E r \in Refreshes : Migrating(r) /\ runtime[r] = current

\* With refreshes that keep coming, a host that is not current becomes so:
\* neither overlapping refreshes nor a reload in the middle prevent it, as
\* long as no call and no installation fails.
UndisturbedMigrationCompletes == ~HostCurrent ~> (HostCurrent \/ faults > 0)

\* Once the host is current, the repair issue goes (INSTALLATION.md:107: "the
\* repair clears only after schema-valid status reports helper and policy").
RepairClears == ("helper" \in issues /\ HostCurrent) ~> "helper" \notin issues
=============================================================================
