# Pi Manager: TLA+ specifications and proofs

The Home Assistant integration `pi_manager` manages Debian and Raspberry Pi
hosts over SSH. The integration runs inside Home Assistant (asyncio); on every
host it installs a helper, `pi-managerctl`, which runs as root through one sudo
rule and is started anew for every request. This directory models the parts of
that system whose correctness depends on the order of things: helper processes
that share a file, coroutines that share a connection, refreshes that migrate a
host, config flows that set one up, options dialogs and restart buttons,
refreshes that overtake each other. TLC checks the models on small instances;
TLAPS proves the main invariants for instances of any size.

Paths below are relative to `src/custom_components/pi_manager/`; "agent" is
`remote/pi_manager_agent.py`.

## 1. Inventory

| component | state it keeps | operations | what is hard |
|---|---|---|---|
| Remote helper, package jobs (agent) | `state.json` (job record, retained results), `update.lock`, transient systemd units | start of five kinds of jobs, `status`, `check-updates`, three previews, audit, holds, failed services | one process per request; only starts lock; everyone rewrites the whole file from its own copy; units outlive processes; a reboot wipes units but not the file |
| Remote helper, upgrade and policy (agent) | agent, launcher and sudoers files | `upgrade-helper` | three files replaced one after the other; may stop in between; may outlive the call |
| Remote helper, trust and configuration (agent) | `trust.json`, `config.json` | `configure-trust`, `configure-services` | first write wins; a retry must present the same secret |
| Remote helper, telemetry and services (agent) | none | `status` readings, service status, restart | what it may send and what the integration takes are bounded apart from each other |
| Runtime (`runtime.py`) | cached SSH client, action lock, package-check clock | one helper call per service, refresh or button; unload | overlapping calls; connection broken or replaced while in use; cancellation |
| SSH transport (`ssh.py`) | one connection | connect, run, close | errors of different classes reach different handlers |
| Coordinator (`coordinator.py`, `repairs.py`) | last data, timer, error category, repair issues | refresh | awaits between reading status and acting on it; the refresh of set-up is not serialized with the others |
| Helper migration (`upgrade.py`) | `helper_upgrade_attempted` | at most one attempt per runtime | flag shared by overlapping refreshes; two stages; verification |
| Entry setup and unload (`__init__.py`) | runtime and coordinator of the entry | set-up, unload, reload, options update | calls and refreshes still in flight |
| Key store (`key_store.py`) | private key, public key, upgrade secret of each machine | create or load | three files, different write semantics, torn writes |
| Bootstrap (`bootstrap.py`) | files of the host | nine remote steps over a password connection and the first key login | may stop anywhere and is retried by the user |
| Config flow (`config_flow.py`) | discovered data, key material, the entry | user, reconfigure and reauth flows | concurrent flows, dialogs closed while a step runs, restarts |
| Host discovery (`discovery.py`) | none | read capabilities | none |
| Options flow (`options_flow.py`) | the entry's options, the host's allowlist | save | host first, entry second; dialogs, reloads, restarts and reconfigure flows in between |
| Contract, models (`contract.py`, `models.py`) | none | parse and sanitise answers | one field out of bounds refuses the whole status |
| Validation, sudoers (`validation.py`, `sudoers.py`) | none | predicates and rendering, once on each side | the two sides must agree |
| Entities, actions, diagnostics | which mounts and interfaces have sensors, which services have buttons | presentation, dispatch | items that turn up late; buttons older than the options |

How they interact. A config flow calls discovery, the key store and the
bootstrap, and creates the entry. Setting up the entry makes a runtime and a
coordinator. The coordinator refreshes through the runtime and migrates the host
when the helper is old. `status` is the one call that runs without the action
lock; `check-updates`, the migration, buttons and services all hold it. Every
runtime call becomes one helper process on the host. The processes
meet only in files and in systemd.

What makes the parts correct:

* package jobs: one at a time; the record tells the truth about the job in the
  end; nothing waits for ever for the lock;
* runtime: serialized calls exclude each other and the lock is always given
  back; a call is never handed a connection that was closed; a failure closes
  the connection it happened on;
* migration: one at a time, never a policy that is newer than its helper, and
  it happens;
* provisioning: an entry means a host that works; a bootstrap that stopped can
  be run again; the host's secret and ours never part;
* options: after a save, host and entry name the same services, a restart
  reaches only those, and what was saved comes into force;
* refreshes: newer data are not replaced by older ones, what the data name has a
  sensor, package checks keep their distance, and Online tells the truth.

## 2. Modules

| module | stands for |
|---|---|
| `PackageJobs` | helper processes, `state.json`, flock and systemd units of one host |
| `JobSlot` | what the helper promises about package jobs, without mechanism |
| `PackageJobs_proofs` | theorems about `PackageJobs`, and that it implements `JobSlot` |
| `Runtime` | coroutines of one entry, cached client, action lock |
| `Runtime_proofs` | theorems about `Runtime` |
| `Migration` | refreshes, runtimes and `upgrade-helper` processes of one host |
| `Migration_proofs` | theorems about `Migration` |
| `Provisioning` | key store, bootstrap and config flows of one machine |
| `Enrolment` | what setting up a machine promises, without flows and steps |
| `Provisioning_proofs` | theorems about `Provisioning`, and that it implements `Enrolment` |
| `Allowlist` | the entry's options, the host's `config.json`, dialogs, restart buttons, set-up and reload |
| `Allowlist_proofs` | theorems about `Allowlist` |
| `StatusContract` | the status document: what the helper sends, what the integration accepts (no state) |
| `StatusContract_proofs` | which hosts' documents are accepted |
| `Refresh` | the coordinator, its overlapping refreshes, the package-check clock and the sensors; uses `StatusContract` |
| `Refresh_proofs` | theorems about `Refresh` |
| `MC*` | constant values for TLC |

**PackageJobs.** One process of the helper goes through the steps its code has:
a start takes the flock (`Acquire`), reads the file (`Read`), compares a record
that says running with systemd (`Probe`), launches the unit (`Launch`), writes
the record and ends (`Record`). `status` reads, probes and writes its copy back
(`WriteBack`); `check-updates` reads *before* its apt queries, the maintenance
queries after (`FirstStep`, `AfterRead`). `ActiveState` is what `systemctl show`
says of a unit: a unit that ended well is collected and looks inactive, like one
that was never there; one that failed stays loaded as failed. `Mishaps` chooses
what else may happen: an error or kill before the write (`abort`), after the
launch (`orphan`), a `reboot`, and a look at a unit that systemd has queued and
not yet begun (`early`). `systemd-run --no-block` only queues a unit (`Launch`),
and `UnitBegin` begins it in every instance; without `early` the model supposes
that systemd has taken the unit off its queue before the next process asks for
it, which the code does not wait for. `OneAtATime` names operations of which the
caller never has two in flight, as the runtime's action lock promises.

**Runtime.** Each action runs from one `await` to the next; that is where
asyncio may switch. `EnsureConnected` and `DropClient` are the helpers of the
same name; `Return` is leaving the call, and with it `async with lock`.
`RunEscapes` is the channel that ends without an exit status: its `TypeError` is
not a connection error and passes the handler that drops the client.

**Migration.** A refresh reads the status, may await a package check, then
decides on the status it read (`Decide`): the check and the set of
`helper_upgrade_attempted` are one action because there is no await in between.
`upgrade-helper` runs as a process of its own, one file per step
(`InstallFile`), and goes on when its caller has timed out. Versions are 0
(unknown), 1 (older), 2 (this one), 3 (newer). `Escapes` is the same `TypeError`
as the runtime's `RunEscapes`, which no handler of the coordinator expects either.

**Provisioning.** A keypair or secret is the number of the draw it came from, so
that two of them are equal only if they are the same. `Look` to `LoadMaterial`
are the key store, with `O_EXCL` for the private key and `os.replace` for the
others; `AuthorizeKey` to `CallHelper` the bootstrap; `Accepts` is what the host
answers. `Back` shows the form again after an error. A flow whose dialog was
closed has `kind = "none"` and runs on to its end unseen. `Enrolled` is the view of
`Enrolment`: the identity it establishes exists from the moment the third key
file is written, everything on the host and the entry is taken as it is.

**Allowlist.** A dialog waits for the runtime's lock, the host writes
(`HostConfigures`), the answer comes back and the options are saved in one go
(`Answered`), or the call fails with the write not made, made, or still to come
from a process nobody waits for (`DialogFails`, `StrayConfigures`). Dialog and
press keep the runtime they began with, and a reload brings a new one with a
new lock, so that locks of two runtimes do not exclude each other. Set-up is
three steps, because the listener is registered before the buttons read the
options. `agreed` and `alone` are history: they say whether anything has crossed
the last save.

**StatusContract and Refresh.** A host is a record of what the helper would
read; `Status` makes a document of it with the helper's limits, `Accepts`
applies the integration's. Temperatures are in thousandths of a degree; numbers
the helper always sends in the right form are left out. `Refresh` runs refreshes
from await to await. `First` is the one set-up starts, which may overlap the
others; `LockFree`, `Begin`, `End` and `TimerFires` are the lock and the timer
of Home Assistant's coordinator, external to this code; no property is about
them alone. `CallLost` is a status call that fails, or a check whose channel
ends without an exit status: that `TypeError` passes the handler around the
check, and the refresh fails, where other errors of the check do not keep the
status from being published (`CheckEnds`). `AddDynamic` adds sensors in any
order and turns down a second one with the same unique id (`Slug`). Helpers are
current here, so that no migration interferes, and package checks are enabled.
`later` and `overtaken` are history: who read after whom, who published before
whom.

Operators whose comment begins with "Slip:" are not part of a specification.
Each is the following definition with a plausible programming error in it; put
in its place, TLC finds the property it is aimed at violated.

## 3. Runs

Passing runs:

| run | checks | instance | shows |
|---|---|---|---|
| `jobs_starters` | `TypeOK`, `TrackedJobsSerialized`, `SlotSpec` | 3 processes, 3 units, queued units, aborts, orphans, reboots; no early look | starts alone keep one known job at a time and implement `JobSlot` |
| `jobs_mixed` | `SuccessIsReal`, `FlockFollowsStarts` | 2 processes, 2 units, starts, status, update checks, audits, aborts, orphans, reboots; no early look | no stale copy makes a success of anything else; nobody leaves the flock behind |
| `jobs_progress` | `StartsAnswer`, `SuccessReported` | 2 processes, 2 units, starts and status, early looks at queued units | starts answer; where no status copy spans a record, a success is recorded in the end and stays until a later job |
| `runtime` | `TypeOK`, `SerializedCallsExclude`, `CachedClientNotClosed`, `LockFollowsCalls`, `EveryCallReturns` | 3 calls, 2 connections | locking and caching survive every failure and unloading |
| `migration` | `TypeOK`, `PolicyIsLast`, `OneMigration`, `AttemptSuffices`, `UndisturbedMigrationCompletes` | initial and one requested refresh, hosts older, equal and newer, 1 fault, 1 reload | one migration at a time, policy last, done in the end, by a runtime's one attempt |
| `allowlist` | `TypeOK`, `HostAgrees`, `RestartsListed`, `NoChangeMissed`, `OptionsComeIntoForce` | 2 dialogs, 1 press, 2 runtimes, 1 lost call, reloads and reconfigure flows without bound | host and entry agree from a save nothing crossed until something does; stale buttons restart nothing; saved options come into force |
| `refresh` | `TypeOK`, `EveryItemShown`, `NoStepBack`, `ChecksApart`, `ShownIsFit`, `OnlineSettles` | the first refresh and two others, 8 hosts, cadence 2, 2 lost calls, changes or reloads | Online and the data shown follow the host in the end, whichever refreshes overlap; one runtime's checks keep apart |
| `provisioning` | `TypeOK`, `TrustAgrees`, `EntryWorks`, `OnlyRivalsRefuse`, `EnrolmentSpec`, `PartialSetupRetries` | 2 flows, 2 accounts, 2 faults or restarts, 4 draws | an entry means a complete bootstrap; a failed one can be retried; all flows together are one enrolment |

Runs that refute what the repository says, each with the sentence it refutes
under `findings` in `PROJECT.json`:

| run | refutes | how |
|---|---|---|
| `jobs_status_race` | `SerializedJobs` | a status poll reads, a job is recorded, the poll writes its copy back: the record is gone and the next start launches a second job |
| `jobs_failure` | `FailureReported` | a failed unit is neither active nor inactive, so its record says running for ever, and later jobs are refused |
| `migration_repair` | `RepairClears` | a refresh that overlaps a migration raises the issue and nothing clears it |
| `provisioning_torn` | `RetryStateUsable` | a stop between the private and the public key leaves half a pair, refused from then on |

More disagreements are met in the models, and no run is given to them. A look
at a unit that is still queued finds it inactive, records a success that is
none and lets a second job start: with `early` among the mishaps TLC finds
`SuccessIsReal` and `SerializedJobs` violated. The window is as long as systemd
takes to dispatch its queue; the runs and theorems about serialization and
success leave it out and say so. A call whose command fails drops whatever client
is cached, also one that another call has just connected (`DropClient` in `Runtime`; ACCEPTANCE_TESTS.md:29 speaks
of the affected client). And one failure of a migration, a lost connection
included, leaves `helper_upgrade_attempted` set until a reload, although
SECURITY.md:67 says that a later refresh can retry; `UndisturbedMigrationCompletes`
excepts faults for that reason.

What two properties do not claim. `SuccessReported` is about histories in which
no job is recorded while a status holds a copy from before it: there the record
may be lost altogether, which is what `jobs_status_race` shows. In all others a
stale copy may turn a record back to running, but the success comes back and
stays. `ChecksApart` is about one runtime: the time of the last attempt is kept
there, so a reload, and with it every change of the options, checks again at
once.

Why the bounds are enough. A stale write needs the process that makes it and one
that is overtaken; two jobs at once need two units; three starters and three
units let one start wait while another is orphaned and a third goes on. The
runtime's accidents need a call that connects, one whose client is replaced and
one that waits for the lock, and two connections of which one replaces the
other. A migration needs two refreshes to race, one fault to fail and one reload
to get a second runtime. A provisioning run needs a failed attempt and a
restart, a second account to contend for the policy, and four draws for two
flows that each generate a pair and lose its secret. Agreement of host and entry
needs two dialogs to cross, two runtimes for locks that do not exclude each
other, and one call that is given up; a third runtime adds another of the same
kind. In `refresh` three refreshes let two overlap set-up's, two ticks make a
check due, two events let a host break and recover or a reload follow a change,
and the eight hosts are one that is fit and others that fail on one field each
or differ in what they mount. Where processes, units or names are
interchangeable and only safety is checked, symmetry is used. The proofs remove
the bounds for the invariants they cover.

`CHECK_DEADLOCK FALSE` is set where the instances run out of unit names,
connections, draws or faults, so that the model may stop; `allowlist` and
`refresh` never do.

### Fairness

* A helper process goes on (`WF` on its next step): every command it runs has a
  timeout. `SF` on `Acquire`: the kernel serves the waiters of a flock, and
  asyncio's `Lock` is first come, first served.
* A unit begins and ends (`WF`): systemd runs its queue, and each apt call of
  the worker has a timeout.
* Refreshes come again (`SF` on invoking `status`, on beginning a requested
  refresh): the coordinator polls on a timer for as long as the entry is loaded.
* Awaits end (`WF` on `Resume`): connect and run both have timeouts.
* In `Provisioning`, the steps of a flow end (`WF`), and a user who sees the form
  submits it or gives up (`WF` on the disjunction, never on submitting alone).

* In `Allowlist`, calls that hold or wait for the lock end (`WF`), and a reload
  that is due is carried through (`WF`), by Home Assistant's set-up lock.
* In `Refresh`, the task of set-up starts, the timer fires when nothing runs, and
  a refresh that is under way goes on (`WF` each); a requested refresh need never
  come.

No fairness is given to failures, requests for jobs, reloads, reboots or
starting flows.

## 4. What is proved

All of it for every value of the constants that satisfies the named
assumptions. Each `_proofs` module first proves typing, then an inductive
strengthening, with one step per action.

* `PackageJobs_proofs`. `TypeCorrect`: `TypeOK`. `StartsSerialized`:
  `TrackedJobsSerialized` when only starts run and none looks at a unit before
  systemd has begun it (`StartsOnly`). The invariant (`IInv`) says that a
  process past the lock holds it, that its copy of the file still equals the
  file, that it launches only when the recorded job is over, and that no other
  tracked unit is live meanwhile. The property alone is not inductive: nothing
  in it says that the copy a starter decided on is still what the file says.
  `ImplementsSlot`: the same invariant gives that every step is a step of
  `JobSlot` or leaves its variables alone. `JobsSerialized`: the documented,
  unconditional `SerializedJobs` holds under three conditions, that only starts
  run, that every launch is recorded and that no start looks at a unit before
  systemd has begun it. The code assures none of them, and TLC finds
  `SerializedJobs` violated without any one. `SuccessCorrect`: `SuccessIsReal`
  for *all* operations if nobody looks so early; its invariant carries the
  property to every copy in flight. `FlockCorrect`: `FlockFollowsStarts` for all
  operations, from the part of the process invariant that ties each position to
  the lock. `JobsSerializedInTurns`: the same `SerializedJobs` that
  `jobs_status_race` refutes holds for *all* operations if the caller never has
  two of them in flight and no launch goes unrecorded and nobody looks at a
  queued unit (`InTurns`). The invariant (`TurnInv`) says that the copy of the
  one process at work is the file, except that it may have settled a job that
  has ended. So the overlap with `status`, which the runtime leaves out of its
  lock, is what the refuting run needs.
* `Runtime_proofs`. `TypeCorrect`; `SerializedCorrect`, from the invariant that
  a serialized call past the lock is the one the lock names; `LockCorrect`
  (`LockFollowsCalls`), the other way round: the lock names a call that is inside;
  `CachedCorrect`.
* `Migration_proofs`. `TypeCorrect`; `MigrationExclusive`, from the invariant
  that a migrating refresh has set the flag of its runtime and that it is the
  only one; `PolicyLastCorrect`, from the invariant that a process about to
  replace the next file has replaced the ones before it. `AttemptCorrect`
  (`AttemptSuffices`): the invariant says what each refresh in the middle of a
  migration may rely on. A helper that was current when it was read still is
  (`HostAdvances`), a second stage is only begun for a policy that will be
  written, a runtime still to come has not attempted anything, and without
  faults no helper process ends in an error.
* `Provisioning_proofs`. `TypeCorrect`, for any flows and faults. `TrustCorrect`
  (`TrustAgrees`) and `EntryCorrect` (`EntryWorks`), under the assumption
  `KeyStepsListed` that no dialog is closed while its keys are being generated.
  The invariant says, step by step, what a flow knows: a flow past the key store
  carries exactly what the store holds, and the store is complete; a flow in the
  key store is listed, and at most one user flow is listed, so that no other
  flow writes the files it is writing (`KeyInv`); a complete store never changes
  (`CompleteStays`); and the remote steps behind a flow are on the host
  (`HostInv`). `EntryWorks` alone says nothing of a bootstrap that is under way,
  which is where the entry comes from. Without the assumption `EntryWorks` is
  false: two generations of one machine can interleave, each leaving some of its
  files. `RefusalsCorrect` (`OnlyRivalsRefuse`) follows from `KeyInv` and
  `HostInv`, because a flow on the host carries what the store holds and the
  host has nothing else. `EnrolmentCorrect`: under the same assumption
  `Provisioning` implements `Enrolment`. A step on the key files keeps the
  identity or, with the last file, establishes it (`StoreStep`); each step on
  the host is one of `Enrolment` because the flow carries the identity
  (`HostStepCarries`) and what the step rests on is deployed; all others leave
  its variables alone.

* `Allowlist_proofs`. `TypeCorrect`; `AgreementCorrect` (`HostAgrees`), from the
  invariant that a dialog whose call nothing crossed is the only one of its
  runtime past the lock, that no other dialog of another runtime is past its own,
  and that the host holds what it asked for once it is written;
  `RestartsCorrect` follows from the same invariant, since the host looks at its
  own list in the step that decides. `ChangesCorrect` (`NoChangeMissed`) is
  inductive as it stands.
* `StatusContract_proofs`. `AcceptedIffFit`: for a configuration that
  `configure-services` can have written, the integration accepts the answer if
  and only if the host is `Fit`. The helper's limits on services, previews and
  names suffice; the machine id, the sign of the first plausible temperature, the
  numbers of mounts and interfaces and the size are what can refuse a status.
* `Refresh_proofs`. `TypeCorrect`, with the type of documents from
  `StatusContract_proofs`; `ItemsCorrect` (`EveryItemShown`), from the invariant
  that what has been met has a sensor with its slug; `OrderCorrect`
  (`NoStepBack`), from the invariant that of two refreshes under way one is
  set-up's; `ChecksCorrect` (`ChecksApart`), from the invariant that the
  recorded attempt is never older than the last automatic check of its runtime.
  `ShownCorrect` (`ShownIsFit`) carries every answer back to the host that gave
  it, and uses `AcceptedIffFit` where the answer is accepted.

Assumptions on constants are the `ConstantsAssumption` of each module
(`ContractAssumption` and `RefreshAssumption` in the last two), evaluated by the
runs.

Model-checked only: every liveness property, since liveness under fairness is
outside of what the proof system does here, and the refuted properties. What can
be proved of each liveness property is that the state in which it would fail is
never reached:

| liveness, checked | safety behind it, proved |
|---|---|
| `StartsAnswer` | `FlockFollowsStarts` |
| `EveryCallReturns` | `LockFollowsCalls` |
| `UndisturbedMigrationCompletes` | `AttemptSuffices` |
| `PartialSetupRetries` | `OnlyRivalsRefuse`, `TrustAgrees` |
| `OptionsComeIntoForce` | `NoChangeMissed` |
| `OnlineSettles` | `ShownIsFit` |

## 5. What is not modelled, and the plan

Not modelled: discovery, which keeps no state; the figures of telemetry and the
entities that only present them; diagnostics; the text of policies, the rules
for names, and documents that no helper of this version sends, which are data;
signatures, which appear as one refusal. Asyncssh, systemd, the kernel and Home
Assistant appear only as the code sees them, marked external in the map. Each
model has one entry and one host: entries that move from one machine to another
are not modelled.

Order of the plan, done and to do:

1. `PackageJobs` with `JobSlot` and proofs: done.
2. `Runtime` with proofs: done.
3. `Migration` with proofs: done.
4. `Provisioning` with proofs: done.
5. `Allowlist` with proofs: done.
6. `StatusContract` and `Refresh` with proofs: done.
7. `Entries`: several machines, the check for duplicates at discovery against the
   entry created at the end (both a user flow and a reconfigure flow can pass it for
   one machine), and entries that keep the unique id of a machine they have left.
8. `Enrolment`, the abstract specification of provisioning, and the proof that
   `Provisioning` implements it: done.
9. An abstract specification of a host's versions (older, helper current, both
   current), and the proof that `Migration` implements it.
