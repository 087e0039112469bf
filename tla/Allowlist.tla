----------------------------- MODULE Allowlist -----------------------------
(***************************************************************************)
(* The monitored services of one entry are kept twice: in the entry's       *)
(* options and in config.json on the host, which decides what may be        *)
(* restarted.  Options dialogs write the host first and the entry second;   *)
(* presses of restart buttons, reloads, reconfigure flows and processes     *)
(* that outlive their call get in between.                                  *)
(***************************************************************************)
EXTENDS Naturals

CONSTANTS
    Services,
    Dialogs, Presses,   \* slots for options dialogs and for button presses
    Runtimes,           \* slots for runtimes that some call still uses
    Choices,            \* the options a user may save
    MaxFaults,          \* bound on calls that fail or time out
    None

Tasks == Dialogs \cup Presses
Options == [services : SUBSET Services, dangerous : BOOLEAN]

ASSUME ConstantsAssumption ==
    /\ Dialogs \cap Presses = {}
    /\ None \notin Tasks \cup Services \cup Runtimes \cup Options
    /\ Runtimes # {}
    /\ Choices \subseteq Options
    /\ MaxFaults \in Nat

VARIABLES
    options,    \* entry.options, as far as services and controls go
    allowed,    \* the services in the host's config.json
    setup,      \* how far the entry is set up
    current,    \* the runtime of the last set-up
    buttons,    \* the services that have a restart button
    changed,    \* a reload is due: the update listener has been called
    lock,       \* the task that holds each runtime's action_lock
    pc,         \* where each dialog or press stands
    runtime,    \* the runtime its call goes through
    asked,      \* the options it wants saved, the service it wants restarted
    strays,     \* configure-services processes whose caller has given up
    faults,
    agreed,     \* history: nothing has parted host and entry since a save
    alone       \* history: dialogs whose host call nothing has crossed

entry == <<options, setup, current, buttons, changed>>
task == <<pc, runtime, asked>>
history == <<agreed, alone>>
vars == <<entry, allowed, lock, task, strays, faults, history>>

DialogSteps == {"lock", "configure", "written"}
PressSteps == {"lock", "check", "restart", "done"}

TypeOK ==
    /\ options \in Options
    /\ allowed \in SUBSET Services
    /\ setup \in {"unloaded", "started", "buttons", "loaded"}
    /\ current \in Runtimes
    /\ buttons \in SUBSET Services
    /\ changed \in BOOLEAN
    /\ lock \in [Runtimes -> Tasks \cup {None}]
    /\ pc \in [Tasks -> DialogSteps \cup PressSteps \cup {"idle"}]
    /\ runtime \in [Tasks -> Runtimes \cup {None}]
    /\ asked \in [Tasks -> Options \cup Services \cup {None}]
    /\ \A t \in Tasks : pc[t] # "idle" =>
          runtime[t] \in Runtimes /\ asked[t] \in (IF t \in Dialogs THEN Options ELSE Services)
    /\ strays \in SUBSET SUBSET Services
    /\ faults \in 0 .. MaxFaults
    /\ agreed \in BOOLEAN
    /\ alone \in SUBSET Dialogs

----------------------------------------------------------------------------
(* Saving *)

\* The service part of button.async_setup_entry.
ButtonsFor(o) == IF o.dangerous THEN o.services ELSE {}

\* Slip: the update listener is registered only when the platforms are up.
ListenerOn_Late == setup = "loaded"

\* Set-up registers the update listener before the platforms, unloading
\* removes it.
ListenerOn == setup # "unloaded"

\* The dialog's data become the entry's options, and the listeners of an
\* entry whose options changed are called.
SaveOptions(o) ==
    /\ options' = o
    /\ changed' = (changed \/ (ListenerOn /\ o # options))
    /\ UNCHANGED <<setup, current, buttons>>

\* Slip: the runtime is taken to be there only when set-up is complete.
Queue_NoRuntime(t, what) ==
    /\ pc[t] = "idle"
    /\ pc' = [pc EXCEPT ![t] = "lock"]
    /\ runtime' = [runtime EXCEPT ![t] = IF setup = "loaded" THEN current ELSE None]
    /\ asked' = [asked EXCEPT ![t] = what]

\* A task starts through the runtime of the moment, and queues for its lock.
Queue(t, what) ==
    /\ pc[t] = "idle"
    /\ pc' = [pc EXCEPT ![t] = "lock"]
    /\ runtime' = [runtime EXCEPT ![t] = current]
    /\ asked' = [asked EXCEPT ![t] = what]

Goto(t, step) ==
    /\ pc' = [pc EXCEPT ![t] = step]
    /\ UNCHANGED <<runtime, asked>>

Take(t) == lock[runtime[t]] = None /\ lock' = [lock EXCEPT ![runtime[t]] = t]

\* The task is over; it gives the lock back if it has it.
Leave(t) ==
    /\ lock' = [g \in Runtimes |-> IF lock[g] = t THEN None ELSE lock[g]]
    /\ pc' = [pc EXCEPT ![t] = "idle"]
    /\ runtime' = [runtime EXCEPT ![t] = None]
    /\ asked' = [asked EXCEPT ![t] = None]

\* The user submits: hass.data has the runtime from the first step of a
\* set-up to the first step of an unload.  One service-validate call for
\* each service takes its turn at the lock before configure-services does;
\* they change nothing, and waiting for them is part of waiting for the lock.
Submit(t, o) ==
    /\ setup # "unloaded"
    /\ Queue(t, o)
    /\ UNCHANGED <<entry, allowed, lock, strays, faults, history>>

\* Without a runtime the options are saved and the host is not told.
SubmitUnloaded(t, o) ==
    /\ pc[t] = "idle" /\ setup = "unloaded"
    /\ SaveOptions(o)
    /\ agreed' = FALSE
    /\ UNCHANGED <<allowed, lock, task, strays, faults, alone>>

\* A service the host does not know, or a call that fails: the form again.
NotValidated(t) ==
    /\ pc[t] = "lock" /\ asked[t].services # {}
    /\ Leave(t)
    /\ UNCHANGED <<entry, allowed, strays, faults, history>>

\* Two runtimes of one entry do not share a lock: dialogs whose host calls
\* overlap for that reason are crossed.
Crossing(t) == {u \in Dialogs : pc[u] \in {"configure", "written"} /\ runtime[u] # runtime[t]}

\* Slip: configure-services is run without serialized=True.
AcquireDialog_NoLock(t) ==
    /\ pc[t] = "lock"
    /\ lock' = [lock EXCEPT ![runtime[t]] = t]
    /\ Goto(t, "configure")
    /\ alone' = IF Crossing(t) = {} THEN alone \cup {t} ELSE alone \ Crossing(t)
    /\ UNCHANGED <<entry, allowed, strays, faults, agreed>>

AcquireDialog(t) ==
    /\ pc[t] = "lock"
    /\ Take(t)
    /\ Goto(t, "configure")
    /\ alone' = IF Crossing(t) = {} THEN alone \cup {t} ELSE alone \ Crossing(t)
    /\ UNCHANGED <<entry, allowed, strays, faults, agreed>>

\* The host's process replaces config.json.
HostConfigures(t) ==
    /\ pc[t] = "configure"
    /\ allowed' = asked[t].services
    /\ Goto(t, "written")
    /\ UNCHANGED <<entry, lock, strays, faults, history>>

\* The answer: the call releases the lock and the flow saves without
\* another await.
Answered(t) ==
    /\ pc[t] = "written"
    /\ SaveOptions(asked[t])
    /\ Leave(t)
    /\ agreed' = (t \in alone)
    /\ alone' = alone \ {t}
    /\ UNCHANGED <<allowed, strays, faults>>

Fault == faults < MaxFaults /\ faults' = faults + 1

\* The call fails or times out, before the host has written, with the
\* process still on its way, or with the answer lost.  The form comes back.
DialogFails(t) ==
    /\ pc[t] \in {"configure", "written"}
    /\ Fault
    /\ \/ strays' = strays /\ agreed' = (agreed /\ pc[t] = "configure")
       \/ /\ pc[t] = "configure"
          /\ strays' = strays \cup {asked[t].services}
          /\ UNCHANGED agreed
    /\ Leave(t)
    /\ alone' = alone \ {t}
    /\ UNCHANGED <<entry, allowed>>

\* A write that no dialog is waiting for: a process left behind by a call
\* that timed out, or the bootstrap of a reconfigure flow, which configures
\* the default options, no services, over a connection of its own (the
\* reload that ends such a flow is one of those Unload allows).
Intrude(services) ==
    /\ allowed' = services
    /\ agreed' = FALSE
    /\ alone' = {}

StrayConfigures(services) ==
    /\ services \in strays
    /\ strays' = strays \ {services}
    /\ Intrude(services)
    /\ UNCHANGED <<entry, lock, task, faults>>

Reconfigure ==
    /\ Intrude({})
    /\ UNCHANGED <<entry, lock, task, strays, faults>>

----------------------------------------------------------------------------
(* Restart buttons *)

\* A button stays until the reload takes it away; _require_dangerous looks
\* at the options of the moment.
Press(t, s) ==
    /\ s \in buttons /\ options.dangerous
    /\ Queue(t, s)
    /\ UNCHANGED <<entry, allowed, lock, strays, faults, history>>

AcquirePress(t) ==
    /\ pc[t] = "lock"
    /\ Take(t)
    /\ Goto(t, "check")
    /\ UNCHANGED <<entry, allowed, strays, faults, history>>

\* Slip: service-restart trusts that the integration only asks for
\* monitored services.
ServiceAllowed_Trusting(s) == TRUE

ServiceAllowed(s) == s \in allowed

\* The host looks the service up in config.json and then calls systemctl.
HostChecks(t) ==
    /\ pc[t] = "check"
    /\ Goto(t, IF ServiceAllowed(asked[t]) THEN "restart" ELSE "done")
    /\ UNCHANGED <<entry, allowed, lock, strays, faults, history>>

HostRestarts(t) ==
    /\ pc[t] = "restart"
    /\ Goto(t, "done")
    /\ UNCHANGED <<entry, allowed, lock, strays, faults, history>>

\* The call answers, with a result or a refusal, or fails on the way.  The
\* process of a failed call may still check and restart; it decides as here.
PressEnds(t) ==
    /\ \/ pc[t] = "done" /\ UNCHANGED faults
       \/ pc[t] \in {"check", "restart"} /\ Fault
    /\ Leave(t)
    /\ UNCHANGED <<entry, allowed, strays, history>>

----------------------------------------------------------------------------
(* Set-up, unload and reload *)

\* async_unload_entry: the buttons go, calls under way go on.
Unload ==
    /\ setup = "loaded"
    /\ setup' = "unloaded"
    /\ buttons' = {}
    /\ changed' = FALSE
    /\ UNCHANGED <<options, current, allowed, lock, task, strays, faults, history>>

\* A runtime that no call uses any more is garbage: its slot can be a new one.
FreeRuntimes == {g \in Runtimes : \A t \in Tasks : runtime[t] # g}

\* async_setup_entry up to the platforms: a new runtime with a new lock.
SetUp ==
    /\ setup = "unloaded"
    /\ setup' = "started"
    /\ FreeRuntimes # {}
    /\ current' = CHOOSE g \in FreeRuntimes : TRUE
    /\ UNCHANGED <<options, buttons, changed, allowed, lock, task, strays, faults, history>>

SetUpButtons ==
    /\ setup = "started"
    /\ setup' = "buttons"
    /\ buttons' = ButtonsFor(options)
    /\ UNCHANGED <<options, current, changed, allowed, lock, task, strays, faults, history>>

SetUpDone ==
    /\ setup = "buttons"
    /\ setup' = "loaded"
    /\ UNCHANGED <<options, current, buttons, changed, allowed, lock, task, strays, faults,
                   history>>

----------------------------------------------------------------------------
Init ==
    /\ options \in Choices
    /\ allowed = options.services
    /\ setup = "loaded"
    /\ current = CHOOSE g \in Runtimes : TRUE
    /\ buttons = ButtonsFor(options)
    /\ changed = FALSE
    /\ lock = [g \in Runtimes |-> None]
    /\ pc = [t \in Tasks |-> "idle"]
    /\ runtime = [t \in Tasks |-> None]
    /\ asked = [t \in Tasks |-> None]
    /\ strays = {}
    /\ faults = 0
    /\ agreed = TRUE
    /\ alone = {}

DialogNext(t) ==
    \/ \E o \in Choices : Submit(t, o) \/ SubmitUnloaded(t, o)
    \/ NotValidated(t) \/ AcquireDialog(t) \/ HostConfigures(t) \/ Answered(t) \/ DialogFails(t)

PressNext(t) ==
    \/ \E s \in Services : Press(t, s)
    \/ AcquirePress(t) \/ HostChecks(t) \/ HostRestarts(t) \/ PressEnds(t)

SetUpNext == SetUp \/ SetUpButtons \/ SetUpDone

Next ==
    \/ \E t \in Dialogs : DialogNext(t)
    \/ \E t \in Presses : PressNext(t)
    \/ \E services \in SUBSET Services : StrayConfigures(services)
    \/ Reconfigure
    \/ Unload
    \/ SetUpNext

Spec == Init /\ [][Next]_vars

\* A call that has the lock ends, by its answer or its timeout.
CallGoesOn(t) ==
    /\ pc[t] # "idle"
    /\ IF t \in Dialogs
       THEN AcquireDialog(t) \/ HostConfigures(t) \/ Answered(t)
       ELSE AcquirePress(t) \/ HostChecks(t) \/ HostRestarts(t) \/ PressEnds(t)

\* A reload that is due is carried out, and one begun is carried through.
Fairness ==
    /\ WF_vars(SetUpNext) /\ WF_vars(changed /\ Unload)
    /\ \A t \in Tasks : WF_vars(CallGoesOn(t))

FairSpec == Spec /\ Fairness

----------------------------------------------------------------------------
Written(t) == pc[t] = "written"

\* Host and entry name the same services from a save whose host call nothing
\* crossed until a write from elsewhere, a lost answer or a save without a
\* runtime: dialogs that overlap save in the order in which they reached the
\* host, whatever presses, failures and reloads come between.
HostAgrees ==
    agreed => allowed = options.services \/ \E t \in Dialogs : Written(t)

\* A button left over from before a save, or a press that waited for the
\* lock while it was made, restarts nothing that was taken off the options:
\* the host refuses, as long as host and entry agree.
RestartsListed ==
    [][\A t \in Presses :
          pc[t] = "check" /\ pc'[t] = "restart" /\ agreed =>
             asked[t] \in options.services \/ \E u \in Dialogs : Written(u)]_vars

\* No saved change is missed: from the moment a set-up has made the buttons
\* they are those of the options, or a reload is due that will make others,
\* whether a dialog saves before, during or after the set-up.
NoChangeMissed ==
    setup \in {"buttons", "loaded"} => changed \/ buttons = ButtonsFor(options)

\* Options once saved come into force: the buttons cannot stay different
\* from what the options say, also when the save falls into a reload.
OptionsComeIntoForce == []<>(buttons = ButtonsFor(options))
=============================================================================
