-------------------------- MODULE StatusContract --------------------------
(***************************************************************************)
(* The status document, from the readings the helper makes on the host to   *)
(* the document the integration accepts or refuses.  Helper and integration *)
(* bound it separately: what one may send, the other need not take.         *)
(***************************************************************************)
EXTENDS Integers, Sequences, FiniteSets

CONSTANTS
    MachineIds,         \* the well-formed machine ids
    Mounts, Interfaces, \* names, the loopback interface not among them
    Services, Tailscale,
    MaxFilesystems, MaxInterfaces, MaxServices, \* the integration's limits
    AgentServices,      \* how many services configure-services takes
    MaxPreviews, MaxNames,  \* limits helper and integration share
    MaxBytes,           \* the size of an answer, likewise
    Absent              \* no reading, no document

Filter(S) == [include : SUBSET S, exclude : SUBSET S]

\* What the helper finds when it is asked for a status.
Hosts == [
    id : MachineIds \cup {Absent},          \* Absent: missing or malformed
    temperatures : Seq(Int \cup {Absent}),  \* what the sensor files say
    mounts : SUBSET Mounts,                 \* real and readable
    interfaces : SUBSET Interfaces,
    services : SUBSET Services, tailscale : BOOLEAN,
    mountFilter : Filter(Mounts), interfaceFilter : Filter(Interfaces),
    previews : Nat, packages : Nat, failed : Nat,   \* retained results
    bytes : Nat]                            \* the size of the encoded answer

\* The helper's status documents, without the fields nothing depends on.
Documents == [
    id : MachineIds \cup {Absent},
    temperature : Int \cup {Absent},
    filesystems : SUBSET Mounts,
    network : SUBSET Interfaces,
    services : SUBSET (Services \cup {Tailscale}),
    previews : 0 .. MaxPreviews,
    packages : 0 .. MaxNames, failed : 0 .. MaxNames]

ASSUME ContractAssumption ==
    /\ Absent \notin MachineIds \cup Int \cup Documents
    /\ IsFiniteSet(Services)
    /\ MaxFilesystems \in Nat /\ MaxInterfaces \in Nat /\ MaxServices \in Nat
    /\ AgentServices \in Nat /\ AgentServices < MaxServices
    /\ MaxPreviews \in Nat /\ MaxNames \in Nat /\ MaxBytes \in Nat

----------------------------------------------------------------------------
(* The helper *)

\* A reading above 200 is in thousandths of a degree.
Millidegrees(reading) == IF reading > 200 THEN reading ELSE 1000 * reading

InRange(millidegrees) == -50000 <= millidegrees /\ millidegrees <= 150000

Plausible(temperatures) ==
    {i \in DOMAIN temperatures :
        temperatures[i] # Absent /\ InRange(Millidegrees(temperatures[i]))}

\* The first sensor with a plausible reading is the host's temperature.
Temperature(temperatures) ==
    LET plausible == Plausible(temperatures)
        first == CHOOSE i \in plausible : \A j \in plausible : i <= j
    IN  IF plausible = {} THEN Absent ELSE Millidegrees(temperatures[first])

Listed(names, filter) ==
    {n \in names \ filter.exclude : filter.include = {} \/ n \in filter.include}

\* Monitored services, and Tailscale if systemd knows it.
ListedServices(h) == h.services \cup (IF h.tailscale THEN {Tailscale} ELSE {})

\* Slip: the helper sends what it has retained in full.
Capped_Not(n, limit) == n

Capped(n, limit) == IF n > limit THEN limit ELSE n

\* The document of the status operation.
Status(h) == [
    id |-> h.id,
    temperature |-> Temperature(h.temperatures),
    filesystems |-> Listed(h.mounts, h.mountFilter),
    network |-> Listed(h.interfaces, h.interfaceFilter),
    services |-> ListedServices(h),
    previews |-> Capped(h.previews, MaxPreviews),
    packages |-> Capped(h.packages, MaxNames),
    failed |-> Capped(h.failed, MaxNames)]

\* _emit puts an error in the place of an answer that is too large, and
\* exits with success all the same.  The SSH layer cuts an answer at the
\* same size, which takes at most the newline off one that was sent.
Answer(h) == IF h.bytes > MaxBytes THEN Absent ELSE Status(h)

----------------------------------------------------------------------------
(* The integration *)

\* _number: a number must not be negative.
NumberAccepted(n) == n # Absent => n >= 0

\* _parse_maintenance: the retained results.
MaintenanceAccepted(doc) ==
    doc.previews <= MaxPreviews /\ doc.packages <= MaxNames /\ doc.failed <= MaxNames

\* parse_json_response and parse_status, without the fields that the helper
\* always fills in the right form.
Accepts(doc) ==
    /\ doc # Absent                 \* an error document has no machine
    /\ doc.id # Absent
    /\ NumberAccepted(doc.temperature)
    /\ Cardinality(doc.filesystems) <= MaxFilesystems
    /\ Cardinality(doc.network) <= MaxInterfaces
    /\ Cardinality(doc.services) <= MaxServices
    /\ MaintenanceAccepted(doc)

----------------------------------------------------------------------------
\* Configurations that configure-services can have written.
Configured(h) == Cardinality(h.services) <= AgentServices

\* The hosts whose status reaches Home Assistant: a machine id, no frost on
\* the first sensor, and not too much of anything the helper does not bound.
Fit(h) ==
    /\ h.id # Absent
    /\ \A i \in Plausible(h.temperatures) :
          (\A j \in Plausible(h.temperatures) : i <= j) => h.temperatures[i] >= 0
    /\ Cardinality(Listed(h.mounts, h.mountFilter)) <= MaxFilesystems
    /\ Cardinality(Listed(h.interfaces, h.interfaceFilter)) <= MaxInterfaces
    /\ h.bytes <= MaxBytes
=============================================================================
