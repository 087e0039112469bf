----------------------- MODULE StatusContract_proofs -----------------------
(***************************************************************************)
(* Which hosts' answers the integration accepts, for all limits and hosts.  *)
(***************************************************************************)
EXTENDS StatusContract, FiniteSetTheorems, WellFoundedInduction, TLAPS

\* A set of positions has a first one, if it has any.
LEMMA FirstPosition ==
    ASSUME NEW S \in SUBSET Nat, S # {}
    PROVE  \E i \in S : \A j \in S : i <= j
  <1> DEFINE R == OpToRel(<, Nat)
  <1>1. \A i, j \in Nat : j < i => <<j, i>> \in R
    BY DEF OpToRel
  <1>2. IsWellFoundedOn(R, Nat)
    BY NatLessThanWellFounded, Zenon
  <1> HIDE DEF R
  <1>3. PICK i \in S : \A j \in S : ~(<<j, i>> \in R)
    BY <1>2, WFMin
  <1>4. ASSUME NEW j \in S PROVE i <= j
    <2>1. i \in Nat /\ j \in Nat /\ ~(j < i)
      BY <1>1, <1>3
    <2> QED BY <2>1
  <1> QED BY <1>4

\* Plausible readings are numbers.
LEMMA PlausibleType ==
    ASSUME NEW t \in Seq(Int \cup {Absent})
    PROVE  /\ Plausible(t) \in SUBSET Nat
           /\ \A i \in Plausible(t) : t[i] \in Int
  <1>1. DOMAIN t = 1 .. Len(t) /\ \A i \in DOMAIN t : t[i] \in Int \cup {Absent}
    OBVIOUS
  <1>2. \A i \in Plausible(t) : i \in DOMAIN t /\ t[i] # Absent
    BY DEF Plausible
  <1>3. \A i \in Plausible(t) : t[i] \in Int
    BY <1>1, <1>2
  <1>4. \A i \in Plausible(t) : i \in Nat
    BY <1>1, <1>2
  <1> QED BY <1>3, <1>4

\* The temperature in the document is that of the first plausible sensor,
\* and of no other: agent _temperature.
LEMMA TemperatureOfFirst ==
    ASSUME NEW t \in Seq(Int \cup {Absent}), NEW i \in Plausible(t),
           \A j \in Plausible(t) : i <= j
    PROVE  Temperature(t) = Millidegrees(t[i])
  <1>1. \A j \in Plausible(t) : j \in Int
    BY PlausibleType
  <1> DEFINE first == CHOOSE k \in Plausible(t) : \A j \in Plausible(t) : k <= j
  <1>2. first \in Plausible(t) /\ \A j \in Plausible(t) : first <= j
    OBVIOUS
  <1>3. first = i
    <2>1. first <= i /\ i <= first /\ first \in Int /\ i \in Int
      BY <1>1, <1>2
    <2> QED BY <2>1
  <1> QED BY <1>3 DEF Temperature

\* A plausible reading is a number, and its sign is that of its thousandths.
LEMMA PlausibleReading ==
    ASSUME NEW t \in Seq(Int \cup {Absent}), NEW i \in Plausible(t)
    PROVE  /\ Millidegrees(t[i]) \in Int
           /\ Millidegrees(t[i]) >= 0 <=> t[i] >= 0
  <1>1. t[i] \in Int
    BY PlausibleType
  <1> QED BY <1>1 DEF Millidegrees

\* parse_status takes the temperature exactly if the first plausible sensor
\* shows no frost.
LEMMA TemperatureAccepted ==
    ASSUME NEW t \in Seq(Int \cup {Absent})
    PROVE  /\ Temperature(t) \in Int \cup {Absent}
           /\ NumberAccepted(Temperature(t)) <=>
                 \A i \in Plausible(t) : (\A j \in Plausible(t) : i <= j) => t[i] >= 0
  <1>1. CASE Plausible(t) = {}
    BY <1>1 DEF Temperature, NumberAccepted
  <1>2. CASE Plausible(t) # {}
    <2>1. Plausible(t) \in SUBSET Nat
      BY PlausibleType
    <2>2. PICK i \in Plausible(t) : \A j \in Plausible(t) : i <= j
      BY <1>2, <2>1, FirstPosition
    <2>3. /\ Temperature(t) = Millidegrees(t[i])
          /\ Temperature(t) \in Int
          /\ Temperature(t) >= 0 <=> t[i] >= 0
      BY <2>2, TemperatureOfFirst, PlausibleReading
    <2>4. NumberAccepted(Temperature(t)) <=> t[i] >= 0
      BY <2>3, ContractAssumption DEF NumberAccepted
    <2>5. ASSUME NEW k \in Plausible(t), \A j \in Plausible(t) : k <= j PROVE k = i
      <3>1. k <= i /\ i <= k /\ k \in Nat /\ i \in Nat
        BY <2>1, <2>2, <2>5
      <3> QED BY <3>1
    <2> QED BY <2>2, <2>3, <2>4, <2>5
  <1> QED BY <1>1, <1>2

\* What configure-services can have written never takes the service list
\* over the limit of the integration, Tailscale included.
LEMMA ServicesWithinLimit ==
    ASSUME NEW h \in Hosts, Configured(h)
    PROVE  Cardinality(ListedServices(h)) <= MaxServices
  <1>1. h.services \in SUBSET Services
    BY DEF Hosts
  <1>2. IsFiniteSet(h.services)
    BY <1>1, FS_Subset, ContractAssumption
  <1>3. Cardinality(h.services) \in Nat
    BY <1>2, FS_CardinalityType
  <1>4. Cardinality(h.services) <= AgentServices
    BY DEF Configured
  <1>5. Cardinality(h.services \cup {Tailscale}) =
           IF Tailscale \in h.services THEN Cardinality(h.services)
                                       ELSE Cardinality(h.services) + 1
    BY <1>2, FS_AddElement
  <1>6. h.services \cup {} = h.services
    OBVIOUS
  <1> QED BY <1>3, <1>4, <1>5, <1>6, ContractAssumption DEF ListedServices

\* The lists the helper cuts at the shared limits are never refused.
LEMMA CappedWithinLimit ==
    ASSUME NEW n \in Nat, NEW limit \in Nat
    PROVE  Capped(n, limit) \in 0 .. limit
  BY DEF Capped

\* Every answer is a document, or the error in place of one.
LEMMA AnswerType ==
    ASSUME NEW h \in Hosts
    PROVE  Status(h) \in Documents /\ Answer(h) \in Documents \cup {Absent}
  <1>1. Temperature(h.temperatures) \in Int \cup {Absent}
    <2>1. h.temperatures \in Seq(Int \cup {Absent})
      BY DEF Hosts
    <2> QED BY <2>1, TemperatureAccepted
  <1>2. /\ Listed(h.mounts, h.mountFilter) \in SUBSET Mounts
        /\ Listed(h.interfaces, h.interfaceFilter) \in SUBSET Interfaces
        /\ ListedServices(h) \in SUBSET (Services \cup {Tailscale})
        /\ h.id \in MachineIds \cup {Absent}
    BY DEF Hosts, Listed, ListedServices
  <1>3. /\ Capped(h.previews, MaxPreviews) \in 0 .. MaxPreviews
        /\ Capped(h.packages, MaxNames) \in 0 .. MaxNames
        /\ Capped(h.failed, MaxNames) \in 0 .. MaxNames
    <2>1. h.previews \in Nat /\ h.packages \in Nat /\ h.failed \in Nat
      BY DEF Hosts
    <2> QED BY <2>1, CappedWithinLimit, ContractAssumption
  <1>4. Status(h) \in Documents
    BY <1>1, <1>2, <1>3 DEF Status, Documents
  <1> QED BY <1>4 DEF Answer

\* The status of a host is accepted exactly if the host is fit: of the
\* things helper and integration bound apart, only the number of file
\* systems and of interfaces, the sign of the temperature, the machine id
\* and the size of the whole can have it refused.
THEOREM AcceptedIffFit ==
    ASSUME NEW h \in Hosts, Configured(h)
    PROVE  Accepts(Answer(h)) <=> Fit(h)
  <1>1. h.temperatures \in Seq(Int \cup {Absent}) /\ h.bytes \in Nat
    BY DEF Hosts
  <1>2. CASE h.bytes > MaxBytes
    BY <1>1, <1>2, ContractAssumption DEF Answer, Accepts, Fit
  <1>3. CASE ~(h.bytes > MaxBytes)
    <2>1. Answer(h) = Status(h) /\ h.bytes <= MaxBytes
      BY <1>1, <1>3, ContractAssumption DEF Answer
    <2>2. Status(h) # Absent
      BY AnswerType, ContractAssumption
    <2>3. /\ Status(h).previews <= MaxPreviews
          /\ Status(h).packages <= MaxNames /\ Status(h).failed <= MaxNames
      <3>1. h.previews \in Nat /\ h.packages \in Nat /\ h.failed \in Nat
        BY DEF Hosts
      <3>2. /\ Capped(h.previews, MaxPreviews) \in 0 .. MaxPreviews
            /\ Capped(h.packages, MaxNames) \in 0 .. MaxNames
            /\ Capped(h.failed, MaxNames) \in 0 .. MaxNames
        BY <3>1, CappedWithinLimit, ContractAssumption
      <3>3. /\ Status(h).previews = Capped(h.previews, MaxPreviews)
            /\ Status(h).packages = Capped(h.packages, MaxNames)
            /\ Status(h).failed = Capped(h.failed, MaxNames)
        BY DEF Status
      <3> QED BY <3>2, <3>3, ContractAssumption
    <2>4. Cardinality(Status(h).services) <= MaxServices
      BY ServicesWithinLimit DEF Status
    <2>5. NumberAccepted(Status(h).temperature) <=>
             \A i \in Plausible(h.temperatures) :
                (\A j \in Plausible(h.temperatures) : i <= j) => h.temperatures[i] >= 0
      BY <1>1, TemperatureAccepted DEF Status
    <2>6. /\ Status(h).id = h.id
          /\ Status(h).filesystems = Listed(h.mounts, h.mountFilter)
          /\ Status(h).network = Listed(h.interfaces, h.interfaceFilter)
      BY DEF Status
    <2> QED BY <2>1, <2>2, <2>3, <2>4, <2>5, <2>6 DEF Accepts, MaintenanceAccepted, Fit
  <1> QED BY <1>2, <1>3
=============================================================================
