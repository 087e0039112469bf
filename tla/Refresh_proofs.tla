-------------------------- MODULE Refresh_proofs --------------------------
(***************************************************************************)
(* Type correctness of Refresh, its two invariants and the distance of      *)
(* package checks, for all hosts, items, cadences and bounds.               *)
(***************************************************************************)
EXTENDS Refresh, StatusContract_proofs

\* Every item met has a sensor under its slug, and what is shown was met.
ItemsInv ==
    /\ \A m \in known : \E n \in shown : Slug(n) = Slug(m)
    /\ data # Absent => Met(data) \subseteq known

\* What is checked for was accepted.
AnswerInv == \A t \in Refreshes : pc[t] = "checking" => answer[t] # Absent

\* One refresh runs under the lock, so of two that run one is the first.
OrderInv ==
    /\ \A t, u \in Requests : Running(t) /\ Running(u) => t = u
    /\ \A p \in later : p[1] # p[2] /\ Running(p[1]) /\ Running(p[2])
    /\ NoStepBack

\* The attempt on record is no older than the last automatic check.
AgeInv == automatic # Absent => attempt # Absent /\ attempt <= automatic

IInv == TypeOK /\ ItemsInv /\ AnswerInv /\ OrderInv /\ AgeInv

----------------------------------------------------------------------------
LEMMA InitIInv == Init => IInv
  <1> SUFFICES ASSUME Init PROVE IInv
    OBVIOUS
  <1>1. TypeOK
    <2>1. Absent \in Age /\ 0 \in 0 .. MaxEvents
      BY RefreshAssumption DEF Age
    <2> QED BY <2>1 DEF Init, TypeOK, AtSetUp
  <1>2. ItemsInv /\ AgeInv
    BY DEF Init, ItemsInv, AgeInv
  <1>3. AnswerInv
    BY DEF Init, AnswerInv, AtSetUp
  <1>4. OrderInv
    <2>1. \A t \in Requests : ~Running(t)
      BY RefreshAssumption DEF Init, AtSetUp, Running, Refreshes
    <2> QED BY <2>1 DEF Init, OrderInv, NoStepBack
  <1> QED BY <1>1, <1>2, <1>3, <1>4 DEF IInv

\* Sensors are added for all that turns up, and none goes.
LEMMA SensorsAdded ==
    ASSUME TypeOK, ItemsInv, NEW doc \in Documents, AddDynamic(doc)
    PROVE  /\ known' \in SUBSET Items /\ shown' \in SUBSET known'
           /\ Met(doc) \subseteq known'
           /\ \A m \in known' : \E n \in shown' : Slug(n) = Slug(m)
  <1>1. Met(doc) \subseteq Items
    BY DEF Met, Documents, Items
  <1>2. known' = known \cup Met(doc)
    BY DEF AddDynamic
  <1>3. PICK added \in SUBSET (Met(doc) \ known) :
           /\ \A m \in Met(doc) \ known : \E n \in shown \cup added : Slug(n) = Slug(m)
           /\ shown' = shown \cup added
    BY DEF AddDynamic
  <1> QED BY <1>1, <1>2, <1>3 DEF TypeOK, ItemsInv

\* What ends leaves the order of the others as it was.
LEMMA EndKeepsOrder ==
    ASSUME TypeOK, OrderInv, NEW t \in Refreshes,
           pc' = [pc EXCEPT ![t] = "idle"],
           later' = later \ Involving(t),
           \A p \in overtaken' : p \in overtaken \/ (p \in later /\ p[2] = t)
    PROVE  OrderInv'
  <1>1. \A u \in Refreshes : Running(u)' <=> Running(u) /\ u # t
    BY DEF Running, TypeOK
  <1>2. \A u, v \in Requests : Running(u)' /\ Running(v)' => u = v
    BY <1>1 DEF OrderInv, Refreshes
  <1>3. \A p \in later : p \in Refreshes \X Refreshes
    BY DEF TypeOK
  <1>4. \A p \in later' : p[1] # p[2] /\ Running(p[1])' /\ Running(p[2])'
    <2> SUFFICES ASSUME NEW p \in later'
                 PROVE  p[1] # p[2] /\ Running(p[1])' /\ Running(p[2])'
      OBVIOUS
    <2>1. p \in later /\ p \in Refreshes \X Refreshes /\ p \notin Involving(t)
      BY <1>3
    <2>2. p[1] \in Refreshes /\ p[2] \in Refreshes /\ p[1] # t /\ p[2] # t
      BY <2>1 DEF Involving
    <2> QED BY <1>1, <2>1, <2>2 DEF OrderInv
  <1>5. \A p \in later : First \in {p[1], p[2]}
    <2> SUFFICES ASSUME NEW p \in later, First # p[1], First # p[2] PROVE FALSE
      OBVIOUS
    <2>1. p[1] \in Requests /\ p[2] \in Requests
      BY <1>3 DEF Refreshes
    <2> QED BY <2>1 DEF OrderInv
  <1>6. NoStepBack'
    BY <1>5 DEF OrderInv, NoStepBack
  <1> QED BY <1>2, <1>4, <1>6 DEF OrderInv

\* The types of a refresh that ends.
LEMMA EndTypes ==
    ASSUME TypeOK, NEW t \in Refreshes, End(t)
    PROVE  /\ pc' \in [Refreshes -> {"due", "idle", "asking", "answered", "checking"}]
           /\ pc' = [pc EXCEPT ![t] = "idle"]
           /\ answer' \in [Refreshes -> Documents \cup {Absent}]
           /\ timer' = TRUE
           /\ AnswerInv => AnswerInv'
  <1>1. answer' = [answer EXCEPT ![t] = Absent] /\ pc' = [pc EXCEPT ![t] = "idle"] /\ timer' = TRUE
    BY DEF End
  <1>2. AnswerInv => AnswerInv'
    BY <1>1 DEF AnswerInv, TypeOK
  <1> QED BY <1>1, <1>2 DEF TypeOK

LEMMA PublishKeeps ==
    ASSUME IInv, NEW t \in Refreshes, answer[t] # Absent, Publish(t),
           UNCHANGED <<host, events, automatic>>, attempt' \in Age
    PROVE  TypeOK' /\ ItemsInv' /\ AnswerInv' /\ OrderInv'
  <1>1. answer[t] \in Documents /\ data' = answer[t] /\ success' = TRUE
    BY DEF IInv, TypeOK, Publish
  <1>2. /\ known' \in SUBSET Items /\ shown' \in SUBSET known'
        /\ Met(data') \subseteq known'
        /\ \A m \in known' : \E n \in shown' : Slug(n) = Slug(m)
    BY <1>1, SensorsAdded DEF IInv, Publish
  <1>3. ItemsInv'
    BY <1>2 DEF ItemsInv, Met
  <1>4. /\ later' = later \ Involving(t)
        /\ overtaken' = {p \in overtaken : p[1] # t} \cup {p \in later : p[2] = t}
    BY DEF Publish
  <1>5. OrderInv'
    BY <1>4, EndTypes, EndKeepsOrder DEF IInv, Publish
  <1>6. TypeOK' /\ AnswerInv'
    BY <1>1, <1>2, <1>4, EndTypes DEF IInv, TypeOK, Publish
  <1> QED BY <1>3, <1>5, <1>6

LEMMA FailKeeps ==
    ASSUME IInv, NEW t \in Refreshes, Fail(t), UNCHANGED host, events' \in 0 .. MaxEvents
    PROVE  IInv'
  <1>1. /\ later' = later \ Involving(t)
        /\ overtaken' = {p \in overtaken : p[1] # t}
        /\ success' = FALSE
        /\ UNCHANGED <<data, attempt, known, shown, automatic>>
    BY DEF Fail, entities
  <1>2. OrderInv'
    BY <1>1, EndTypes, EndKeepsOrder DEF IInv, Fail
  <1>3. TypeOK' /\ AnswerInv'
    BY <1>1, EndTypes DEF IInv, TypeOK, Fail
  <1>4. ItemsInv' /\ AgeInv'
    BY <1>1 DEF IInv, ItemsInv, AgeInv, Met
  <1> QED BY <1>2, <1>3, <1>4 DEF IInv

\* Steps of pc that neither start nor end a refresh, and leave the order.
LEMMA StepKeepsOrder ==
    ASSUME TypeOK, OrderInv, \A u \in Refreshes : Running(u)' <=> Running(u),
           UNCHANGED <<later, overtaken>>
    PROVE  OrderInv'
  <1>1. \A p \in later : p[1] \in Refreshes /\ p[2] \in Refreshes
    BY DEF TypeOK
  <1> QED BY <1>1 DEF OrderInv, NoStepBack, Refreshes

LEMMA BeginKeeps ==
    ASSUME IInv, NEW t \in Refreshes, Begin(t), ~Running(t),
           t \in Requests => LockFree
    PROVE  IInv'
  <1>1. /\ pc' = [pc EXCEPT ![t] = "asking"] /\ timer' = FALSE
        /\ UNCHANGED <<host, data, success, answer, attempt, known, shown, events,
                       automatic, later, overtaken>>
    BY DEF Begin, entities, history
  <1>2. \A u \in Refreshes : Running(u)' <=> Running(u) \/ u = t
    BY <1>1 DEF Running, IInv, TypeOK
  <1>3. OrderInv'
    <2>1. \A u, v \in Requests : Running(u)' /\ Running(v)' => u = v
      BY <1>2 DEF IInv, OrderInv, LockFree, Refreshes
    <2>2. \A p \in later : p[1] \in Refreshes /\ p[2] \in Refreshes
      BY DEF IInv, TypeOK
    <2> QED BY <1>1, <1>2, <2>1, <2>2 DEF IInv, OrderInv, NoStepBack
  <1>4. TypeOK'
    BY <1>1 DEF IInv, TypeOK
  <1>5. AnswerInv'
    BY <1>1 DEF IInv, AnswerInv, TypeOK
  <1>6. ItemsInv' /\ AgeInv'
    BY <1>1 DEF IInv, ItemsInv, AgeInv, Met
  <1> QED BY <1>3, <1>4, <1>5, <1>6 DEF IInv

----------------------------------------------------------------------------
LEMMA StepIInv == IInv /\ [Next]_vars => IInv'
  <1> SUFFICES ASSUME IInv, [Next]_vars PROVE IInv'
    OBVIOUS
  <1>1. CASE StartFirst
    <2>1. First \in Refreshes /\ First \notin Requests /\ ~Running(First)
      BY <1>1, RefreshAssumption DEF StartFirst, Running, Refreshes
    <2> QED BY <1>1, <2>1, BeginKeeps DEF StartFirst
  <1>2. ASSUME NEW t \in Requests, Request(t) PROVE IInv'
    <2>1. t \in Refreshes /\ ~Running(t)
      BY <1>2 DEF Request, Running, Refreshes
    <2> QED BY <1>2, <2>1, BeginKeeps DEF Request
  <1>3. ASSUME NEW t \in Refreshes, HostAnswers(t) PROVE IInv'
    <2>1. /\ pc[t] = "asking" /\ pc' = [pc EXCEPT ![t] = "answered"]
          /\ answer' = [answer EXCEPT ![t] = Answer(host)]
          /\ UNCHANGED <<host, data, success, timer, attempt, known, shown, events,
                         automatic, overtaken>>
      BY <1>3 DEF HostAnswers, coordinator, entities
    <2> DEFINE new == {<<u, t>> : u \in {v \in Refreshes \ {t} : pc[v] \in {"answered", "checking"}}}
    <2>2. later' = later \cup new
      BY <1>3 DEF HostAnswers
    <2>3. \A p \in new : p \in Refreshes \X Refreshes /\ p[1] # p[2] /\ Running(p[1]) /\ p[2] = t
      BY DEF Running
    <2>4. \A u \in Refreshes : Running(u)' <=> Running(u)
      BY <2>1 DEF Running, IInv, TypeOK
    <2>5. Running(t)
      BY <2>1 DEF Running
    <2> HIDE DEF new
    <2>6. OrderInv'
      <3>1. \A p \in later \cup new :
               p \in Refreshes \X Refreshes /\ p[1] # p[2] /\ Running(p[1]) /\ Running(p[2])
        BY <2>3, <2>5 DEF IInv, TypeOK, OrderInv
      <3>2. \A p \in later' : p[1] # p[2] /\ Running(p[1])' /\ Running(p[2])'
        BY <2>2, <2>4, <3>1
      <3>3. \A u, v \in Requests : Running(u)' /\ Running(v)' => u = v
        BY <2>4 DEF IInv, OrderInv, Refreshes
      <3> QED BY <2>1, <3>2, <3>3 DEF IInv, OrderInv, NoStepBack
    <2>7. TypeOK'
      <3>1. Answer(host) \in Documents \cup {Absent}
        BY AnswerType, RefreshAssumption DEF IInv, TypeOK
      <3>2. later' \in SUBSET (Refreshes \X Refreshes)
        BY <2>2, <2>3 DEF IInv, TypeOK
      <3> QED BY <2>1, <3>1, <3>2 DEF IInv, TypeOK
    <2>8. AnswerInv'
      BY <2>1 DEF IInv, AnswerInv, TypeOK
    <2>9. ItemsInv' /\ AgeInv'
      BY <2>1 DEF IInv, ItemsInv, AgeInv, Met
    <2> QED BY <2>6, <2>7, <2>8, <2>9 DEF IInv
  <1>4. ASSUME NEW t \in Refreshes, Refused(t) PROVE IInv'
    <2>1. events' \in 0 .. MaxEvents
      BY <1>4 DEF Refused, IInv, TypeOK
    <2> QED BY <1>4, <2>1, FailKeeps DEF Refused
  <1>5. ASSUME NEW t \in Refreshes, ReceivedNoCheck(t) PROVE IInv'
    <2>1. answer[t] # Absent
      BY <1>5 DEF ReceivedNoCheck, Acceptable, Accepts
    <2>2. attempt' \in Age
      BY <1>5 DEF ReceivedNoCheck, IInv, TypeOK
    <2>3. TypeOK' /\ ItemsInv' /\ AnswerInv' /\ OrderInv'
      BY <1>5, <2>1, <2>2, PublishKeeps DEF ReceivedNoCheck
    <2>4. AgeInv'
      BY <1>5 DEF ReceivedNoCheck, IInv, AgeInv
    <2> QED BY <2>3, <2>4 DEF IInv
  <1>6. ASSUME NEW t \in Refreshes, ReceivedCheckDue(t) PROVE IInv'
    <2>1. /\ pc[t] = "answered" /\ answer[t] # Absent
          /\ pc' = [pc EXCEPT ![t] = "checking"]
          /\ attempt' = 0 /\ automatic' = 0
          /\ UNCHANGED <<host, data, success, timer, answer, known, shown, events, later,
                         overtaken>>
      BY <1>6 DEF ReceivedCheckDue, Acceptable, Accepts, coordinator, entities
    <2>2. \A u \in Refreshes : Running(u)' <=> Running(u)
      BY <2>1 DEF Running, IInv, TypeOK
    <2>3. OrderInv'
      BY <2>1, <2>2, StepKeepsOrder DEF IInv
    <2>4. TypeOK'
      <3>1. 0 \in Age
        BY RefreshAssumption DEF Age
      <3> QED BY <2>1, <3>1 DEF IInv, TypeOK
    <2>5. AnswerInv'
      BY <2>1 DEF IInv, AnswerInv, TypeOK
    <2>6. ItemsInv'
      BY <2>1 DEF IInv, ItemsInv, Met
    <2>7. AgeInv'
      BY <2>1, ContractAssumption DEF AgeInv
    <2> QED BY <2>3, <2>4, <2>5, <2>6, <2>7 DEF IInv
  <1>7. ASSUME NEW t \in Refreshes, CheckEnds(t) PROVE IInv'
    <2>1. answer[t] # Absent
      BY <1>7 DEF CheckEnds, IInv, AnswerInv
    <2>2. attempt' \in Age
      BY <1>7, RefreshAssumption DEF CheckEnds, IInv, TypeOK, Age
    <2>3. TypeOK' /\ ItemsInv' /\ AnswerInv' /\ OrderInv'
      BY <1>7, <2>1, <2>2, PublishKeeps DEF CheckEnds
    <2>4. AgeInv'
      <3>1. attempt' \in {0, attempt} /\ automatic' = automatic /\ automatic \in Age
        BY <1>7 DEF CheckEnds, IInv, TypeOK
      <3> QED BY <3>1, RefreshAssumption, ContractAssumption DEF IInv, AgeInv, Age
    <2> QED BY <2>3, <2>4 DEF IInv
  <1>8. ASSUME NEW t \in Refreshes, CallLost(t) PROVE IInv'
    <2>1. events' \in 0 .. MaxEvents
      BY <1>8, RefreshAssumption DEF CallLost, Event, IInv, TypeOK
    <2> QED BY <1>8, <2>1, FailKeeps DEF CallLost
  <1>9. CASE ManualCheck \/ Tick
    <2>1. /\ UNCHANGED <<host, data, success, timer, pc, answer, known, shown, events,
                         later, overtaken>>
          /\ \/ attempt' = 0 /\ automatic' = automatic
             \/ attempt' = Older(attempt) /\ automatic' = Older(automatic)
      BY <1>9 DEF ManualCheck, Tick, coordinator, entities, history
    <2>2. OrderInv'
      BY <2>1, StepKeepsOrder DEF IInv, Running
    <2>3. AnswerInv' /\ ItemsInv'
      BY <2>1 DEF IInv, AnswerInv, ItemsInv, Met
    <2>4. 0 \in Age /\ \A a \in Age : Older(a) \in Age
      BY RefreshAssumption, ContractAssumption DEF Age, Older
    <2>5. attempt' \in Age /\ automatic' \in Age
      BY <2>1, <2>4 DEF IInv, TypeOK
    <2>6. TypeOK'
      BY <2>1, <2>5 DEF IInv, TypeOK
    <2>7. AgeInv'
      BY <2>1, RefreshAssumption, ContractAssumption DEF IInv, TypeOK, AgeInv, Age, Older
    <2> QED BY <2>2, <2>3, <2>6, <2>7 DEF IInv
  <1>10. CASE HostChanges
    <2>1. /\ host' \in Candidates /\ events' \in 0 .. MaxEvents
          /\ UNCHANGED <<data, success, timer, pc, answer, attempt, known, shown, automatic,
                         later, overtaken>>
      BY <1>10, RefreshAssumption
         DEF HostChanges, Event, coordinator, entities, history, IInv, TypeOK
    <2>2. OrderInv'
      BY <2>1, StepKeepsOrder DEF IInv, Running
    <2>3. AnswerInv' /\ ItemsInv' /\ AgeInv'
      BY <2>1 DEF IInv, AnswerInv, ItemsInv, AgeInv, Met
    <2>4. TypeOK'
      BY <2>1 DEF IInv, TypeOK
    <2> QED BY <2>2, <2>3, <2>4 DEF IInv
  <1>11. CASE Reload
    <2>1. events' \in 0 .. MaxEvents
      BY <1>11, RefreshAssumption DEF Reload, Event, IInv, TypeOK
    <2>2. TypeOK'
      BY <1>11, <2>1 DEF Reload, AtSetUp, Age, IInv, TypeOK
    <2>3. AnswerInv' /\ ItemsInv' /\ AgeInv'
      BY <1>11 DEF Reload, AtSetUp, AnswerInv, ItemsInv, AgeInv
    <2>4. OrderInv'
      <3>1. \A t \in Requests : ~Running(t)'
        BY <1>11, RefreshAssumption DEF Reload, AtSetUp, Running, Refreshes
      <3> QED BY <1>11, <3>1 DEF Reload, OrderInv, NoStepBack
    <2> QED BY <2>2, <2>3, <2>4 DEF IInv
  <1>12. CASE UNCHANGED vars
    <2>1. UNCHANGED <<host, data, success, timer, pc, answer, attempt, known, shown, events,
                      automatic, later, overtaken>>
      BY <1>12 DEF vars, coordinator, entities, history
    <2>2. OrderInv'
      BY <2>1, StepKeepsOrder DEF IInv, Running
    <2>3. AnswerInv' /\ ItemsInv' /\ AgeInv' /\ TypeOK'
      BY <2>1 DEF IInv, AnswerInv, ItemsInv, AgeInv, TypeOK, Met
    <2> QED BY <2>2, <2>3 DEF IInv
  <1> QED
    BY <1>1, <1>2, <1>3, <1>4, <1>5, <1>6, <1>7, <1>8, <1>9, <1>10, <1>11, <1>12
       DEF Next, GoesOn

\* The invariant the theorems below are read off.
THEOREM Invariance == Spec => []IInv
  <1> QED BY InitIInv, StepIInv, PTL DEF Spec

\* Every variable keeps its type.
THEOREM TypeCorrect == Spec => []TypeOK
  <1>1. IInv => TypeOK
    BY DEF IInv
  <1> QED BY <1>1, Invariance, PTL

\* No mount and no interface of the data shown is without a sensor for its
\* slug: sensor.add_dynamic.
THEOREM ItemsCorrect == Spec => []EveryItemShown
  <1>1. IInv => EveryItemShown
    BY DEF IInv, ItemsInv, EveryItemShown
  <1> QED BY <1>1, Invariance, PTL

\* The coordinator's lock keeps the data shown from stepping back: only the
\* refresh that set-up starts past it can overtake or be overtaken.
THEOREM OrderCorrect == Spec => []NoStepBack
  <1>1. IInv => NoStepBack
    BY DEF IInv, OrderInv
  <1> QED BY <1>1, Invariance, PTL

\* A runtime's automatic package checks keep their cadence, whatever the
\* refreshes that overlap: runtime async_check_updates_if_due.
THEOREM ChecksCorrect == Spec => ChecksApart
  <1>1. IInv /\ [Next]_vars =>
           [\A t \in Refreshes :
               pc[t] = "answered" /\ pc'[t] = "checking" =>
                  automatic = Absent \/ automatic >= Cadence]_vars
    <2> SUFFICES ASSUME IInv, [Next]_vars, NEW t \in Refreshes,
                        pc[t] = "answered", pc'[t] = "checking", automatic # Absent
                 PROVE  automatic >= Cadence
      OBVIOUS
    <2>1. ~UNCHANGED pc
      OBVIOUS
    <2>2. \A u \in Refreshes : ~Begin(u) /\ ~End(u)
      BY DEF Begin, End, IInv, TypeOK
    <2>3. \A u \in Refreshes : ~HostAnswers(u)
      BY DEF HostAnswers, IInv, TypeOK
    <2>4. ~Reload
      BY DEF Reload, AtSetUp
    <2>5. PICK u \in Refreshes : ReceivedCheckDue(u)
      BY <2>1, <2>2, <2>3, <2>4
         DEF Next, GoesOn, StartFirst, Request, Refused, ReceivedNoCheck, CheckEnds, CallLost,
             Publish, Fail, ManualCheck, Tick, HostChanges, vars, Refreshes
    <2>6. ~(attempt # Absent /\ attempt < Cadence)
      BY <2>5 DEF ReceivedCheckDue, CheckDue
    <2>7. attempt # Absent /\ attempt <= automatic
      BY DEF IInv, AgeInv
    <2>8. attempt \in 0 .. Cadence /\ automatic \in 0 .. Cadence
      BY <2>7 DEF IInv, TypeOK, Age
    <2> QED BY <2>6, <2>7, <2>8, RefreshAssumption
  <1> QED BY <1>1, Invariance, PTL DEF Spec, ChecksApart

----------------------------------------------------------------------------
(* What is shown *)

\* An answer is some host's answer; where a check is awaited, it was accepted.
SourceInv ==
    /\ ShownIsFit
    /\ \A t \in Refreshes :
          /\ answer[t] # Absent => \E h \in Candidates : answer[t] = Answer(h)
          /\ pc[t] = "checking" => OfFitHost(answer[t])

\* What async_status lets through comes from a fit host that is the machine.
LEMMA AcceptableIsFit ==
    ASSUME IInv, SourceInv, NEW t \in Refreshes, Acceptable(t)
    PROVE  OfFitHost(answer[t])
  <1>1. PICK h \in Candidates : answer[t] = Answer(h)
    BY DEF SourceInv, Acceptable, Accepts
  <1>2. Fit(h)
    BY <1>1, AcceptedIffFit, RefreshAssumption DEF Acceptable
  <1>3. h.id = Machine
    BY <1>1 DEF Acceptable, Accepts, Answer, Status
  <1> QED BY <1>1, <1>2, <1>3 DEF OfFitHost

LEMMA PublishShows ==
    ASSUME IInv, SourceInv, NEW t \in Refreshes, OfFitHost(answer[t]), Publish(t)
    PROVE  SourceInv'
  <1>1. data' = answer[t]
    BY DEF Publish
  <1>2. pc' = [pc EXCEPT ![t] = "idle"] /\ answer' = [answer EXCEPT ![t] = Absent]
    BY DEF Publish, End
  <1>3. OfFitHost(data')
    BY <1>1
  <1>4. ShownIsFit'
    BY <1>3 DEF ShownIsFit, OfFitHost
  <1> QED BY <1>2, <1>4 DEF SourceInv, OfFitHost, IInv, TypeOK

LEMMA FailShows ==
    ASSUME IInv, SourceInv, NEW t \in Refreshes, Fail(t)
    PROVE  SourceInv'
  BY DEF Fail, End, SourceInv, ShownIsFit, OfFitHost, IInv, TypeOK

LEMMA StepSource == IInv /\ SourceInv /\ [Next]_vars => SourceInv'
  <1> SUFFICES ASSUME IInv, SourceInv, [Next]_vars PROVE SourceInv'
    OBVIOUS
  <1>1. ASSUME NEW t \in Refreshes, Begin(t) PROVE SourceInv'
    BY <1>1 DEF Begin, SourceInv, ShownIsFit, OfFitHost, IInv, TypeOK
  <1>2. ASSUME NEW t \in Refreshes, HostAnswers(t) PROVE SourceInv'
    BY <1>2 DEF HostAnswers, coordinator, SourceInv, ShownIsFit, OfFitHost, IInv, TypeOK
  <1>3. ASSUME NEW t \in Refreshes, Refused(t) \/ CallLost(t) PROVE SourceInv'
    BY <1>3, FailShows DEF Refused, CallLost
  <1>4. ASSUME NEW t \in Refreshes, ReceivedNoCheck(t) PROVE SourceInv'
    BY <1>4, AcceptableIsFit, PublishShows DEF ReceivedNoCheck
  <1>5. ASSUME NEW t \in Refreshes, ReceivedCheckDue(t) PROVE SourceInv'
    <2>1. OfFitHost(answer[t])
      BY <1>5, AcceptableIsFit DEF ReceivedCheckDue
    <2> QED BY <1>5, <2>1
            DEF ReceivedCheckDue, coordinator, SourceInv, ShownIsFit, OfFitHost, IInv, TypeOK
  <1>6. ASSUME NEW t \in Refreshes, CheckEnds(t) PROVE SourceInv'
    BY <1>6, PublishShows DEF CheckEnds, SourceInv
  <1>7. CASE Reload
    BY <1>7 DEF Reload, AtSetUp, SourceInv, ShownIsFit
  <1>8. CASE UNCHANGED <<data, pc, answer>>
    BY <1>8 DEF SourceInv, ShownIsFit, OfFitHost
  <1> QED
    BY <1>1, <1>2, <1>3, <1>4, <1>5, <1>6, <1>7, <1>8
       DEF Next, GoesOn, StartFirst, Request, ManualCheck, Tick, HostChanges, vars,
           coordinator, Refreshes

\* The data shown are a fit host's that is the entry's machine: the contract,
\* the comparison of machine ids and the awaits between them, together.
THEOREM ShownCorrect == Spec => []ShownIsFit
  <1>1. Init => SourceInv
    BY DEF Init, AtSetUp, SourceInv, ShownIsFit
  <1>2. SourceInv => ShownIsFit
    BY DEF SourceInv
  <1> QED BY <1>1, <1>2, StepSource, Invariance, PTL DEF Spec
=============================================================================
