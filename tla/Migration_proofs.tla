-------------------------- MODULE Migration_proofs --------------------------
(* Theorems about Migration, for any number of refreshes, faults, reloads.  *)
EXTENDS Migration, TLAPS

USE ConstantsAssumption DEF ConstantsAssumption

LEMMA InitTyped == Init => TypeOK
  <1> SUFFICES ASSUME Init PROVE TypeOK
    OBVIOUS
  <1>1. {agent, ctl, policy} \subseteq Versions
    BY DEF Init, Versions
  <1>2. 0 \in Runtimes /\ 0 \in Versions /\ 0 \in 0 .. MaxFaults
    BY DEF Runtimes, Versions
  <1>3. reported \in [Refreshes -> [agent : Versions, policy : Versions]]
    BY <1>2 DEF Init
  <1> QED BY <1>1, <1>2, <1>3 DEF Init, TypeOK, Categories

LEMMA FaultTyped == TypeOK /\ Fault => faults' \in 0 .. MaxFaults
  BY DEF TypeOK, Fault

LEMMA EndTyped ==
  ASSUME TypeOK, NEW r \in Refreshes,
         NEW c \in Categories,
         Succeed(r) \/ Unavailable(r, c)
  PROVE  /\ pc' \in [Refreshes -> {"idle", "status", "check", "material", "stage1", "stage2", "verify"}]
         /\ category' \in Categories
         /\ issues' \in SUBSET {"helper", "fingerprint"}
  BY DEF TypeOK, Succeed, Unavailable, Categories

LEMMA DecideTyped ==
  ASSUME TypeOK, NEW r \in Refreshes, NEW v, Decide(r, v)
  PROVE  /\ pc' \in [Refreshes -> {"idle", "status", "check", "material", "stage1", "stage2", "verify"}]
         /\ category' \in Categories
         /\ issues' \in SUBSET {"helper", "fingerprint"}
         /\ attempted' \in [Runtimes -> BOOLEAN]
  <1>1. CASE Succeed(r) \/ Unavailable(r, "helper_incompatible")
    BY <1>1, EndTyped DEF Decide, TypeOK, Categories
  <1>2. CASE /\ attempted' = [attempted EXCEPT ![runtime[r]] = TRUE]
             /\ pc' = [pc EXCEPT ![r] = "material"]
             /\ UNCHANGED <<issues, category>>
    BY <1>2 DEF TypeOK
  <1> QED BY <1>1, <1>2 DEF Decide

LEMMA StepTyped == TypeOK /\ [Next]_vars => TypeOK'
  <1> SUFFICES ASSUME TypeOK, [Next]_vars PROVE TypeOK'
    OBVIOUS
  <1>1. ASSUME NEW r \in Refreshes, Begin(r) PROVE TypeOK'
    BY <1>1 DEF TypeOK, Begin, host
  <1>2. ASSUME NEW r \in Refreshes, Status(r) PROVE TypeOK'
    <2>1. reported' \in [Refreshes -> [agent : Versions, policy : Versions]]
      BY <1>2 DEF TypeOK, Status
    <2>2. CASE pc' = [pc EXCEPT ![r] = "check"] /\ UNCHANGED <<attempted, issues, category>>
      BY <1>2, <2>1, <2>2 DEF TypeOK, Status, host, entry
    <2>3. CASE Decide(r, [agent |-> agent, policy |-> policy])
      BY <1>2, <2>1, <2>3, DecideTyped DEF TypeOK, Status, host, entry
    <2> QED BY <1>2, <2>2, <2>3 DEF Status
  <1>3. ASSUME NEW r \in Refreshes, StatusFails(r) PROVE TypeOK'
    <2>1. PICK c \in {"cannot_connect", "refused", "fingerprint_changed"} : Unavailable(r, c)
      BY <1>3 DEF StatusFails
    <2>2. c \in Categories
      BY <2>1 DEF Categories
    <2>3. /\ pc' \in [Refreshes -> {"idle", "status", "check", "material", "stage1", "stage2", "verify"}]
          /\ category' \in Categories
          /\ issues' \in SUBSET {"helper", "fingerprint"}
      BY <2>1, <2>2, EndTyped
    <2>4. /\ faults' \in 0 .. MaxFaults
          /\ UNCHANGED <<host, proc, sudoers, runtime, reported, entry, attempted>>
      BY <1>3, FaultTyped DEF StatusFails
    <2> QED BY <2>3, <2>4 DEF TypeOK, host, entry
  <1>4. ASSUME NEW r \in Refreshes, CheckEnds(r) PROVE TypeOK'
    BY <1>4, DecideTyped DEF TypeOK, CheckEnds, host, entry
  <1>5. ASSUME NEW r \in Refreshes, Material(r) \/ Stage1Done(r) PROVE TypeOK'
    <2>1. /\ proc' \in [Refreshes -> {"none", "agent", "ctl", "sudoers", "ok", "error"}]
          /\ sudoers' \in [Refreshes -> BOOLEAN]
      BY <1>5 DEF TypeOK, Material, Stage1Done, Call
    <2>2. pc' \in [Refreshes -> {"idle", "status", "check", "material", "stage1", "stage2", "verify"}]
      BY <1>5 DEF TypeOK, Material, Stage1Done
    <2>3. UNCHANGED <<host, runtime, reported, entry, attempted, issues, category, faults>>
      BY <1>5 DEF Material, Stage1Done
    <2> QED BY <2>1, <2>2, <2>3 DEF TypeOK, host, entry
  <1>6. ASSUME NEW r \in Refreshes, Stage2Done(r) PROVE TypeOK'
    BY <1>6 DEF TypeOK, Stage2Done, host, entry
  <1>7. ASSUME NEW r \in Refreshes, StageRefused(r) \/ Verify(r) PROVE TypeOK'
    BY <1>7, EndTyped DEF TypeOK, StageRefused, Verify, Categories, host, entry
  <1>8. ASSUME NEW r \in Refreshes, MigrationFails(r) PROVE TypeOK'
    BY <1>8, FaultTyped, EndTyped DEF TypeOK, MigrationFails, Categories, host, entry
  <1>13. ASSUME NEW r \in Refreshes, Escapes(r) PROVE TypeOK'
    BY <1>13, FaultTyped DEF TypeOK, Escapes, host, entry
  <1>9. ASSUME NEW r \in Refreshes, InstallFile(r) PROVE TypeOK'
    <2>1. NextFile(r) \in {"none", "agent", "ctl", "sudoers", "ok", "error"}
      BY DEF NextFile
    <2> QED BY <1>9, <2>1 DEF TypeOK, InstallFile, Versions, HELPER_VERSION, entry
  <1>10. ASSUME NEW r \in Refreshes, InstallFails(r) PROVE TypeOK'
    BY <1>10, FaultTyped DEF TypeOK, InstallFails, host, entry
  <1>11. CASE Reload
    <2>1. current' \in Runtimes
      BY <1>11 DEF TypeOK, Reload, Runtimes
    <2>2. started' \in BOOLEAN /\ UNCHANGED <<host, proc, sudoers, runtime, reported,
                                              attempted, issues, category, faults>>
      BY <1>11 DEF Reload
    <2>3. pc' \in [Refreshes -> {"idle", "status", "check", "material", "stage1", "stage2", "verify"}]
      BY <1>11 DEF TypeOK, Reload
    <2> QED BY <2>1, <2>2, <2>3 DEF TypeOK, host
  <1>12. CASE UNCHANGED vars
    BY <1>12 DEF TypeOK, vars, host, entry
  <1> QED
    BY <1>1, <1>2, <1>3, <1>4, <1>5, <1>6, <1>7, <1>8, <1>9, <1>10, <1>11, <1>12, <1>13 DEF Next

\* Every variable keeps its type.
THEOREM TypeCorrect == Spec => []TypeOK
  BY InitTyped, StepTyped, PTL DEF Spec

----------------------------------------------------------------------------
(* One migration per runtime *)

\* A migration under way is the one its runtime's flag stands for.
FlagInv == \A r \in Refreshes : Migrating(r) => attempted[runtime[r]]

LEMMA InitFlag == Init => FlagInv /\ OneMigration
  BY DEF Init, FlagInv, OneMigration, Migrating

\* A decision starts a migration only where none was started before.
LEMMA DecideOnce ==
  ASSUME TypeOK, FlagInv, OneMigration, NEW r \in Refreshes, NEW v, ~Migrating(r),
         Decide(r, v), UNCHANGED runtime
  PROVE  FlagInv' /\ OneMigration'
  <1>1. CASE Succeed(r) \/ Unavailable(r, "helper_incompatible")
    <2>1. UNCHANGED attempted
      BY <1>1 DEF Decide, TypeOK, Succeed, Unavailable
    <2> QED BY <1>1, <2>1 DEF Succeed, Unavailable, FlagInv, OneMigration, Migrating, TypeOK
  <1>2. CASE /\ ~attempted[runtime[r]]
             /\ attempted' = [attempted EXCEPT ![runtime[r]] = TRUE]
             /\ pc' = [pc EXCEPT ![r] = "material"]
    BY <1>2 DEF FlagInv, OneMigration, Migrating, TypeOK
  <1> QED BY <1>1, <1>2 DEF Decide

LEMMA StepFlag == TypeOK /\ FlagInv /\ OneMigration /\ [Next]_vars => FlagInv' /\ OneMigration'
  <1> SUFFICES ASSUME TypeOK, FlagInv, OneMigration, [Next]_vars PROVE FlagInv' /\ OneMigration'
    OBVIOUS
  <1> USE DEF TypeOK, FlagInv, OneMigration, Migrating
  <1>1. ASSUME NEW r \in Refreshes, Begin(r) PROVE FlagInv' /\ OneMigration'
    BY <1>1 DEF Begin
  <1>2. ASSUME NEW r \in Refreshes, Status(r) \/ CheckEnds(r) PROVE FlagInv' /\ OneMigration'
    <2>1. CASE pc' = [pc EXCEPT ![r] = "check"] /\ UNCHANGED <<attempted, runtime>>
      BY <2>1
    <2>2. CASE \E v : Decide(r, v)
      BY <1>2, <2>2, DecideOnce DEF Status, CheckEnds
    <2> QED BY <1>2, <2>1, <2>2 DEF Status, CheckEnds
  <1>3. ASSUME NEW r \in Refreshes,
               \/ StatusFails(r) \/ StageRefused(r) \/ MigrationFails(r) \/ Escapes(r) \/ Verify(r)
        PROVE  FlagInv' /\ OneMigration'
    BY <1>3 DEF StatusFails, StageRefused, MigrationFails, Escapes, Verify, Succeed, Unavailable
  <1>4. ASSUME NEW r \in Refreshes, Material(r) \/ Stage1Done(r) \/ Stage2Done(r)
        PROVE  FlagInv' /\ OneMigration'
    <2>1. UNCHANGED <<runtime, attempted>> /\ Migrating(r)
      BY <1>4 DEF Material, Stage1Done, Stage2Done
    <2>2. \A q \in Refreshes : q # r => Migrating(q)' = Migrating(q)
      BY <1>4 DEF Material, Stage1Done, Stage2Done
    <2> QED BY <2>1, <2>2
  <1>5. CASE Reload
    BY <1>5 DEF Reload
  <1>6. CASE UNCHANGED <<pc, runtime, attempted>>
    BY <1>6
  <1> QED BY <1>1, <1>2, <1>3, <1>4, <1>5, <1>6
          DEF Next, vars, InstallFile, InstallFails

\* However refreshes overlap and whenever the entry is reloaded, a runtime
\* has one migration under way at most.
THEOREM MigrationExclusive == Spec => []OneMigration
  BY InitTyped, StepTyped, InitFlag, StepFlag, PTL DEF Spec

----------------------------------------------------------------------------
(* The policy comes last *)

\* What an upgrade-helper process has replaced stays replaced.
FilesInv ==
    /\ PolicyIsLast
    /\ \A r \in Refreshes :
          /\ proc[r] \in {"ctl", "sudoers"} => agent = HELPER_VERSION
          /\ proc[r] = "sudoers" => ctl = HELPER_VERSION

LEMMA InitFiles == Init => FilesInv
  BY DEF Init, FilesInv, PolicyIsLast, HELPER_VERSION

LEMMA StepFiles == TypeOK /\ FilesInv /\ [Next]_vars => FilesInv'
  <1> SUFFICES ASSUME TypeOK, FilesInv, [Next]_vars PROVE FilesInv'
    OBVIOUS
  <1> USE DEF TypeOK, FilesInv, PolicyIsLast
  <1>1. ASSUME NEW r \in Refreshes, InstallFile(r) PROVE FilesInv'
    <2>1. /\ proc[r] = "agent" => NextFile(r) = "ctl"
          /\ proc[r] = "ctl" => NextFile(r) \in {"sudoers", "ok"}
          /\ proc[r] = "sudoers" => NextFile(r) = "ok"
      BY DEF NextFile
    <2> QED BY <1>1, <2>1 DEF InstallFile
  <1>2. ASSUME NEW r \in Refreshes, Material(r) \/ Stage1Done(r) PROVE FilesInv'
    BY <1>2 DEF Material, Stage1Done, Call, host
  <1>3. ASSUME NEW r \in Refreshes, InstallFails(r) PROVE FilesInv'
    BY <1>3 DEF InstallFails, host
  <1>4. CASE UNCHANGED <<host, proc>>
    BY <1>4 DEF host
  <1> QED BY <1>1, <1>2, <1>3, <1>4
          DEF Next, vars, Begin, Status, StatusFails, CheckEnds, Stage2Done, StageRefused,
              MigrationFails, Escapes, Verify, Reload

\* A current policy marker proves a current helper, for any number of
\* upgrade-helper processes stopped at any file.
THEOREM PolicyLastCorrect == Spec => []PolicyIsLast
  <1>1. FilesInv => PolicyIsLast
    BY DEF FilesInv
  <1> QED BY <1>1, InitTyped, StepTyped, InitFiles, StepFiles, PTL DEF Spec
----------------------------------------------------------------------------
(* One attempt is enough *)

\* Helper and policy never go back once they are current, and a runtime that
\* is still to come has made no attempt.
ProgressInv ==
    /\ \A r \in Refreshes :
          /\ reported[r].agent >= HELPER_VERSION \/ proc[r] \in {"ctl", "sudoers", "ok"}
                => agent >= HELPER_VERSION
          /\ sudoers[r] /\ proc[r] = "ok" => policy = HELPER_VERSION
          /\ pc[r] = "stage2" => sudoers[r]
          /\ pc[r] = "verify" => HostCurrent
          /\ runtime[r] <= current
    /\ \A n \in Runtimes : n > current => ~attempted[n]

\* While nothing fails no helper process ends in an error.
NoErrorInv == faults = 0 => \A r \in Refreshes : proc[r] # "error"

AttemptInv == ProgressInv /\ NoErrorInv /\ AttemptSuffices

LEMMA InitAttempt == Init => AttemptInv
  BY DEF Init, AttemptInv, ProgressInv, NoErrorInv, AttemptSuffices, HELPER_VERSION, Runtimes

\* No step puts anything older than this version in its place.
LEMMA HostAdvances ==
  ASSUME TypeOK, [Next]_vars
  PROVE  /\ agent >= HELPER_VERSION => agent' >= HELPER_VERSION
         /\ policy = HELPER_VERSION => policy' = HELPER_VERSION
         /\ HostCurrent => HostCurrent'
  <1>1. ASSUME NEW r \in Refreshes, InstallFile(r)
        PROVE  agent' \in {agent, HELPER_VERSION} /\ policy' \in {policy, HELPER_VERSION}
    BY <1>1 DEF InstallFile
  <1>2. UNCHANGED host \/ \E r \in Refreshes : InstallFile(r)
    BY DEF Next, vars, Begin, Status, StatusFails, CheckEnds, Material, Stage1Done, Stage2Done,
           StageRefused, MigrationFails, Escapes, Verify, InstallFails, Reload
  <1> QED BY <1>1, <1>2 DEF host, HostCurrent, HELPER_VERSION

\* What a decision does to a refresh's place and to the flags.
LEMMA DecideMoves ==
  ASSUME TypeOK, NEW r \in Refreshes, NEW v, Decide(r, v)
  PROVE  \/ pc' = [pc EXCEPT ![r] = "idle"] /\ UNCHANGED attempted
         \/ /\ pc' = [pc EXCEPT ![r] = "material"]
            /\ attempted' = [attempted EXCEPT ![runtime[r]] = TRUE]
  BY DEF TypeOK, Decide, Succeed, Unavailable

LEMMA StepProgress ==
  TypeOK /\ FilesInv /\ ProgressInv /\ [Next]_vars => ProgressInv'
  <1> SUFFICES ASSUME TypeOK, FilesInv, ProgressInv, [Next]_vars PROVE ProgressInv'
    OBVIOUS
  <1> USE DEF TypeOK, ProgressInv, HELPER_VERSION
  <1>0. /\ agent >= HELPER_VERSION => agent' >= HELPER_VERSION
        /\ policy = HELPER_VERSION => policy' = HELPER_VERSION
        /\ HostCurrent => HostCurrent'
    BY HostAdvances
  <1>1. ASSUME NEW r \in Refreshes, Begin(r) PROVE ProgressInv'
    BY <1>0, <1>1 DEF Begin, Runtimes
  <1>2. ASSUME NEW r \in Refreshes, Status(r) \/ CheckEnds(r) PROVE ProgressInv'
    <2>1. /\ UNCHANGED <<host, proc, sudoers, runtime, current>>
          /\ reported' = reported
             \/ reported' = [reported EXCEPT ![r] = [agent |-> agent, policy |-> policy]]
      BY <1>2 DEF Status, CheckEnds, entry
    <2>2. \/ pc' = [pc EXCEPT ![r] = "check"] /\ UNCHANGED attempted
          \/ pc' = [pc EXCEPT ![r] = "idle"] /\ UNCHANGED attempted
          \/ /\ pc' = [pc EXCEPT ![r] = "material"]
             /\ attempted' = [attempted EXCEPT ![runtime[r]] = TRUE]
      BY <1>2, DecideMoves DEF Status, CheckEnds
    <2>3. \A n \in Runtimes : n > current' => ~attempted'[n]
      <3>1. \A n \in Runtimes : n > current => n # runtime[r]
        BY DEF Runtimes
      <3> QED BY <2>1, <2>2, <3>1
    <2> QED BY <1>0, <2>1, <2>2, <2>3 DEF host
  <1>3. ASSUME NEW r \in Refreshes,
               \/ StatusFails(r) \/ StageRefused(r) \/ MigrationFails(r) \/ Escapes(r) \/ Verify(r)
        PROVE  ProgressInv'
    <2>1. /\ pc' = [pc EXCEPT ![r] = "idle"]
          /\ UNCHANGED <<proc, sudoers, runtime, reported, current, attempted>>
      BY <1>3 DEF StatusFails, StageRefused, MigrationFails, Escapes, Verify,
                  Succeed, Unavailable, entry
    <2> QED BY <1>0, <2>1
  <1>4. ASSUME NEW r \in Refreshes, Material(r) \/ Stage1Done(r) PROVE ProgressInv'
    <2>1. PICK v \in BOOLEAN :
             /\ proc' = [proc EXCEPT ![r] = IF v /\ agent < HELPER_VERSION THEN "error" ELSE "agent"]
             /\ sudoers' = [sudoers EXCEPT ![r] = v]
             /\ \/ pc' = [pc EXCEPT ![r] = "stage1"]
                \/ pc' = [pc EXCEPT ![r] = "stage2"] /\ v
      BY <1>4 DEF Material, Stage1Done, Call
    <2>2. UNCHANGED <<runtime, reported, current, attempted>>
      BY <1>4 DEF Material, Stage1Done, entry
    <2> QED BY <1>0, <2>1, <2>2
  <1>5. ASSUME NEW r \in Refreshes, Stage2Done(r) PROVE ProgressInv'
    <2>1. HostCurrent
      BY <1>5 DEF Stage2Done, HostCurrent
    <2> QED BY <1>0, <1>5, <2>1 DEF Stage2Done, entry
  <1>6. ASSUME NEW r \in Refreshes, InstallFile(r) PROVE ProgressInv'
    <2>1. /\ proc[r] = "agent" => agent' = HELPER_VERSION /\ NextFile(r) = "ctl"
          /\ proc[r] = "ctl" => NextFile(r) = IF sudoers[r] THEN "sudoers" ELSE "ok"
          /\ proc[r] = "sudoers" => policy' = HELPER_VERSION /\ NextFile(r) = "ok"
          /\ proc[r] \in {"agent", "ctl", "sudoers"}
      BY <1>6 DEF InstallFile, NextFile
    <2>2. /\ proc' = [proc EXCEPT ![r] = NextFile(r)]
          /\ UNCHANGED <<sudoers, pc, runtime, reported, current, attempted>>
      BY <1>6 DEF InstallFile, entry
    <2>3. proc[r] \in {"ctl", "sudoers"} => agent >= HELPER_VERSION
      OBVIOUS
    <2> QED BY <1>0, <2>1, <2>2, <2>3
  <1>7. ASSUME NEW r \in Refreshes, InstallFails(r) PROVE ProgressInv'
    BY <1>0, <1>7 DEF InstallFails, entry
  <1>8. CASE Reload
    BY <1>0, <1>8 DEF Reload, Runtimes
  <1>9. CASE UNCHANGED vars
    BY <1>0, <1>9 DEF vars, entry
  <1> QED BY <1>1, <1>2, <1>3, <1>4, <1>5, <1>6, <1>7, <1>8, <1>9 DEF Next

\* A helper process that is given a policy was started on a current helper,
\* and only a fault makes any other end in an error.
LEMMA StepNoError ==
  TypeOK /\ ProgressInv /\ NoErrorInv /\ [Next]_vars => NoErrorInv'
  <1> SUFFICES ASSUME TypeOK, ProgressInv, NoErrorInv, [Next]_vars PROVE NoErrorInv'
    OBVIOUS
  <1> USE DEF TypeOK, ProgressInv, NoErrorInv, HELPER_VERSION
  <1>1. ASSUME NEW r \in Refreshes, Material(r) \/ Stage1Done(r) PROVE NoErrorInv'
    <2>1. \/ /\ Call(r, ~(reported[r].agent < HELPER_VERSION))
             /\ reported[r].agent >= HELPER_VERSION => agent >= HELPER_VERSION
          \/ Call(r, TRUE) /\ agent >= HELPER_VERSION
      BY <1>1 DEF Material, Stage1Done
    <2>2. reported[r].agent \in Nat /\ agent \in Nat
      BY DEF Versions
    <2>3. proc' = [proc EXCEPT ![r] = "agent"] /\ UNCHANGED faults
      BY <1>1, <2>1, <2>2 DEF Call, Material, Stage1Done
    <2> QED BY <2>3
  <1>2. ASSUME NEW r \in Refreshes, InstallFile(r) PROVE NoErrorInv'
    <2>1. NextFile(r) # "error"
      BY DEF NextFile
    <2> QED BY <1>2, <2>1 DEF InstallFile
  <1>3. ASSUME NEW r \in Refreshes, StatusFails(r) \/ MigrationFails(r) \/ Escapes(r) \/ InstallFails(r)
        PROVE  NoErrorInv'
    BY <1>3 DEF StatusFails, MigrationFails, Escapes, InstallFails, Fault
  <1>4. CASE UNCHANGED <<proc, faults>>
    BY <1>4
  <1> QED BY <1>1, <1>2, <1>3, <1>4
          DEF Next, vars, Begin, Status, CheckEnds, Stage2Done, StageRefused, Verify, Reload

\* Where a host is not current, a refresh that is migrating goes on doing so.
LEMMA StepSuffices ==
  TypeOK /\ AttemptInv /\ [Next]_vars => AttemptSuffices'
  <1> SUFFICES ASSUME TypeOK, AttemptInv, [Next]_vars,
                      attempted'[current'], faults' = 0, ~HostCurrent'
               PROVE  \E r \in Refreshes : Migrating(r)' /\ runtime'[r] = current'
    BY DEF AttemptSuffices
  <1> USE DEF TypeOK, AttemptInv, ProgressInv, NoErrorInv, Migrating
  <1>0. ~HostCurrent
    BY HostAdvances
  <1>1. ASSUME NEW r \in Refreshes, StatusFails(r) \/ MigrationFails(r) \/ Escapes(r) \/ InstallFails(r)
        PROVE  FALSE
    BY <1>1 DEF StatusFails, MigrationFails, Escapes, InstallFails, Fault
  <1>2. CASE Reload
    BY <1>2 DEF Reload, Runtimes
  <1>3. ASSUME NEW r \in Refreshes, Status(r) \/ CheckEnds(r)
        PROVE  \E q \in Refreshes : Migrating(q)' /\ runtime'[q] = current'
    <2>1. ~Migrating(r) /\ UNCHANGED <<runtime, current, faults>>
      BY <1>3 DEF Status, CheckEnds, entry
    <2>2. CASE UNCHANGED attempted /\ \A q \in Refreshes \ {r} : pc'[q] = pc[q]
      BY <1>0, <2>1, <2>2 DEF AttemptSuffices
    <2>3. CASE /\ pc' = [pc EXCEPT ![r] = "material"]
               /\ attempted' = [attempted EXCEPT ![runtime[r]] = TRUE]
      <3>1. CASE runtime[r] = current
        BY <2>1, <2>3, <3>1
      <3>2. CASE runtime[r] # current
        BY <1>0, <2>1, <2>3, <3>2 DEF AttemptSuffices
      <3> QED BY <3>1, <3>2
    <2> QED BY <1>3, <2>2, <2>3, DecideMoves DEF Status, CheckEnds
  <1>4. ASSUME NEW r \in Refreshes,
               \/ Begin(r) \/ Material(r) \/ Stage1Done(r) \/ Stage2Done(r) \/ StageRefused(r)
               \/ Verify(r) \/ InstallFile(r)
        PROVE  \E q \in Refreshes : Migrating(q)' /\ runtime'[q] = current'
    <2>1. UNCHANGED <<attempted, current, faults>>
      BY <1>4 DEF entry, Begin, Material, Stage1Done, Stage2Done, StageRefused, Verify, InstallFile
    <2>2. PICK q \in Refreshes : Migrating(q) /\ runtime[q] = current
      BY <1>0, <2>1 DEF AttemptSuffices
    <2>3. ~StageRefused(r) /\ ~Verify(r)
      BY <1>0, <2>1 DEF StageRefused, Verify
    <2>4. Migrating(q)' /\ runtime'[q] = current'
      BY <1>4, <2>1, <2>2, <2>3 DEF Begin, Material, Stage1Done, Stage2Done, InstallFile
    <2> QED BY <2>4
  <1>5. CASE UNCHANGED vars
    BY <1>0, <1>5 DEF vars, entry, AttemptSuffices
  <1> QED BY <1>1, <1>2, <1>3, <1>4, <1>5 DEF Next

\* For any number of refreshes, runtimes and helper processes, the one
\* attempt of a runtime ends with a current host unless something failed.
THEOREM AttemptCorrect == Spec => []AttemptSuffices
  <1>1. TypeOK /\ FilesInv /\ AttemptInv /\ [Next]_vars => AttemptInv'
    BY StepProgress, StepNoError, StepSuffices DEF AttemptInv
  <1>2. AttemptInv => AttemptSuffices
    BY DEF AttemptInv
  <1> QED
    BY <1>1, <1>2, InitTyped, StepTyped, InitFiles, StepFiles, InitAttempt, PTL DEF Spec
=============================================================================
