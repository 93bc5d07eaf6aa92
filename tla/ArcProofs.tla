------------------------------- MODULE ArcProofs -------------------------------
(***************************************************************************)
(* The control plane keeps its records consistent, keeps evidence final,   *)
(* and implements MissionLifecycle, for any sensors, missions, artifacts,  *)
(* lease durations and clock; and what its agents are told is true, for    *)
(* any number of agents, however requests are delayed or lost and whenever *)
(* agents die.                                                             *)
(*                                                                         *)
(* The control plane: StatusAgrees and EvidenceAgrees are inductive        *)
(* together once it is known that an assignment exists exactly for the     *)
(* targets of an armed mission (AssignmentsAgree).                         *)
(*                                                                         *)
(* The fleet: its inductive invariant, FleetInv, takes the control plane's *)
(* own and adds what each agent knows of it: which request it can have in  *)
(* flight, that the assignment it was answered or holds was given to its   *)
(* sensor (GivenAgrees) and that an upload's answer is true before the     *)
(* agent acts on it (OutcomeAgrees).  No control plane step takes any of   *)
(* these back: Acceptable is stable, leases only gain generations,         *)
(* evidence is final.                                                      *)
(***************************************************************************)
EXTENDS ArcFleet, TLAPS

\* What EXCEPT does to a table, at every index.
LEMMA TableUpdate ==
  ASSUME NEW M, NEW S, NEW V, NEW f \in [M -> [S -> V]],
         NEW m \in M, NEW s \in S, NEW v \in V
  PROVE  /\ [f EXCEPT ![m][s] = v] \in [M -> [S -> V]]
         /\ \A n \in M, t \in S :
              [f EXCEPT ![m][s] = v][n][t] = IF n = m /\ t = s THEN v ELSE f[n][t]
OBVIOUS

\* What EXCEPT does to a function, at every argument.
LEMMA FunctionUpdate ==
  ASSUME NEW M, NEW V, NEW f \in [M -> V], NEW m \in M, NEW v \in V
  PROVE  /\ [f EXCEPT ![m] = v] \in [M -> V]
         /\ \A n \in M : [f EXCEPT ![m] = v][n] = IF n = m THEN v ELSE f[n]
OBVIOUS

-----------------------------------------------------------------------------
\* What each handler does, at every index of the tables it writes.

\* create_mission drafts m for the sensors named and touches nothing else.
LEMMA CreateEffect ==
  ASSUME TypeOK, NEW m \in Mission, NEW sensors \in SUBSET Sensor, CreateMission(m, sensors)
  PROVE  /\ TypeOK'
         /\ status[m] = "absent" /\ sensors # {}
         /\ \A n \in Mission : status'[n] = IF n = m THEN "draft" ELSE status[n]
         /\ \A n \in Mission : targets'[n] = IF n = m THEN sensors ELSE targets[n]
         /\ UNCHANGED <<assignments, mission_artifacts, correlated, artifacts, leases, generation>>
<1>1. sensors \in SUBSET registered
  BY DEF CreateMission
<1>2. /\ status \in [Mission -> MissionStatus \cup {"absent"}]
      /\ targets \in [Mission -> SUBSET registered]
      /\ "draft" \in MissionStatus \cup {"absent"}
  BY DEF TypeOK, MissionStatus
<1>3. /\ [status EXCEPT ![m] = "draft"] \in [Mission -> MissionStatus \cup {"absent"}]
      /\ \A n \in Mission : [status EXCEPT ![m] = "draft"][n]
                              = IF n = m THEN "draft" ELSE status[n]
  BY <1>2, FunctionUpdate
<1>4. /\ [targets EXCEPT ![m] = sensors] \in [Mission -> SUBSET registered]
      /\ \A n \in Mission : [targets EXCEPT ![m] = sensors][n]
                              = IF n = m THEN sensors ELSE targets[n]
  BY <1>1, <1>2, FunctionUpdate
<1> QED
  BY <1>3, <1>4 DEF CreateMission, TypeOK, sensorVars

\* arm_mission makes every target's assignment pending.
LEMMA ArmEffect ==
  ASSUME TypeOK, NEW m \in Mission, ArmMission(m)
  PROVE  /\ TypeOK'
         /\ status[m] = "draft"
         /\ \A n \in Mission : status'[n] = IF n = m THEN "armed" ELSE status[n]
         /\ \A n \in Mission, t \in Sensor :
              assignments'[n][t] = IF n = m /\ t \in targets[m] THEN "pending"
                                   ELSE assignments[n][t]
         /\ UNCHANGED <<targets, mission_artifacts, correlated, artifacts, leases, generation>>
<1> DEFINE armed == [s \in Sensor |-> IF s \in targets[m] THEN "pending" ELSE assignments[m][s]]
<1>1. /\ status \in [Mission -> MissionStatus \cup {"absent"}]
      /\ assignments \in [Mission -> [Sensor -> AssignmentStatus \cup {"none"}]]
      /\ "armed" \in MissionStatus \cup {"absent"}
      /\ armed \in [Sensor -> AssignmentStatus \cup {"none"}]
  BY DEF TypeOK, MissionStatus, AssignmentStatus
<1>2. /\ [status EXCEPT ![m] = "armed"] \in [Mission -> MissionStatus \cup {"absent"}]
      /\ \A n \in Mission : [status EXCEPT ![m] = "armed"][n]
                              = IF n = m THEN "armed" ELSE status[n]
  BY <1>1, FunctionUpdate
<1>3. /\ [assignments EXCEPT ![m] = armed]
            \in [Mission -> [Sensor -> AssignmentStatus \cup {"none"}]]
      /\ \A n \in Mission : [assignments EXCEPT ![m] = armed][n]
                              = IF n = m THEN armed ELSE assignments[n]
  BY <1>1, FunctionUpdate
<1>4. assignments' = [assignments EXCEPT ![m] = armed]
  BY <1>1 DEF ArmMission
<1> QED
  BY <1>2, <1>3, <1>4 DEF ArmMission, TypeOK, sensorVars

\* next_assignment, when it issues a lease, leases one waiting assignment.
LEMMA NextEffect ==
  ASSUME TypeOK, NEW s \in Sensor, NextAssignment(s)
  PROVE  /\ TypeOK'
         /\ generation' = generation + 1
         /\ \E m \in Mission :
              /\ assignments[m][s] \in {"pending", "leased"}
              /\ ~ActiveLease(m, s)
              /\ \A n \in Mission : status'[n] = IF n = m THEN "capturing" ELSE status[n]
              /\ \A n \in Mission, t \in Sensor :
                   assignments'[n][t] = IF n = m /\ t = s THEN "leased" ELSE assignments[n][t]
              /\ \A n \in Mission, t \in Sensor :
                   leases'[n][t] = IF n = m /\ t = s THEN NewLease ELSE leases[n][t]
         /\ UNCHANGED <<targets, mission_artifacts, correlated, artifacts>>
<1>1. PICK m \in Mission :
        /\ IsNext(m, s)
        /\ ~ActiveLease(m, s)
        /\ generation' = generation + 1
        /\ assignments' = [assignments EXCEPT ![m][s] = "leased"]
        /\ status' = [status EXCEPT ![m] = "capturing"]
        /\ state' = [state EXCEPT ![s] = "capturing"]
        /\ active_mission' = [active_mission EXCEPT ![s] = m]
        /\ leases' = [leases EXCEPT ![m][s] = NewLease]
  BY DEF NextAssignment
<1>2. /\ status \in [Mission -> MissionStatus \cup {"absent"}]
      /\ assignments \in [Mission -> [Sensor -> AssignmentStatus \cup {"none"}]]
      /\ leases \in [Mission -> [Sensor -> Lease \cup {None}]]
      /\ state \in [Sensor -> SensorState]
      /\ active_mission \in [Sensor -> Mission \cup {None}]
      /\ "capturing" \in MissionStatus \cup {"absent"}
      /\ "capturing" \in SensorState
      /\ "leased" \in AssignmentStatus \cup {"none"}
      /\ NewLease \in Lease \cup {None}
  BY LeaseAssumption DEF TypeOK, MissionStatus, AssignmentStatus, SensorState, NewLease, Lease
<1>3. /\ status' \in [Mission -> MissionStatus \cup {"absent"}]
      /\ \A n \in Mission : status'[n] = IF n = m THEN "capturing" ELSE status[n]
  BY <1>1, <1>2, FunctionUpdate
<1>4. /\ assignments' \in [Mission -> [Sensor -> AssignmentStatus \cup {"none"}]]
      /\ \A n \in Mission, t \in Sensor :
           assignments'[n][t] = IF n = m /\ t = s THEN "leased" ELSE assignments[n][t]
  BY <1>1, <1>2, TableUpdate
<1>5. /\ leases' \in [Mission -> [Sensor -> Lease \cup {None}]]
      /\ \A n \in Mission, t \in Sensor :
           leases'[n][t] = IF n = m /\ t = s THEN NewLease ELSE leases[n][t]
  BY <1>1, <1>2, TableUpdate
<1>6. state' \in [Sensor -> SensorState]
  BY <1>1, <1>2, FunctionUpdate
<1>7. active_mission' \in [Sensor -> Mission \cup {None}]
  BY <1>1, <1>2, FunctionUpdate
<1>8. assignments[m][s] \in {"pending", "leased"}
  BY <1>1 DEF IsNext, Waiting
<1>9. UNCHANGED <<now, registered, targets, mission_artifacts, correlated, artifacts>>
  BY DEF NextAssignment
<1>10. TypeOK'
  BY <1>1, <1>3, <1>4, <1>5, <1>6, <1>7, <1>9 DEF TypeOK
<1> QED
  BY <1>1, <1>3, <1>4, <1>5, <1>8, <1>9, <1>10

\* The sensors all of whose evidence is in, and whether it is complete.
\* submit_artifact stores one artifact everywhere it is recorded.
LEMMA SubmitEffect ==
  ASSUME TypeOK, NEW m \in Mission, NEW s \in Sensor, NEW a \in Artifact,
         SubmitArtifact(m, s, a)
  PROVE  /\ TypeOK'
         /\ Acceptable(m, s) /\ artifacts[m][s] = None
         /\ \A n \in Mission, t \in Sensor :
              /\ artifacts'[n][t] = IF n = m /\ t = s THEN a ELSE artifacts[n][t]
              /\ mission_artifacts'[n][t] =
                   IF n = m /\ t = s THEN a ELSE mission_artifacts[n][t]
              /\ assignments'[n][t] =
                   IF n = m /\ t = s THEN "submitted" ELSE assignments[n][t]
         /\ \A n \in Mission :
              correlated'[n] = IF n = m THEN {t \in Sensor : artifacts'[m][t] # None}
                               ELSE correlated[n]
         /\ \A n \in Mission :
              status'[n] = IF n = m /\ AllIn(m) THEN Verdict(m) ELSE status[n]
         /\ UNCHANGED <<targets, leases, generation>>
<1>1. /\ status \in [Mission -> MissionStatus \cup {"absent"}]
      /\ assignments \in [Mission -> [Sensor -> AssignmentStatus \cup {"none"}]]
      /\ mission_artifacts \in [Mission -> [Sensor -> Artifact \cup {None}]]
      /\ artifacts \in [Mission -> [Sensor -> Artifact \cup {None}]]
      /\ correlated \in [Mission -> SUBSET Sensor]
      /\ state \in [Sensor -> SensorState]
      /\ active_mission \in [Sensor -> Mission \cup {None}]
      /\ "submitted" \in AssignmentStatus \cup {"none"}
      /\ Verdict(m) \in MissionStatus \cup {"absent"}
      /\ (IF a \in CompleteArtifact THEN "evidence_received" ELSE "degraded") \in SensorState
  BY DEF TypeOK, MissionStatus, AssignmentStatus, SensorState, Verdict
<1>2. /\ artifacts' \in [Mission -> [Sensor -> Artifact \cup {None}]]
      /\ \A n \in Mission, t \in Sensor :
           artifacts'[n][t] = IF n = m /\ t = s THEN a ELSE artifacts[n][t]
  BY <1>1, TableUpdate DEF SubmitArtifact
<1>3. /\ mission_artifacts' \in [Mission -> [Sensor -> Artifact \cup {None}]]
      /\ \A n \in Mission, t \in Sensor :
           mission_artifacts'[n][t] = IF n = m /\ t = s THEN a ELSE mission_artifacts[n][t]
  BY <1>1, TableUpdate DEF SubmitArtifact
<1>4. /\ assignments' \in [Mission -> [Sensor -> AssignmentStatus \cup {"none"}]]
      /\ \A n \in Mission, t \in Sensor :
           assignments'[n][t] = IF n = m /\ t = s THEN "submitted" ELSE assignments[n][t]
  BY <1>1, TableUpdate DEF SubmitArtifact
<1>5. /\ correlated' \in [Mission -> SUBSET Sensor]
      /\ \A n \in Mission :
           correlated'[n] = IF n = m THEN {t \in Sensor : artifacts'[m][t] # None}
                            ELSE correlated[n]
  <2>1. {t \in Sensor : artifacts'[m][t] # None} \in SUBSET Sensor
    OBVIOUS
  <2>2. correlated' = [correlated EXCEPT ![m] = {t \in Sensor : artifacts'[m][t] # None}]
    BY DEF SubmitArtifact
  <2> QED
    BY <1>1, <2>1, <2>2, FunctionUpdate
<1>6. /\ status' \in [Mission -> MissionStatus \cup {"absent"}]
      /\ \A n \in Mission :
           status'[n] = IF n = m /\ AllIn(m) THEN Verdict(m) ELSE status[n]
  <2>1. status' = IF AllIn(m) THEN [status EXCEPT ![m] = Verdict(m)] ELSE status
    BY DEF SubmitArtifact, AllIn, Verdict
  <2>2. /\ [status EXCEPT ![m] = Verdict(m)] \in [Mission -> MissionStatus \cup {"absent"}]
        /\ \A n \in Mission :
             [status EXCEPT ![m] = Verdict(m)][n] = IF n = m THEN Verdict(m) ELSE status[n]
    BY <1>1, FunctionUpdate
  <2>3. CASE AllIn(m)
    BY <2>1, <2>2, <2>3
  <2>4. CASE ~AllIn(m)
    BY <1>1, <2>1, <2>4
  <2> QED
    BY <2>3, <2>4
<1>7. state' \in [Sensor -> SensorState]
  BY <1>1, FunctionUpdate DEF SubmitArtifact
<1>8. active_mission' \in [Sensor -> Mission \cup {None}]
  BY <1>1, FunctionUpdate DEF SubmitArtifact
<1>9. /\ UNCHANGED <<now, registered, targets, leases, generation>>
      /\ Acceptable(m, s) /\ artifacts[m][s] = None
  BY DEF SubmitArtifact
<1>10. TypeOK'
  BY <1>2, <1>3, <1>4, <1>5, <1>6, <1>7, <1>8, <1>9 DEF TypeOK
<1> QED
  BY <1>2, <1>3, <1>4, <1>5, <1>6, <1>9, <1>10

\* The clock and a registration touch none of the mission records.
LEMMA QuietEffect ==
  ASSUME TypeOK, SetClock \/ \E s \in Sensor : RegisterSensor(s)
  PROVE  TypeOK' /\ UNCHANGED <<missionVars, artifacts, leases, generation>>
<1>1. CASE SetClock
  BY <1>1, LeaseAssumption DEF TypeOK, SetClock, sensorVars, missionVars
<1>2. CASE \E s \in Sensor : RegisterSensor(s)
  BY <1>2 DEF TypeOK, RegisterSensor, missionVars
<1> QED
  BY <1>1, <1>2

\* Every step is one of the handlers, the clock, or none.
LEMMA Cases ==
  ASSUME [Next]_controlVars
  PROVE  \/ UNCHANGED controlVars
         \/ SetClock \/ \E s \in Sensor : RegisterSensor(s)
         \/ \E m \in Mission, sensors \in SUBSET Sensor : CreateMission(m, sensors)
         \/ \E m \in Mission : ArmMission(m)
         \/ \E s \in Sensor : NextAssignment(s)
         \/ \E m \in Mission, s \in Sensor, a \in Artifact : SubmitArtifact(m, s, a)
BY DEF Next

\* Every handler call and every clock reading keeps the records' types.
LEMMA TypeOKStep == TypeOK /\ [Next]_controlVars => TypeOK'
<1> SUFFICES ASSUME TypeOK, [Next]_controlVars PROVE TypeOK'
  OBVIOUS
<1>1. CASE UNCHANGED controlVars
  BY <1>1 DEF controlVars, sensorVars, missionVars, TypeOK
<1> QED
  BY <1>1, Cases, QuietEffect, CreateEffect, ArmEffect, NextEffect, SubmitEffect

\* The empty control plane is well typed.
LEMMA TypeOKInit == Init => TypeOK
BY DEF Init, TypeOK, SensorState, MissionStatus, AssignmentStatus

\* The records keep their types; in particular every target is a registered
\* sensor, which the handlers take for granted ("sensor existence was checked").
THEOREM TypeCorrect == Spec => []TypeOK
BY TypeOKInit, TypeOKStep, PTL DEF Spec

-----------------------------------------------------------------------------
\* An assignment exists exactly for the targets of an armed mission; it was
\* leased if it is leased or submitted; and a mission asks for some sensor.
AssignmentsAgree ==
  \A m \in Mission :
    /\ status[m] # "absent" => targets[m] # {}
    /\ \A s \in Sensor :
         /\ assignments[m][s] # "none"
              <=> s \in targets[m] /\ status[m] \notin {"absent", "draft"}
         /\ assignments[m][s] \in {"leased", "submitted"} => leases[m][s] # None

\* The strengthening EvidenceAgrees needs: without AssignmentsAgree a submission
\* could come from a sensor with an assignment but no lease.
RecordInv == TypeOK /\ AssignmentsAgree /\ EvidenceAgrees

\* The empty control plane's records agree.
LEMMA RecordInvInit == Init => RecordInv
BY TypeOKInit DEF Init, RecordInv, AssignmentsAgree, EvidenceAgrees

\* Every handler call keeps assignments, leases and evidence in agreement.
LEMMA RecordInvStep == RecordInv /\ [Next]_controlVars => RecordInv'
<1> SUFFICES ASSUME RecordInv, [Next]_controlVars PROVE RecordInv'
  OBVIOUS
<1> USE DEF RecordInv, AssignmentsAgree, EvidenceAgrees
<1>1. CASE UNCHANGED <<missionVars, artifacts, leases>>
  BY <1>1, TypeOKStep DEF missionVars
<1>2. ASSUME NEW m \in Mission, NEW sensors \in SUBSET Sensor, CreateMission(m, sensors)
      PROVE  RecordInv'
  BY <1>2, CreateEffect
<1>3. ASSUME NEW m \in Mission, ArmMission(m) PROVE RecordInv'
  BY <1>3, ArmEffect
<1>4. ASSUME NEW s \in Sensor, NextAssignment(s) PROVE RecordInv'
  <2>1. NewLease # None
    BY NoneAssumption, LeaseAssumption DEF NewLease, Lease, TypeOK
  <2> QED
    BY <1>4, <2>1, NextEffect
<1>5. ASSUME NEW m \in Mission, NEW s \in Sensor, NEW a \in Artifact, SubmitArtifact(m, s, a)
      PROVE  RecordInv'
  <2>1. a # None
    BY ArtifactAssumption
  <2>2. TypeOK'
    BY <1>5, SubmitEffect
  <2>3. \A n \in Mission : status'[n] \in {"absent", "draft"} <=> status[n] \in {"absent", "draft"}
    BY <1>5, SubmitEffect DEF Verdict, Acceptable
  <2>4. AssignmentsAgree'
    BY <1>5, <2>3, SubmitEffect DEF Acceptable
  <2>5. EvidenceAgrees'
    BY <1>5, <2>1, <2>2, SubmitEffect DEF Acceptable, TypeOK
  <2> QED
    BY <2>2, <2>4, <2>5
<1>6. CASE UNCHANGED controlVars
  BY <1>1, <1>6 DEF controlVars
<1>7. CASE SetClock \/ \E s \in Sensor : RegisterSensor(s)
  BY <1>1, <1>7, QuietEffect
<1> QED
  BY <1>2, <1>3, <1>4, <1>5, <1>6, <1>7, Cases

\* The evidence store, the manifests, the assignments and the correlations agree
\* on who has submitted what, through every order of leases, expiries, repeats
\* and submissions.
THEOREM EvidenceIsConsistent == Spec => []EvidenceAgrees
<1>1. RecordInv => EvidenceAgrees
  BY DEF RecordInv
<1> QED
  BY <1>1, RecordInvInit, RecordInvStep, PTL DEF Spec

-----------------------------------------------------------------------------
\* The inductive invariant of the whole control plane.
ControlInv == RecordInv /\ StatusAgrees

\* The empty control plane satisfies it.
LEMMA ControlInvInit == Init => ControlInv
BY RecordInvInit DEF Init, ControlInv, StatusAgrees, StatusFits, RecordInv, AssignmentsAgree

\* Every handler call maintains the mission's status along with its records.
LEMMA ControlInvStep == ControlInv /\ [Next]_controlVars => ControlInv'
<1> SUFFICES ASSUME ControlInv, [Next]_controlVars PROVE ControlInv'
  OBVIOUS
<1>0. RecordInv /\ RecordInv' /\ TypeOK
  BY RecordInvStep DEF ControlInv, RecordInv
<1> USE DEF ControlInv, StatusAgrees, StatusFits, AllAre, SomeIs
<1>1. CASE UNCHANGED <<missionVars, artifacts, leases>>
  BY <1>0, <1>1 DEF missionVars
<1>2. ASSUME NEW m \in Mission, NEW sensors \in SUBSET Sensor, CreateMission(m, sensors)
      PROVE  StatusAgrees'
  BY <1>0, <1>2, CreateEffect DEF RecordInv, AssignmentsAgree
<1>3. ASSUME NEW m \in Mission, ArmMission(m) PROVE StatusAgrees'
  <2> SUFFICES ASSUME NEW n \in Mission PROVE StatusFits(n)'
    OBVIOUS
  <2> DEFINE rest == UNCHANGED targets /\ UNCHANGED artifacts
  <2>0. rest /\ TypeOK'
    BY <1>0, <1>3, ArmEffect
  <2>1. CASE n = m
    <3>1. status'[n] = "armed"
      BY <1>0, <1>3, <2>1, ArmEffect
    <3>2. \A t \in targets[n] : t \in Sensor /\ assignments'[n][t] = "pending"
      BY <1>0, <1>3, <2>1, ArmEffect DEF TypeOK
    <3>3. targets[n] # {}
      BY <1>0, <1>3, <2>1, ArmEffect DEF RecordInv, AssignmentsAgree
    <3> QED
      BY <2>0, <3>1, <3>2, <3>3
  <2>2. CASE n # m
    <3>1. status'[n] = status[n]
      BY <1>0, <1>3, <2>2, ArmEffect
    <3>2. \A t \in Sensor : assignments'[n][t] = assignments[n][t]
      BY <1>0, <1>3, <2>2, ArmEffect
    <3>3. targets[n] \subseteq Sensor
      BY <1>0 DEF TypeOK
    <3> QED
      BY <2>0, <3>1, <3>2, <3>3
  <2> QED
    BY <2>1, <2>2
<1>4. ASSUME NEW s \in Sensor, NextAssignment(s) PROVE StatusAgrees'
  <2>1. PICK m \in Mission :
          /\ assignments[m][s] \in {"pending", "leased"}
          /\ \A n \in Mission : status'[n] = IF n = m THEN "capturing" ELSE status[n]
          /\ \A n \in Mission, t \in Sensor :
               assignments'[n][t] = IF n = m /\ t = s THEN "leased" ELSE assignments[n][t]
    BY <1>0, <1>4, NextEffect
  <2>2. UNCHANGED targets /\ UNCHANGED artifacts
    BY <1>0, <1>4, NextEffect
  <2>3. s \in targets[m]
    BY <1>0, <2>1 DEF RecordInv, AssignmentsAgree
  <2>4. \A n \in Mission : targets[n] \subseteq Sensor
    BY <1>0 DEF TypeOK
  <2> SUFFICES ASSUME NEW n \in Mission PROVE StatusFits(n)'
    OBVIOUS
  <2>5. CASE n = m
    BY <2>1, <2>2, <2>3, <2>4, <2>5
  <2>6. CASE n # m
    <3>1. status'[n] = status[n] /\ \A t \in Sensor : assignments'[n][t] = assignments[n][t]
      BY <2>1, <2>6
    <3> QED
      BY <2>2, <2>4, <3>1
  <2> QED
    BY <2>5, <2>6
<1>5. ASSUME NEW m \in Mission, NEW s \in Sensor, NEW a \in Artifact, SubmitArtifact(m, s, a)
      PROVE  StatusAgrees'
  <2> SUFFICES ASSUME NEW n \in Mission PROVE StatusFits(n)'
    OBVIOUS
  <2>1. UNCHANGED targets /\ targets[n] \subseteq Sensor
    BY <1>0, <1>5, SubmitEffect DEF TypeOK
  <2>2. CASE n # m
    <3>1. /\ status'[n] = status[n]
          /\ \A t \in Sensor : assignments'[n][t] = assignments[n][t]
                              /\ artifacts'[n][t] = artifacts[n][t]
      BY <1>0, <1>5, <2>2, SubmitEffect
    <3> QED
      BY <2>1, <3>1
  <2>3. CASE n = m
    <3>1. /\ s \in targets[m] /\ assignments[m][s] \in {"leased", "submitted"}
          /\ assignments[m][s] # "submitted"
      BY <1>0, <1>5, SubmitEffect DEF Acceptable, RecordInv, EvidenceAgrees
    <3>2. assignments[m][s] = "leased" /\ status[m] = "capturing"
      <4>1. status[m] \in MissionStatus \cup {"absent"}
        BY <1>0 DEF TypeOK
      <4> QED
        BY <3>1, <4>1 DEF MissionStatus
    <3>3. \A t \in Sensor :
            assignments'[m][t] = IF t = s THEN "submitted" ELSE assignments[m][t]
      BY <1>0, <1>5, SubmitEffect
    <3>4. \A t \in Sensor : mission_artifacts'[m][t] = artifacts'[m][t]
      BY <1>0 DEF RecordInv, EvidenceAgrees
    <3>5. \A t \in Sensor : artifacts'[m][t] # None <=> assignments'[m][t] = "submitted"
      BY <1>0 DEF RecordInv, EvidenceAgrees
    <3>6. \A t \in Sensor : assignments'[m][t] = "submitted" => t \in targets[m]
      BY <1>0, <2>1, <2>3 DEF RecordInv, AssignmentsAgree
    <3>7. CASE AllIn(m)
      <4>1. status'[m] = Verdict(m)
        BY <1>0, <1>5, <3>7, SubmitEffect
      <4>2. CASE Verdict(m) = "complete"
        <5>1. \A t \in Sensor : artifacts'[m][t] \in CompleteArtifact \cup {None}
          BY <3>4, <4>2 DEF Verdict
        <5>2. \A t \in targets[m] : artifacts'[m][t] \in CompleteArtifact
          BY <2>1, <2>3, <3>5, <3>7, <5>1 DEF AllIn
        <5> QED
          BY <2>1, <2>3, <3>1, <3>3, <3>7, <4>1, <4>2, <5>2 DEF AllIn
      <4>3. CASE Verdict(m) = "partial"
        <5>1. PICK t \in Sensor : artifacts'[m][t] \notin CompleteArtifact \cup {None}
          BY <3>4, <4>3 DEF Verdict
        <5>2. t \in targets[m]
          BY <3>5, <3>6, <5>1
        <5> QED
          BY <2>1, <2>3, <3>1, <3>3, <3>7, <4>1, <4>3, <5>1, <5>2 DEF AllIn
      <4> QED
        BY <4>2, <4>3 DEF Verdict
    <3>8. CASE ~AllIn(m)
      <4>1. status'[m] = "capturing"
        BY <1>0, <1>5, <3>2, <3>8, SubmitEffect
      <4> QED
        BY <2>1, <2>3, <3>1, <3>3, <3>8, <4>1 DEF AllIn
    <3> QED
      BY <3>7, <3>8
  <2> QED
    BY <2>2, <2>3
<1>6. CASE UNCHANGED controlVars
  BY <1>1, <1>6 DEF controlVars
<1>7. CASE SetClock \/ \E s \in Sensor : RegisterSensor(s)
  BY <1>0, <1>1, <1>7, QuietEffect
<1> QED
  BY <1>0, <1>2, <1>3, <1>4, <1>5, <1>6, <1>7, Cases

\* The status a mission shows is the one its assignments and evidence imply.
THEOREM StatusIsConsistent == Spec => []StatusAgrees
<1>1. ControlInv => StatusAgrees
  BY DEF ControlInv
<1> QED
  BY <1>1, ControlInvInit, ControlInvStep, PTL DEF Spec

-----------------------------------------------------------------------------
\* A mission with all of its evidence has no assignment left to hand out, and
\* one that is being armed has none at all.
LEMMA FinishedIsIdle ==
  ASSUME ControlInv, NEW m \in Mission, status[m] \in {"complete", "partial"}, NEW s \in Sensor
  PROVE  assignments[m][s] \notin {"pending", "leased"}
<1>1. s \in targets[m] => assignments[m][s] = "submitted"
  BY DEF ControlInv, StatusAgrees, StatusFits, AllAre
<1>2. s \notin targets[m] => assignments[m][s] = "none"
  BY DEF ControlInv, RecordInv, AssignmentsAgree
<1> QED
  BY <1>1, <1>2

\* What EvidenceIsFinal asks of one step.
EvidenceStays ==
  \A m \in Mission :
    /\ \A s \in Sensor : artifacts[m][s] # None => artifacts'[m][s] = artifacts[m][s]
    /\ status[m] \in {"complete", "partial"} => status'[m] = status[m]

\* No handler call overwrites evidence or reopens a finished mission.
LEMMA EvidenceStaysStep == ControlInv /\ [Next]_controlVars => EvidenceStays
<1> SUFFICES ASSUME ControlInv, [Next]_controlVars PROVE EvidenceStays
  OBVIOUS
<1>0. TypeOK
  BY DEF ControlInv, RecordInv
<1> USE DEF EvidenceStays
<1>1. CASE UNCHANGED <<missionVars, artifacts>>
  BY <1>1 DEF missionVars
<1>2. ASSUME NEW m \in Mission, NEW sensors \in SUBSET Sensor, CreateMission(m, sensors)
      PROVE  EvidenceStays
  BY <1>0, <1>2, CreateEffect
<1>3. ASSUME NEW m \in Mission, ArmMission(m) PROVE EvidenceStays
  BY <1>0, <1>3, ArmEffect
<1>4. ASSUME NEW s \in Sensor, NextAssignment(s) PROVE EvidenceStays
  BY <1>0, <1>4, NextEffect, FinishedIsIdle
<1>5. ASSUME NEW m \in Mission, NEW s \in Sensor, NEW a \in Artifact, SubmitArtifact(m, s, a)
      PROVE  EvidenceStays
  <2>1. assignments[m][s] = "leased"
    BY <1>0, <1>5, SubmitEffect DEF Acceptable, ControlInv, RecordInv, EvidenceAgrees
  <2>2. status[m] \notin {"complete", "partial"}
    BY <2>1, FinishedIsIdle
  <2> QED
    BY <1>0, <1>5, <2>2, SubmitEffect
<1>6. CASE UNCHANGED controlVars
  BY <1>1, <1>6 DEF controlVars
<1>7. CASE SetClock \/ \E s \in Sensor : RegisterSensor(s)
  BY <1>0, <1>1, <1>7, QuietEffect
<1> QED
  BY <1>2, <1>3, <1>4, <1>5, <1>6, <1>7, Cases

\* Stored evidence is never replaced, and a mission that has all of it is never
\* reopened, whatever is polled, armed, submitted or repeated later.
THEOREM EvidenceStaysFinal == Spec => EvidenceIsFinal
<1>1. ControlInv /\ [Next]_controlVars => [EvidenceStays]_controlVars
  BY EvidenceStaysStep
<1> QED
  BY <1>1, ControlInvInit, ControlInvStep, PTL DEF Spec, EvidenceIsFinal, EvidenceStays

-----------------------------------------------------------------------------
\* A lease issued by a poll takes a generation no other lease has.
LEMMA GenerationsStep ==
  TypeOK /\ GenerationsAreUnique /\ [Next]_controlVars => GenerationsAreUnique'
<1> SUFFICES ASSUME TypeOK, GenerationsAreUnique, [Next]_controlVars
             PROVE  GenerationsAreUnique'
  OBVIOUS
<1>1. CASE UNCHANGED <<leases, generation>>
  BY <1>1 DEF GenerationsAreUnique
<1>2. ASSUME NEW s \in Sensor, NextAssignment(s) PROVE GenerationsAreUnique'
  <2>1. PICK m \in Mission :
          \A n \in Mission, t \in Sensor :
            leases'[n][t] = IF n = m /\ t = s THEN NewLease ELSE leases[n][t]
    BY <1>2, NextEffect
  <2>2. generation \in Nat /\ generation' = generation + 1
    BY <1>2, NextEffect DEF TypeOK
  <2>3. NewLease.generation = generation + 1
    BY DEF NewLease
  <2>4. \A n \in Mission, t \in Sensor :
          leases[n][t] # None => leases[n][t].generation \in 1..generation
    BY DEF GenerationsAreUnique
  <2>5. \A n \in Mission, t \in Sensor :
          leases'[n][t] # None => leases'[n][t].generation \in 1..generation'
    BY <2>1, <2>2, <2>3, <2>4
  <2>6. ASSUME NEW k \in Mission, NEW n \in Mission, NEW q \in Sensor, NEW t \in Sensor,
               leases'[k][q] # None, leases'[n][t] # None,
               leases'[k][q].generation = leases'[n][t].generation
        PROVE  k = n /\ q = t
    <3>1. CASE k = m /\ q = s
      <4>1. leases'[n][t].generation = generation + 1
        BY <2>1, <2>3, <2>6, <3>1
      <4>2. ~(n = m /\ t = s) => leases[n][t].generation \in 1..generation
        BY <2>1, <2>4, <2>6
      <4> QED
        BY <2>1, <2>2, <3>1, <4>1, <4>2
    <3>2. CASE n = m /\ t = s
      <4>1. leases'[k][q].generation = generation + 1
        BY <2>1, <2>3, <2>6, <3>2
      <4>2. ~(k = m /\ q = s) => leases[k][q].generation \in 1..generation
        BY <2>1, <2>4, <2>6
      <4> QED
        BY <2>1, <2>2, <3>2, <4>1, <4>2
    <3>3. CASE ~(k = m /\ q = s) /\ ~(n = m /\ t = s)
      <4>1. leases'[k][q] = leases[k][q] /\ leases'[n][t] = leases[n][t]
        BY <2>1, <3>3
      <4> QED
        BY <2>6, <4>1 DEF GenerationsAreUnique
    <3> QED
      BY <3>1, <3>2, <3>3
  <2> QED
    BY <2>5, <2>6 DEF GenerationsAreUnique
<1>3. (\E s \in Sensor : NextAssignment(s)) \/ UNCHANGED <<leases, generation>>
  BY Cases, QuietEffect, CreateEffect, ArmEffect, SubmitEffect DEF controlVars
<1> QED
  BY <1>1, <1>2, <1>3

\* A generation names one lease: no poll, of any sensor for any mission, is given
\* a number another assignment bears.
THEOREM GenerationsStayUnique == Spec => []GenerationsAreUnique
<1>1. Init => GenerationsAreUnique
  BY DEF Init, GenerationsAreUnique
<1> QED
  BY <1>1, TypeOKInit, TypeOKStep, GenerationsStep, PTL DEF Spec

\* What LeaseSupersededOnlyAtExpiry asks of one step.
LeaseOutlived ==
  \A m \in Mission, s \in Sensor :
    leases'[m][s] # leases[m][s] /\ leases[m][s] # None =>
      /\ leases[m][s].expires <= now
      /\ leases'[m][s] # None
      /\ leases'[m][s].generation > leases[m][s].generation

\* Only a poll changes a lease, and only one that is no longer in force.
LEMMA LeaseOutlivedStep ==
  TypeOK /\ GenerationsAreUnique /\ [Next]_controlVars => LeaseOutlived
<1> SUFFICES ASSUME TypeOK, GenerationsAreUnique, [Next]_controlVars,
                    NEW m \in Mission, NEW s \in Sensor,
                    leases'[m][s] # leases[m][s], leases[m][s] # None
             PROVE  /\ leases[m][s].expires <= now
                    /\ leases'[m][s] # None
                    /\ leases'[m][s].generation > leases[m][s].generation
  BY DEF LeaseOutlived
<1>1. PICK t \in Sensor : NextAssignment(t)
  BY Cases, QuietEffect, CreateEffect, ArmEffect, SubmitEffect DEF controlVars
<1>2. t = s /\ ~ActiveLease(m, s) /\ leases'[m][s] = NewLease
  BY <1>1, NextEffect
<1>3. leases[m][s] \in Lease /\ now \in Nat /\ generation \in Nat
  BY DEF TypeOK
<1>4. leases[m][s].expires \in Nat /\ leases[m][s].generation \in 1..generation
  BY <1>3 DEF Lease, GenerationsAreUnique
<1>5. NewLease # None /\ NewLease.generation = generation + 1
  BY <1>3, NoneAssumption, LeaseAssumption DEF NewLease, Lease
<1> QED
  BY <1>2, <1>3, <1>4, <1>5 DEF ActiveLease

\* A lease in force is never replaced, and what replaces it is newer.
THEOREM LeasesOutlived == Spec => LeaseSupersededOnlyAtExpiry
<1>1. Init => GenerationsAreUnique
  BY DEF Init, GenerationsAreUnique
<1>2. TypeOK /\ GenerationsAreUnique /\ [Next]_controlVars => [LeaseOutlived]_controlVars
  BY LeaseOutlivedStep
<1> QED
  BY <1>1, <1>2, TypeOKInit, TypeOKStep, GenerationsStep, PTL
     DEF Spec, LeaseSupersededOnlyAtExpiry, LeaseOutlived

-----------------------------------------------------------------------------
\* Only a poll and a submission change what is shown of a sensor, and only of
\* the sensor that made it; what is shown of another stays supported.
LEMMA SensorViewStep ==
  RecordInv /\ SensorViewAgrees /\ [Next]_controlVars => SensorViewAgrees'
<1> SUFFICES ASSUME RecordInv, SensorViewAgrees, [Next]_controlVars,
                    NEW t \in Sensor
             PROVE  LET m == active_mission'[t]
                    IN IF m = None THEN state'[t] = "ready"
                       ELSE CASE state'[t] = "capturing" -> assignments'[m][t] = "leased"
                              [] state'[t] = "evidence_received" ->
                                   artifacts'[m][t] \in CompleteArtifact
                              [] state'[t] = "degraded" ->
                                   artifacts'[m][t] \in Artifact \ CompleteArtifact
                              [] OTHER -> FALSE
  BY DEF SensorViewAgrees
<1> DEFINE shown == active_mission[t]
<1>0. /\ TypeOK
      /\ state \in [Sensor -> SensorState]
      /\ active_mission \in [Sensor -> Mission \cup {None}]
  BY DEF RecordInv, TypeOK
<1>1. /\ shown = None => state[t] = "ready"
      /\ shown # None =>
           /\ shown \in Mission
           /\ \/ state[t] = "capturing" /\ assignments[shown][t] = "leased"
              \/ state[t] = "evidence_received" /\ artifacts[shown][t] \in CompleteArtifact
              \/ state[t] = "degraded" /\ artifacts[shown][t] \in Artifact \ CompleteArtifact
  <2>1. LET m == active_mission[t]
        IN IF m = None THEN state[t] = "ready"
           ELSE CASE state[t] = "capturing" -> assignments[m][t] = "leased"
                  [] state[t] = "evidence_received" -> artifacts[m][t] \in CompleteArtifact
                  [] state[t] = "degraded" -> artifacts[m][t] \in Artifact \ CompleteArtifact
                  [] OTHER -> FALSE
    BY DEF SensorViewAgrees
  <2> QED
    BY <1>0, <2>1
\* The view of t is left alone, and so is what supports it.
<1>2. ASSUME state'[t] = state[t], active_mission'[t] = shown,
             shown # None =>
               /\ assignments[shown][t] = "leased" => assignments'[shown][t] = "leased"
               /\ artifacts[shown][t] # None => artifacts'[shown][t] = artifacts[shown][t]
      PROVE  LET m == active_mission'[t]
             IN IF m = None THEN state'[t] = "ready"
                ELSE CASE state'[t] = "capturing" -> assignments'[m][t] = "leased"
                       [] state'[t] = "evidence_received" ->
                            artifacts'[m][t] \in CompleteArtifact
                       [] state'[t] = "degraded" ->
                            artifacts'[m][t] \in Artifact \ CompleteArtifact
                       [] OTHER -> FALSE
  <2>1. artifacts[shown][t] \in Artifact => artifacts[shown][t] # None
    BY ArtifactAssumption
  <2>2. CASE shown = None
    BY <1>1, <1>2, <2>2
  <2>3. CASE state[t] = "capturing" /\ shown # None
    BY <1>1, <1>2, <2>3
  <2>4. CASE state[t] = "evidence_received" /\ shown # None
    BY <1>1, <1>2, <2>1, <2>4, ArtifactAssumption
  <2>5. CASE state[t] = "degraded" /\ shown # None
    BY <1>1, <1>2, <2>1, <2>5
  <2> QED
    BY <1>1, <2>2, <2>3, <2>4, <2>5
<1>3. ASSUME UNCHANGED <<state, active_mission, missionVars, artifacts>>
      PROVE  state'[t] = state[t] /\ active_mission'[t] = shown
             /\ assignments' = assignments /\ artifacts' = artifacts
  BY <1>3 DEF missionVars
<1>4. ASSUME NEW m \in Mission, NEW sensors \in SUBSET Sensor, CreateMission(m, sensors)
      PROVE  state'[t] = state[t] /\ active_mission'[t] = shown
             /\ assignments' = assignments /\ artifacts' = artifacts
  BY <1>4 DEF CreateMission, sensorVars
<1>5. ASSUME NEW m \in Mission, ArmMission(m)
      PROVE  /\ state'[t] = state[t] /\ active_mission'[t] = shown /\ artifacts' = artifacts
             /\ shown \in Mission /\ assignments[shown][t] = "leased"
                  => assignments'[shown][t] = "leased"
  <2>1. \A s \in Sensor : assignments[m][s] = "none"
    BY <1>5, <1>0, ArmEffect DEF RecordInv, AssignmentsAgree
  <2>2. state' = state /\ active_mission' = active_mission /\ artifacts' = artifacts
    BY <1>5 DEF ArmMission, sensorVars
  <2>3. \A n \in Mission, r \in Sensor :
          assignments[n][r] = "leased" => assignments'[n][r] = "leased"
    BY <1>0, <1>5, <2>1, ArmEffect
  <2> QED
    BY <2>2, <2>3
<1>6. ASSUME NEW s \in Sensor, NextAssignment(s)
      PROVE  \/ /\ state'[t] = state[t] /\ active_mission'[t] = shown /\ artifacts' = artifacts
                /\ shown \in Mission => assignments'[shown][t] = assignments[shown][t]
             \/ /\ active_mission'[t] \in Mission /\ state'[t] = "capturing"
                /\ assignments'[active_mission'[t]][t] = "leased"
  <2>1. PICK m \in Mission :
          /\ assignments' = [assignments EXCEPT ![m][s] = "leased"]
          /\ state' = [state EXCEPT ![s] = "capturing"]
          /\ active_mission' = [active_mission EXCEPT ![s] = m]
    BY <1>6 DEF NextAssignment
  <2>2. /\ assignments \in [Mission -> [Sensor -> AssignmentStatus \cup {"none"}]]
        /\ artifacts' = artifacts
    BY <1>0, <1>6 DEF TypeOK, NextAssignment
  <2>3. CASE t = s
    BY <1>0, <2>1, <2>2, <2>3
  <2>4. CASE t # s
    BY <1>0, <2>1, <2>2, <2>4
  <2> QED
    BY <2>3, <2>4
<1>7. ASSUME NEW m \in Mission, NEW s \in Sensor, NEW a \in Artifact, SubmitArtifact(m, s, a)
      PROVE  \/ /\ state'[t] = state[t] /\ active_mission'[t] = shown
                /\ shown \in Mission => /\ assignments'[shown][t] = assignments[shown][t]
                                        /\ artifacts'[shown][t] = artifacts[shown][t]
             \/ /\ active_mission'[t] \in Mission
                /\ artifacts'[active_mission'[t]][t] = a
                /\ state'[t] = IF a \in CompleteArtifact THEN "evidence_received"
                               ELSE "degraded"
  <2>1. /\ state' = [state EXCEPT ![s] = IF a \in CompleteArtifact THEN "evidence_received"
                                         ELSE "degraded"]
        /\ active_mission' = [active_mission EXCEPT ![s] = m]
    BY <1>7 DEF SubmitArtifact
  <2>2. \A n \in Mission, r \in Sensor :
          /\ artifacts'[n][r] = IF n = m /\ r = s THEN a ELSE artifacts[n][r]
          /\ assignments'[n][r] = IF n = m /\ r = s THEN "submitted" ELSE assignments[n][r]
    BY <1>0, <1>7, SubmitEffect
  <2>3. CASE t = s
    BY <1>0, <2>1, <2>2, <2>3
  <2>4. CASE t # s
    BY <1>0, <2>1, <2>2, <2>4
  <2> QED
    BY <2>3, <2>4
<1>8. CASE UNCHANGED controlVars
  BY <1>1, <1>2, <1>3, <1>8 DEF controlVars, sensorVars, missionVars
<1>9. CASE SetClock \/ \E s \in Sensor : RegisterSensor(s)
  <2>1. UNCHANGED <<state, active_mission, missionVars, artifacts>>
    BY <1>9 DEF SetClock, RegisterSensor, sensorVars
  <2> QED
    BY <1>1, <1>2, <1>3, <2>1
<1>10. CASE \E m \in Mission, sensors \in SUBSET Sensor : CreateMission(m, sensors)
  BY <1>1, <1>2, <1>4, <1>10
<1>11. CASE \E m \in Mission : ArmMission(m)
  BY <1>1, <1>2, <1>5, <1>11
<1>12. CASE \E s \in Sensor : NextAssignment(s)
  <2>1. active_mission'[t] \in Mission => active_mission'[t] # None
    BY MissionAssumption
  <2> QED
    BY <1>1, <1>2, <1>6, <1>12, <2>1
<1>13. CASE \E m \in Mission, s \in Sensor, a \in Artifact : SubmitArtifact(m, s, a)
  <2>1. active_mission'[t] \in Mission => active_mission'[t] # None
    BY MissionAssumption
  <2>2. PICK m \in Mission, s \in Sensor, a \in Artifact : SubmitArtifact(m, s, a)
    BY <1>13
  <2>3. CASE /\ state'[t] = state[t] /\ active_mission'[t] = shown
             /\ shown \in Mission => /\ assignments'[shown][t] = assignments[shown][t]
                                     /\ artifacts'[shown][t] = artifacts[shown][t]
    BY <1>1, <1>2, <2>3
  <2>4. CASE /\ active_mission'[t] \in Mission
             /\ artifacts'[active_mission'[t]][t] = a
             /\ state'[t] = IF a \in CompleteArtifact THEN "evidence_received" ELSE "degraded"
    BY <2>1, <2>4
  <2> QED
    BY <1>7, <2>2, <2>3, <2>4
<1> QED
  BY <1>8, <1>9, <1>10, <1>11, <1>12, <1>13, Cases

\* What the console shows of a sensor is what the sensor's active mission knows.
THEOREM SensorViewIsConsistent == Spec => []SensorViewAgrees
<1>1. Init => SensorViewAgrees
  BY DEF Init, SensorViewAgrees
<1> QED
  BY <1>1, RecordInvInit, RecordInvStep, SensorViewStep, PTL DEF Spec

-----------------------------------------------------------------------------
\* A poll moves a mission from armed to capturing, or leaves it capturing.
LEMMA PollAdvances ==
  ASSUME ControlInv, NEW s \in Sensor, NextAssignment(s)
  PROVE  [Lifecycle!Next]_(Lifecycle!vars)
<1>0. TypeOK
  BY DEF ControlInv, RecordInv
<1>1. PICK m \in Mission :
        /\ IsNext(m, s)
        /\ status' = [status EXCEPT ![m] = "capturing"]
  BY DEF NextAssignment
<1>2. assignments[m][s] \in {"pending", "leased"}
  BY <1>1 DEF IsNext, Waiting
<1>3. status[m] \in {"armed", "capturing"}
  <2>1. status[m] \notin {"absent", "draft"}
    BY <1>2 DEF ControlInv, RecordInv, AssignmentsAgree
  <2>2. status[m] \notin {"complete", "partial"}
    BY <1>2, FinishedIsIdle
  <2> QED
    BY <1>0, <2>1, <2>2 DEF TypeOK, MissionStatus
<1>4. UNCHANGED <<targets, artifacts>>
  BY DEF NextAssignment
<1>5. CASE status[m] = "armed"
  BY <1>1, <1>4, <1>5 DEF Lifecycle!Next, Lifecycle!Advance
<1>6. CASE status[m] = "capturing"
  <2>1. status' = status
    BY <1>0, <1>1, <1>6 DEF TypeOK
  <2> QED
    BY <1>4, <2>1 DEF Lifecycle!vars
<1> QED
  BY <1>3, <1>5, <1>6

\* A submission is a contribution, and the last one settles the mission.
LEMMA SubmitContributes ==
  ASSUME ControlInv, NEW m \in Mission, NEW s \in Sensor, NEW a \in Artifact,
         SubmitArtifact(m, s, a)
  PROVE  Lifecycle!Contribute(m, s, a)
<1> DEFINE given == {artifacts'[m][t] : t \in targets[m]}
           outcome == IF None \in given THEN "capturing"
                      ELSE IF given \subseteq CompleteArtifact THEN "complete"
                      ELSE "partial"
<1>0. TypeOK /\ RecordInv /\ RecordInv' /\ targets[m] \subseteq Sensor
  BY RecordInvStep DEF ControlInv, RecordInv, TypeOK, Next
<1>1. /\ s \in targets[m] /\ artifacts[m][s] = None
      /\ assignments[m][s] = "leased"
  BY <1>0, SubmitEffect DEF Acceptable, RecordInv, EvidenceAgrees
<1>2. status[m] = "capturing"
  <2>1. status[m] \notin {"absent", "draft"}
    BY <1>1 DEF ControlInv, RecordInv, AssignmentsAgree
  <2>2. status[m] \notin {"complete", "partial"}
    BY <1>1, FinishedIsIdle
  <2>3. status[m] # "armed"
    BY <1>1 DEF ControlInv, StatusAgrees, StatusFits, AllAre
  <2> QED
    BY <1>0, <2>1, <2>2, <2>3 DEF TypeOK, MissionStatus
<1>3. AllIn(m) <=> None \notin given
  BY <1>0 DEF AllIn, RecordInv, EvidenceAgrees
<1>4. /\ \A t \in Sensor : artifacts'[m][t] # None => t \in targets[m]
      /\ \A t \in Sensor : mission_artifacts'[m][t] = artifacts'[m][t]
  BY <1>0, SubmitEffect DEF RecordInv, EvidenceAgrees
<1>5. None \notin given => Verdict(m) = IF given \subseteq CompleteArtifact
                                         THEN "complete" ELSE "partial"
  <2>1. (\A t \in Sensor : artifacts'[m][t] \in CompleteArtifact \cup {None})
          <=> given \subseteq CompleteArtifact \cup {None}
    BY <1>0, <1>4
  <2> QED
    BY <1>4, <2>1 DEF Verdict
<1>6. status' = [status EXCEPT ![m] = outcome]
  <2>1. status' = IF AllIn(m) THEN [status EXCEPT ![m] = Verdict(m)] ELSE status
    BY DEF SubmitArtifact, AllIn, Verdict
  <2>2. CASE AllIn(m)
    BY <1>3, <1>5, <2>1, <2>2
  <2>3. CASE ~AllIn(m)
    <3>1. outcome = "capturing"
      BY <1>3, <2>3
    <3>2. status = [status EXCEPT ![m] = "capturing"]
      BY <1>0, <1>2 DEF TypeOK
    <3> QED
      BY <2>1, <2>3, <3>1, <3>2
  <2> QED
    BY <2>2, <2>3
<1>7. artifacts' = [artifacts EXCEPT ![m][s] = a] /\ UNCHANGED targets
  BY DEF SubmitArtifact
<1> QED
  BY <1>1, <1>2, <1>6, <1>7 DEF Lifecycle!Contribute

\* Every handler call is a step of the mission's life or leaves it alone.
LEMMA LifecycleStep == ControlInv /\ [Next]_controlVars => [Lifecycle!Next]_(Lifecycle!vars)
<1> SUFFICES ASSUME ControlInv, [Next]_controlVars
             PROVE  [Lifecycle!Next]_(Lifecycle!vars)
  OBVIOUS
<1>1. CASE UNCHANGED <<missionVars, artifacts>>
  BY <1>1 DEF missionVars, Lifecycle!vars
<1>2. ASSUME NEW m \in Mission, NEW sensors \in SUBSET Sensor, CreateMission(m, sensors)
      PROVE  Lifecycle!Next
  BY <1>2 DEF CreateMission, Lifecycle!Next, Lifecycle!Draft
<1>3. ASSUME NEW m \in Mission, ArmMission(m) PROVE Lifecycle!Next
  BY <1>3 DEF ArmMission, Lifecycle!Next, Lifecycle!Advance
<1>4. ASSUME NEW s \in Sensor, NextAssignment(s) PROVE [Lifecycle!Next]_(Lifecycle!vars)
  BY <1>4, PollAdvances
<1>5. ASSUME NEW m \in Mission, NEW s \in Sensor, NEW a \in Artifact, SubmitArtifact(m, s, a)
      PROVE  Lifecycle!Next
  BY <1>5, SubmitContributes DEF Lifecycle!Next
<1>6. CASE UNCHANGED controlVars
  BY <1>1, <1>6 DEF controlVars
<1>7. CASE SetClock \/ \E s \in Sensor : RegisterSensor(s)
  BY <1>1, <1>7, QuietEffect DEF ControlInv, RecordInv
<1> QED
  BY <1>2, <1>3, <1>4, <1>5, <1>6, <1>7, Cases

\* The control plane implements the mission lifecycle.
THEOREM Refinement == Spec => ImplementsLifecycle
<1>1. Init => Lifecycle!Init
  BY DEF Init, Lifecycle!Init
<1> QED
  BY <1>1, ControlInvInit, ControlInvStep, LifecycleStep, PTL
     DEF Spec, ImplementsLifecycle, Lifecycle!Spec

-----------------------------------------------------------------------------
\* An agent's protocol: a request in flight has no answer yet and belongs to
\* the state that sent it, or to the agent that died there.
InFlightAgrees(a) ==
  /\ request[a] # "none" => Heard(a, "none")
  /\ request[a] = "register" => agent[a] \in {"registering", "dead"}
  /\ request[a] = "poll" => agent[a] \in {"polling", "dead"}
  /\ request[a] = "upload" =>
       /\ agent[a] \in {"uploading", "dead"}
       /\ held[a] \in Assignment /\ file[a] \in Artifact

\* Generation g of m's assignment was given to s: the assignment was leased, and
\* its lease has g or a newer generation.
Given(m, s, g) ==
  /\ Acceptable(m, s)
  /\ leases[m][s] # None
  /\ g <= leases[m][s].generation

\* Whatever assignment an agent was answered, or holds, was given to its sensor.
GivenAgrees(a) ==
  /\ Heard(a, "assignment") =>
       Given(reply[a].assignment.mission, SensorOf[a], reply[a].assignment.generation)
  /\ held[a] # None => Given(held[a].mission, SensorOf[a], held[a].generation)
  /\ ~Heard(a, "rejected")

\* The answer to an upload is true from the moment the server gives it, and so
\* is the state in which the agent ends upon it.
OutcomeAgrees(a) ==
  LET stored == artifacts[held[a].mission][SensorOf[a]]
      ok == \/ agent[a] = "uploading" /\ Heard(a, "ok")
            \/ agent[a] = "done"
      conflict == \/ agent[a] = "uploading" /\ Heard(a, "conflict")
                  \/ agent[a] = "conflict"
  IN /\ ok => held[a] \in Assignment /\ file[a] \in Artifact /\ stored = file[a]
     /\ conflict => held[a] \in Assignment /\ stored # None /\ stored # file[a]

AgentInv(a) == InFlightAgrees(a) /\ GivenAgrees(a) /\ OutcomeAgrees(a)

\* An assignment with a lease was leased: a poll that finds a lease in force
\* answers with an assignment the sensor may submit to.
LeasesAgree ==
  \A m \in Mission, s \in Sensor :
    leases[m][s] # None => assignments[m][s] \in {"leased", "submitted"}

\* The inductive invariant of the fleet.
FleetInv ==
  /\ FleetTypeOK
  /\ ControlInv
  /\ GenerationsAreUnique
  /\ LeasesAgree
  /\ \A a \in Agent : AgentInv(a)

-----------------------------------------------------------------------------
\* What a control plane step cannot take back.

\* A handler call leaves a lease only with an assignment that was leased.
LEMMA LeasesAgreeStep == RecordInv /\ LeasesAgree /\ [Next]_controlVars => LeasesAgree'
<1> SUFFICES ASSUME RecordInv, LeasesAgree, [Next]_controlVars PROVE LeasesAgree'
  OBVIOUS
<1>0. TypeOK
  BY DEF RecordInv
<1> USE DEF LeasesAgree
<1>1. CASE UNCHANGED <<missionVars, leases>>
  BY <1>1 DEF missionVars
<1>2. ASSUME NEW m \in Mission, NEW sensors \in SUBSET Sensor, CreateMission(m, sensors)
      PROVE  LeasesAgree'
  BY <1>0, <1>2, CreateEffect
<1>3. ASSUME NEW m \in Mission, ArmMission(m) PROVE LeasesAgree'
  <2>1. \A s \in Sensor : leases[m][s] = None
    BY <1>0, <1>3, ArmEffect DEF RecordInv, AssignmentsAgree
  <2> QED
    BY <1>0, <1>3, <2>1, ArmEffect
<1>4. ASSUME NEW s \in Sensor, NextAssignment(s) PROVE LeasesAgree'
  BY <1>0, <1>4, NextEffect
<1>5. ASSUME NEW m \in Mission, NEW s \in Sensor, NEW a \in Artifact, SubmitArtifact(m, s, a)
      PROVE  LeasesAgree'
  BY <1>0, <1>5, SubmitEffect
<1>6. CASE UNCHANGED controlVars
  BY <1>1, <1>6 DEF controlVars
<1>7. CASE SetClock \/ \E s \in Sensor : RegisterSensor(s)
  BY <1>0, <1>1, <1>7, QuietEffect
<1> QED
  BY <1>2, <1>3, <1>4, <1>5, <1>6, <1>7, Cases

\* An assignment that a sensor may submit to stays one.
LEMMA AcceptableStays ==
  ASSUME RecordInv, [Next]_controlVars, NEW n \in Mission, NEW t \in Sensor, Acceptable(n, t)
  PROVE  Acceptable(n, t)'
<1>0. TypeOK
  BY DEF RecordInv
<1> USE DEF Acceptable
<1>1. CASE UNCHANGED missionVars
  BY <1>1 DEF missionVars
<1>2. ASSUME NEW m \in Mission, NEW sensors \in SUBSET Sensor, CreateMission(m, sensors)
      PROVE  Acceptable(n, t)'
  BY <1>0, <1>2, CreateEffect
<1>3. ASSUME NEW m \in Mission, ArmMission(m) PROVE Acceptable(n, t)'
  <2>1. m # n
    BY <1>0, <1>3, ArmEffect DEF RecordInv, AssignmentsAgree
  <2> QED
    BY <1>0, <1>3, <2>1, ArmEffect
<1>4. ASSUME NEW s \in Sensor, NextAssignment(s) PROVE Acceptable(n, t)'
  BY <1>0, <1>4, NextEffect
<1>5. ASSUME NEW m \in Mission, NEW s \in Sensor, NEW a \in Artifact, SubmitArtifact(m, s, a)
      PROVE  Acceptable(n, t)'
  <2>1. Verdict(m) # "absent"
    BY DEF Verdict
  <2> QED
    BY <1>0, <1>5, <2>1, SubmitEffect
<1>6. CASE UNCHANGED controlVars
  BY <1>1, <1>6 DEF controlVars
<1>7. CASE SetClock \/ \E s \in Sensor : RegisterSensor(s)
  BY <1>0, <1>1, <1>7, QuietEffect
<1> QED
  BY <1>2, <1>3, <1>4, <1>5, <1>6, <1>7, Cases

\* What was given stays given: a lease is replaced by newer ones only.
LEMMA GivenStays ==
  ASSUME FleetInv, [Next]_controlVars,
         NEW m \in Mission, NEW s \in Sensor, NEW g \in Nat, Given(m, s, g)
  PROVE  Given(m, s, g)'
<1>1. RecordInv /\ TypeOK /\ TypeOK' /\ LeaseOutlived
  BY TypeOKStep, LeaseOutlivedStep DEF FleetInv, ControlInv, RecordInv
<1>2. Acceptable(m, s)'
  BY <1>1, AcceptableStays DEF Given
<1>3. leases[m][s] # None /\ leases[m][s] \in Lease
  BY <1>1 DEF Given, TypeOK
<1>4. leases'[m][s] # None
  BY <1>1, <1>3 DEF LeaseOutlived
<1>5. leases'[m][s] \in Lease
  BY <1>1, <1>4 DEF TypeOK
<1>6. /\ leases[m][s].generation \in Nat /\ leases'[m][s].generation \in Nat
      /\ leases[m][s].generation <= leases'[m][s].generation
  BY <1>1, <1>3, <1>5 DEF LeaseOutlived, Lease
<1> QED
  BY <1>2, <1>4, <1>6 DEF Given

-----------------------------------------------------------------------------
\* What each step of an agent, and each answer, does to the agents' variables.

\* Agent b is where it was, with its request, its answer and its hands.
Untouched(b) ==
  /\ agent'[b] = agent[b]
  /\ request'[b] = request[b]
  /\ reply'[b] = reply[b]
  /\ held'[b] = held[b]
  /\ file'[b] = file[b]

AgentTypeOK ==
  /\ agent \in [Agent -> AgentStates]
  /\ request \in [Agent -> Requests]
  /\ reply \in [Agent -> Replies]
  /\ held \in [Agent -> Assignment \cup {None}]
  /\ file \in [Agent -> Artifact \cup {None}]

\* Sending a request moves one agent and clears the answer it had.
LEMMA SendEffect ==
  ASSUME AgentTypeOK, NEW a \in Agent, NEW from \in AgentStates, NEW to \in AgentStates,
         NEW kind \in Requests, Send(a, from, to, kind)
  PROVE  /\ agent' \in [Agent -> AgentStates]
         /\ request' \in [Agent -> Requests]
         /\ reply' \in [Agent -> Replies]
         /\ agent[a] = from
         /\ agent'[a] = to /\ request'[a] = kind /\ reply'[a] = Says("none")
         /\ \A b \in Agent \ {a} :
              agent'[b] = agent[b] /\ request'[b] = request[b] /\ reply'[b] = reply[b]
<1>1. Says("none") \in Replies
  BY DEF Says, Replies
<1> QED
  BY <1>1 DEF Send, AgentTypeOK

\* Answering touches one agent's request and reply.
LEMMA AnswerEffect ==
  ASSUME AgentTypeOK, NEW a \in Agent, NEW answer \in Replies, Answer(a, answer)
  PROVE  /\ AgentTypeOK'
         /\ request'[a] = "none" /\ reply'[a] = answer
         /\ UNCHANGED <<agent, held, file>>
         /\ \A b \in Agent \ {a} : Untouched(b)
<1>1. "none" \in Requests
  BY DEF Requests
<1> QED
  BY <1>1 DEF Answer, AgentTypeOK, Untouched

\* Going idle, finishing and dying move one agent and nothing else.
LEMMA MoveEffect ==
  ASSUME AgentTypeOK, NEW a \in Agent, NEW to \in AgentStates,
         agent' = [agent EXCEPT ![a] = to], UNCHANGED <<request, reply, held, file>>
  PROVE  /\ AgentTypeOK'
         /\ agent'[a] = to
         /\ \A b \in Agent \ {a} : Untouched(b)
BY DEF AgentTypeOK, Untouched

\* An upload takes the assignment from the answer and the artifact from the fixture.
LEMMA UploadEffect ==
  ASSUME AgentTypeOK, NEW a \in Agent, NEW content \in Artifact, Upload(a, content)
  PROVE  /\ AgentTypeOK'
         /\ Heard(a, "assignment") /\ reply[a].assignment \in Assignment
         /\ agent'[a] = "uploading" /\ request'[a] = "upload" /\ reply'[a] = Says("none")
         /\ held'[a] = reply[a].assignment /\ file'[a] = content
         /\ \A b \in Agent \ {a} : Untouched(b)
<1>1. Heard(a, "assignment") /\ Send(a, "polling", "uploading", "upload")
  BY DEF Upload
<1>2. reply[a].assignment \in Assignment
  BY <1>1 DEF AgentTypeOK, Replies, Heard
<1>3. /\ agent' \in [Agent -> AgentStates]
      /\ request' \in [Agent -> Requests]
      /\ reply' \in [Agent -> Replies]
      /\ agent'[a] = "uploading" /\ request'[a] = "upload" /\ reply'[a] = Says("none")
      /\ \A b \in Agent \ {a} :
           agent'[b] = agent[b] /\ request'[b] = request[b] /\ reply'[b] = reply[b]
  BY <1>1, SendEffect DEF AgentStates, Requests
<1>4. /\ held' = [held EXCEPT ![a] = reply[a].assignment]
      /\ file' = [file EXCEPT ![a] = content]
  BY DEF Upload
<1>5. /\ held' \in [Agent -> Assignment \cup {None}]
      /\ file' \in [Agent -> Artifact \cup {None}]
      /\ held'[a] = reply[a].assignment /\ file'[a] = content
      /\ \A b \in Agent \ {a} : held'[b] = held[b] /\ file'[b] = file[b]
  BY <1>2, <1>4 DEF AgentTypeOK
<1> QED
  BY <1>1, <1>2, <1>3, <1>5 DEF AgentTypeOK, Untouched

-----------------------------------------------------------------------------
\* The control plane under the fleet.

\* Every step of the fleet is one handler call or clock reading of the control
\* plane, or none.
LEMMA ControlMoves == FleetInv /\ [FleetNext]_vars => [Next]_controlVars
<1> SUFFICES ASSUME FleetInv, [FleetNext]_vars PROVE [Next]_controlVars
  OBVIOUS
<1>1. CASE UNCHANGED vars
  BY <1>1 DEF vars
<1>2. CASE Operate
  BY <1>2 DEF Operate
<1>3. ASSUME NEW a \in Agent, AgentStep(a) PROVE UNCHANGED controlVars
  BY <1>3 DEF AgentStep, Register, Poll, GoIdle, Upload, Finish, Die
<1>4. ASSUME NEW a \in Agent, Serve(a) PROVE [Next]_controlVars
  <2>0. SensorOf[a] \in Sensor
    BY AgentAssumption
  <2>1. CASE ServeRegister(a)
    BY <2>0, <2>1 DEF ServeRegister, Next
  <2>2. CASE ServePoll(a)
    BY <2>0, <2>2 DEF ServePoll, Next
  <2>3. CASE ServeUpload(a)
    <3>1. held[a].mission \in Mission /\ file[a] \in Artifact
      BY <2>3 DEF ServeUpload, FleetInv, AgentInv, InFlightAgrees, Assignment
    <3>2. UNCHANGED controlVars \/ SubmitArtifact(held[a].mission, SensorOf[a], file[a])
      BY <2>3 DEF ServeUpload
    <3> QED
      BY <2>0, <3>1, <3>2 DEF Next
  <2>4. CASE Lose(a)
    BY <2>4 DEF Lose
  <2> QED
    BY <1>4, <2>1, <2>2, <2>3, <2>4 DEF Serve
<1> QED
  BY <1>1, <1>2, <1>3, <1>4 DEF FleetNext

\* What control plane steps keep of an agent that takes no step itself.
LEMMA BystanderKeeps ==
  ASSUME FleetInv, [Next]_controlVars, NEW b \in Agent, Untouched(b)
  PROVE  AgentInv(b)'
<1>0. /\ AgentInv(b) /\ SensorOf[b] \in Sensor /\ FleetTypeOK /\ EvidenceStays
      /\ reply[b] \in Replies /\ held[b] \in Assignment \cup {None}
  BY AgentAssumption, EvidenceStaysStep DEF FleetInv, FleetTypeOK
<1>1. InFlightAgrees(b)'
  BY <1>0 DEF AgentInv, InFlightAgrees, Untouched, Heard
<1>2. Heard(b, "assignment") =>
        Given(reply[b].assignment.mission, SensorOf[b], reply[b].assignment.generation)'
  <2>1. SUFFICES ASSUME Heard(b, "assignment")
                 PROVE  Given(reply[b].assignment.mission, SensorOf[b],
                              reply[b].assignment.generation)'
    OBVIOUS
  <2>2. PICK m \in Mission, g \in Nat :
          reply[b].assignment.mission = m /\ reply[b].assignment.generation = g
    BY <1>0, <2>1 DEF Heard, Replies, Assignment
  <2>3. Given(m, SensorOf[b], g)'
    BY <1>0, <2>1, <2>2, GivenStays DEF AgentInv, GivenAgrees
  <2>4. reply'[b] = reply[b]
    BY DEF Untouched
  <2> QED
    BY <2>2, <2>3, <2>4
<1>3. held[b] # None => Given(held[b].mission, SensorOf[b], held[b].generation)'
  <2>1. SUFFICES ASSUME held[b] # None
                 PROVE  Given(held[b].mission, SensorOf[b], held[b].generation)'
    OBVIOUS
  <2>2. PICK m \in Mission, g \in Nat : held[b].mission = m /\ held[b].generation = g
    BY <1>0, <2>1 DEF Assignment
  <2>3. Given(m, SensorOf[b], g)'
    BY <1>0, <2>1, <2>2, GivenStays DEF AgentInv, GivenAgrees
  <2>4. held'[b] = held[b]
    BY DEF Untouched
  <2> QED
    BY <2>2, <2>3, <2>4
<1>4. GivenAgrees(b)'
  BY <1>0, <1>2, <1>3 DEF AgentInv, GivenAgrees, Untouched, Heard
<1>5. OutcomeAgrees(b)'
  <2>1. held[b] \in Assignment => held[b].mission \in Mission
    BY DEF Assignment
  <2>2. held[b] \in Assignment /\ artifacts[held[b].mission][SensorOf[b]] # None =>
          artifacts'[held[b].mission][SensorOf[b]] = artifacts[held[b].mission][SensorOf[b]]
    BY <1>0, <2>1 DEF EvidenceStays
  <2> QED
    BY <1>0, <2>2, ArtifactAssumption DEF AgentInv, OutcomeAgrees, Untouched, Heard
<1> QED
  BY <1>1, <1>4, <1>5 DEF AgentInv

\* The mission a poll serves is one, and once served its assignment is leased.
LEMMA PollAnswers ==
  ASSUME RecordInv, LeasesAgree, LeasesAgree', TypeOK', NEW s \in Sensor, NEW m \in Mission,
         IsNext(m, s),
         IF ActiveLease(m, s) THEN UNCHANGED controlVars ELSE NextAssignment(s)
  PROVE  /\ leases'[m][s] # None
         /\ assignments'[m][s] \in {"leased", "submitted"}
         /\ leases'[m][s].expires > now
<1>0. TypeOK
  BY DEF RecordInv
<1>1. CASE ActiveLease(m, s)
  <2>1. leases' = leases
    BY <1>1 DEF controlVars
  <2> QED
    BY <1>1, <2>1 DEF ActiveLease, LeasesAgree
<1>2. CASE ~ActiveLease(m, s)
  <2>1. PICK n \in Mission :
          /\ IsNext(n, s)
          /\ leases' = [leases EXCEPT ![n][s] = NewLease]
    BY <1>2 DEF NextAssignment
  <2>2. m <= n /\ n <= m
    BY <2>1 DEF IsNext
  <2>3. n = m
    BY <2>2, MissionAssumption
  <2>4. leases'[m][s] = NewLease
    BY <1>0, <2>1, <2>3 DEF TypeOK
  <2>5. NewLease # None /\ NewLease.expires > now
    <3>1. now \in Nat /\ generation \in Nat
      BY <1>0 DEF TypeOK
    <3> QED
      BY <3>1, LeaseAssumption, NoneAssumption DEF NewLease, Lease
  <2> QED
    BY <2>4, <2>5 DEF LeasesAgree
<1> QED
  BY <1>1, <1>2

\* Every answer the server gives, and every step the agent takes upon it, is true.
LEMMA FleetInvStep == FleetInv /\ [FleetNext]_vars => FleetInv'
<1> SUFFICES ASSUME FleetInv, [FleetNext]_vars PROVE FleetInv'
  OBVIOUS
<1>0. /\ [Next]_controlVars
      /\ RecordInv /\ TypeOK /\ AgentTypeOK /\ LeasesAgree
      /\ ControlInv' /\ TypeOK' /\ GenerationsAreUnique' /\ LeasesAgree'
  BY ControlMoves, ControlInvStep, TypeOKStep, GenerationsStep, LeasesAgreeStep
     DEF FleetInv, ControlInv, RecordInv, FleetTypeOK, AgentTypeOK
\* It is enough to look at the agent that acts, or that is answered.
<1>1. ASSUME AgentTypeOK', NEW a \in Agent, \A b \in Agent \ {a} : Untouched(b), AgentInv(a)'
      PROVE  FleetInv'
  <2>1. ASSUME NEW b \in Agent PROVE AgentInv(b)'
    <3>1. CASE b = a
      BY <1>1, <3>1
    <3>2. CASE b # a
      BY <1>0, <1>1, <3>2, BystanderKeeps
    <3> QED
      BY <3>1, <3>2
  <2> QED
    BY <1>0, <1>1, <2>1 DEF FleetInv, FleetTypeOK, AgentTypeOK
<1>2. ASSUME UNCHANGED agentVars PROVE FleetInv'
  <2>1. AgentTypeOK'
    BY <1>0, <1>2 DEF agentVars, AgentTypeOK
  <2>2. ASSUME NEW b \in Agent PROVE Untouched(b)
    BY <1>2 DEF agentVars, Untouched
  <2> QED
    BY <1>0, <2>1, <2>2, BystanderKeeps DEF FleetInv, FleetTypeOK, AgentTypeOK
\* What has been given to a and what is stored of it, when its hands are unchanged.
<1>3. ASSUME NEW a \in Agent, UNCHANGED <<held, file>>
      PROVE  /\ held'[a] # None => Given(held[a].mission, SensorOf[a], held[a].generation)'
             /\ held[a] \in Assignment /\ artifacts[held[a].mission][SensorOf[a]] # None =>
                  artifacts'[held[a].mission][SensorOf[a]]
                    = artifacts[held[a].mission][SensorOf[a]]
  <2>0. AgentInv(a) /\ SensorOf[a] \in Sensor /\ held[a] \in Assignment \cup {None}
    BY <1>0, AgentAssumption DEF FleetInv, AgentTypeOK
  <2>1. EvidenceStays
    BY <1>0, EvidenceStaysStep DEF FleetInv
  <2>2. held[a] \in Assignment => held[a].mission \in Mission /\ held[a].generation \in Nat
    BY DEF Assignment
  <2>3. ASSUME held'[a] # None
        PROVE  Given(held[a].mission, SensorOf[a], held[a].generation)'
    <3>1. PICK m \in Mission, g \in Nat : held[a].mission = m /\ held[a].generation = g
      BY <1>3, <2>0, <2>2, <2>3
    <3>2. Given(m, SensorOf[a], g)'
      BY <1>0, <1>3, <2>0, <2>3, <3>1, GivenStays DEF AgentInv, GivenAgrees
    <3>3. held' = held
      BY <1>3
    <3> QED
      BY <3>1, <3>2, <3>3
  <2> QED
    BY <2>0, <2>1, <2>2, <2>3 DEF EvidenceStays
<1>4. ASSUME NEW a \in Agent, Register(a) \/ Poll(a) PROVE FleetInv'
  <2>1. PICK from \in AgentStates, to \in {"registering", "polling"},
             kind \in {"register", "poll"} :
          /\ Send(a, from, to, kind)
          /\ \/ to = "registering" /\ kind = "register"
             \/ to = "polling" /\ kind = "poll"
    BY <1>4 DEF Register, Poll, AgentStates
  <2>2. UNCHANGED <<held, file>>
    BY <1>4 DEF Register, Poll
  <2>3. /\ AgentTypeOK'
        /\ agent'[a] = to /\ request'[a] = kind /\ reply'[a] = Says("none")
        /\ \A b \in Agent \ {a} : Untouched(b)
    <3>1. to \in AgentStates /\ kind \in Requests
      BY DEF AgentStates, Requests
    <3> QED
      BY <1>0, <2>1, <2>2, <3>1, SendEffect DEF AgentTypeOK, Untouched
  <2>4. InFlightAgrees(a)'
    BY <2>1, <2>3 DEF InFlightAgrees, Heard, Says
  <2>5. GivenAgrees(a)'
    BY <1>3, <2>2, <2>3 DEF GivenAgrees, Heard, Says
  <2>6. OutcomeAgrees(a)'
    BY <2>3 DEF OutcomeAgrees
  <2> QED
    BY <1>1, <2>3, <2>4, <2>5, <2>6 DEF AgentInv
<1>5. ASSUME NEW a \in Agent, NEW to \in {"idle", "dead"},
             agent' = [agent EXCEPT ![a] = to], UNCHANGED <<request, reply, held, file>>,
             to = "idle" => Heard(a, "nothing")
      PROVE  FleetInv'
  <2>1. to \in AgentStates /\ AgentInv(a)
    BY DEF AgentStates, FleetInv
  <2>2. AgentTypeOK' /\ agent'[a] = to /\ \A b \in Agent \ {a} : Untouched(b)
    BY <1>0, <1>5, <2>1, MoveEffect
  <2>3. InFlightAgrees(a)'
    BY <1>5, <2>1, <2>2 DEF AgentInv, InFlightAgrees, Heard
  <2>4. GivenAgrees(a)'
    <3>1. Heard(a, "assignment") =>
            Given(reply[a].assignment.mission, SensorOf[a], reply[a].assignment.generation)'
      <4>1. SUFFICES ASSUME Heard(a, "assignment")
                     PROVE  Given(reply[a].assignment.mission, SensorOf[a],
                                  reply[a].assignment.generation)'
        OBVIOUS
      <4>2. PICK m \in Mission, g \in Nat :
              reply[a].assignment.mission = m /\ reply[a].assignment.generation = g
        BY <1>0, <4>1 DEF AgentTypeOK, Heard, Replies, Assignment
      <4>3. Given(m, SensorOf[a], g)'
        BY <1>0, <2>1, <4>1, <4>2, GivenStays, AgentAssumption DEF AgentInv, GivenAgrees
      <4> QED
        BY <1>5, <4>2, <4>3
    <3> QED
      BY <1>3, <1>5, <2>1, <3>1 DEF AgentInv, GivenAgrees, Heard
  <2>5. OutcomeAgrees(a)'
    BY <2>2 DEF OutcomeAgrees
  <2> QED
    BY <1>1, <2>2, <2>3, <2>4, <2>5 DEF AgentInv
<1>6. ASSUME NEW a \in Agent, Finish(a) PROVE FleetInv'
  <2> DEFINE to == IF Heard(a, "ok") THEN "done" ELSE "conflict"
  <2>1. /\ agent' = [agent EXCEPT ![a] = to]
        /\ UNCHANGED <<controlVars, request, reply, held, file>>
    BY <1>6 DEF Finish
  <2>a. agent[a] = "uploading" /\ (Heard(a, "ok") \/ Heard(a, "conflict"))
    BY <1>6 DEF Finish
  <2>2. to \in AgentStates /\ AgentInv(a)
    BY DEF AgentStates, FleetInv
  <2>3. AgentTypeOK' /\ agent'[a] = to /\ \A b \in Agent \ {a} : Untouched(b)
    BY <1>0, <2>1, <2>2, MoveEffect
  <2>4. request[a] = "none" /\ request'[a] = "none"
    BY <1>0, <2>1, <2>a, <2>2 DEF AgentInv, InFlightAgrees, Heard, AgentTypeOK, Requests
  <2>5. InFlightAgrees(a)'
    BY <2>4 DEF InFlightAgrees
  <2>6. GivenAgrees(a)'
    BY <1>3, <2>1, <2>a, <2>2 DEF AgentInv, GivenAgrees, Heard
  <2>7. OutcomeAgrees(a)'
    <3>1. UNCHANGED artifacts
      BY <2>1 DEF controlVars
    <3> QED
      BY <2>1, <2>a, <2>2, <2>3, <3>1 DEF AgentInv, OutcomeAgrees, Heard
  <2> QED
    BY <1>1, <2>3, <2>5, <2>6, <2>7 DEF AgentInv
<1>7. ASSUME NEW a \in Agent, NEW content \in Artifact, Upload(a, content) PROVE FleetInv'
  <2>1. /\ AgentTypeOK'
        /\ Heard(a, "assignment") /\ reply[a].assignment \in Assignment
        /\ agent'[a] = "uploading" /\ request'[a] = "upload" /\ reply'[a] = Says("none")
        /\ held'[a] = reply[a].assignment /\ file'[a] = content
        /\ \A b \in Agent \ {a} : Untouched(b)
    BY <1>0, <1>7, UploadEffect
  <2>2. InFlightAgrees(a)'
    BY <2>1 DEF InFlightAgrees, Heard, Says
  <2>3. GivenAgrees(a)'
    <3>1. PICK m \in Mission, g \in Nat :
            reply[a].assignment.mission = m /\ reply[a].assignment.generation = g
      BY <2>1 DEF Assignment
    <3>2. Given(m, SensorOf[a], g)'
      BY <1>0, <2>1, <3>1, GivenStays, AgentAssumption DEF FleetInv, AgentInv, GivenAgrees
    <3>3. Given(held[a].mission, SensorOf[a], held[a].generation)'
      BY <2>1, <3>1, <3>2
    <3> QED
      BY <2>1, <3>3 DEF GivenAgrees, Heard, Says
  <2>4. OutcomeAgrees(a)'
    BY <2>1 DEF OutcomeAgrees, Heard, Says
  <2> QED
    BY <1>1, <2>1, <2>2, <2>3, <2>4 DEF AgentInv
\* An answer that is neither an assignment nor a rejection.
<1>8. ASSUME NEW a \in Agent, NEW kind \in {"none", "ok", "nothing", "conflict"},
             Answer(a, Says(kind)),
             agent[a] # "uploading" \/ kind \notin {"ok", "conflict"}
      PROVE  FleetInv'
  <2>0. Says(kind) \in Replies /\ AgentInv(a)
    BY DEF Says, Replies, FleetInv
  <2>1. /\ AgentTypeOK' /\ request'[a] = "none" /\ reply'[a] = Says(kind)
        /\ UNCHANGED <<agent, held, file>> /\ \A b \in Agent \ {a} : Untouched(b)
    BY <1>0, <1>8, <2>0, AnswerEffect
  <2>2. InFlightAgrees(a)'
    BY <2>1 DEF InFlightAgrees
  <2>3. GivenAgrees(a)'
    BY <1>3, <2>1 DEF GivenAgrees, Heard, Says
  <2>4. OutcomeAgrees(a)'
    BY <1>3, <1>8, <2>0, <2>1, ArtifactAssumption
       DEF AgentInv, OutcomeAgrees, Heard, Says
  <2> QED
    BY <1>1, <2>1, <2>2, <2>3, <2>4 DEF AgentInv
<1>9. ASSUME NEW a \in Agent, ServeRegister(a) PROVE FleetInv'
  <2>1. agent[a] # "uploading" /\ Answer(a, Says("ok"))
    BY <1>9 DEF ServeRegister, FleetInv, AgentInv, InFlightAgrees
  <2> QED
    BY <1>8, <2>1
<1>10. ASSUME NEW a \in Agent, Lose(a) PROVE FleetInv'
  BY <1>8, <1>10 DEF Lose
<1>11. ASSUME NEW a \in Agent, ServePoll(a) PROVE FleetInv'
  <2>1. CASE Answer(a, Says("nothing"))
    BY <1>8, <2>1
  <2> DEFINE s == SensorOf[a]
  <2>2. CASE \E m \in Mission :
               /\ IsNext(m, s)
               /\ IF ActiveLease(m, s) THEN UNCHANGED controlVars ELSE NextAssignment(s)
               /\ Answer(a, [kind |-> "assignment",
                            assignment |-> [mission |-> m,
                                            generation |-> leases'[m][s].generation]])
    <3>1. PICK m \in Mission :
            /\ IsNext(m, s)
            /\ IF ActiveLease(m, s) THEN UNCHANGED controlVars ELSE NextAssignment(s)
            /\ Answer(a, [kind |-> "assignment",
                         assignment |-> [mission |-> m,
                                         generation |-> leases'[m][s].generation]])
      BY <2>2
    <3>2. s \in Sensor
      BY AgentAssumption
    <3>3. leases'[m][s] # None /\ assignments'[m][s] \in {"leased", "submitted"}
      BY <1>0, <3>1, <3>2, PollAnswers
    <3>4. Acceptable(m, s)'
      <4>1. s \in targets'[m] /\ status'[m] # "absent"
        BY <1>0, <3>2, <3>3 DEF ControlInv, RecordInv, AssignmentsAgree
      <4> QED
        BY <3>3, <4>1 DEF Acceptable
    <3>5. leases'[m][s] \in Lease
      BY <1>0, <3>2, <3>3 DEF TypeOK
    <3>6. PICK g \in Nat : g = leases'[m][s].generation
      BY <3>5 DEF Lease
    <3> DEFINE answer == [kind |-> "assignment", assignment |-> [mission |-> m, generation |-> g]]
    <3>7. answer \in Replies
      BY DEF Replies, Assignment
    <3>8. /\ AgentTypeOK' /\ request'[a] = "none" /\ reply'[a] = answer
          /\ UNCHANGED <<agent, held, file>> /\ \A b \in Agent \ {a} : Untouched(b)
      BY <1>0, <3>1, <3>6, <3>7, AnswerEffect
    <3>9. Given(m, s, g)'
      BY <3>3, <3>4, <3>6 DEF Given
    <3>10. /\ reply'[a].assignment.mission = m /\ reply'[a].assignment.generation = g
           /\ reply'[a].kind = "assignment"
      BY <3>8
    <3>11. GivenAgrees(a)'
      BY <1>3, <3>8, <3>9, <3>10 DEF GivenAgrees, Heard
    <3>12. InFlightAgrees(a)'
      BY <3>8 DEF InFlightAgrees
    <3>13. OutcomeAgrees(a)'
      BY <1>3, <3>8, <3>10, ArtifactAssumption DEF FleetInv, AgentInv, OutcomeAgrees, Heard
    <3> QED
      BY <1>1, <3>8, <3>11, <3>12, <3>13 DEF AgentInv
  <2> QED
    BY <1>11, <2>1, <2>2 DEF ServePoll
<1>12. ASSUME NEW a \in Agent, ServeUpload(a) PROVE FleetInv'
  <2> DEFINE s == SensorOf[a]
             m == held[a].mission
  <2>1. /\ AgentInv(a) /\ request[a] = "upload" /\ s \in Sensor
        /\ held[a] \in Assignment /\ file[a] \in Artifact
        /\ agent[a] \in {"uploading", "dead"}
    BY <1>12, AgentAssumption DEF FleetInv, AgentInv, InFlightAgrees, ServeUpload
  <2>2. m \in Mission /\ file[a] # None
    BY <2>1, ArtifactAssumption DEF Assignment
  <2>3. Acceptable(m, s) \/ held[a] = None
    BY <2>1 DEF AgentInv, GivenAgrees, Given
  <2>4. ASSUME NEW kind \in {"ok", "conflict"}, Answer(a, Says(kind)),
               kind = "ok" => artifacts'[m][s] = file[a],
               kind = "conflict" => artifacts'[m][s] # None /\ artifacts'[m][s] # file[a]
        PROVE  FleetInv'
    <3>0. Says(kind) \in Replies
      BY DEF Says, Replies
    <3>1. /\ AgentTypeOK' /\ request'[a] = "none" /\ reply'[a] = Says(kind)
          /\ UNCHANGED <<agent, held, file>> /\ \A b \in Agent \ {a} : Untouched(b)
      BY <1>0, <2>4, <3>0, AnswerEffect
    <3>2. InFlightAgrees(a)'
      BY <3>1 DEF InFlightAgrees
    <3>3. GivenAgrees(a)'
      BY <1>3, <3>1 DEF GivenAgrees, Heard, Says
    <3>4. OutcomeAgrees(a)'
      BY <2>1, <2>4, <3>1 DEF OutcomeAgrees, Heard, Says
    <3> QED
      BY <1>1, <3>1, <3>2, <3>3, <3>4 DEF AgentInv
  <2>5. CASE ~Acceptable(m, s) /\ Answer(a, Says("rejected"))
    BY <2>1, <2>3, <2>5, NoAssignmentAssumption
  <2>6. CASE /\ artifacts[m][s] # None
             /\ Answer(a, Says(IF artifacts[m][s] = file[a] THEN "ok" ELSE "conflict"))
             /\ UNCHANGED controlVars
    <3>1. UNCHANGED artifacts
      BY <2>6 DEF controlVars
    <3>2. CASE artifacts[m][s] = file[a]
      BY <2>4, <2>6, <3>1, <3>2
    <3>3. CASE artifacts[m][s] # file[a]
      BY <2>4, <2>6, <3>1, <3>3
    <3> QED
      BY <3>2, <3>3
  <2>7. CASE SubmitArtifact(m, s, file[a]) /\ Answer(a, Says("ok"))
    <3>1. artifacts'[m][s] = file[a]
      BY <1>0, <2>1, <2>2, <2>7, SubmitEffect
    <3> QED
      BY <2>4, <2>7, <3>1
  <2> QED
    BY <1>12, <2>5, <2>6, <2>7 DEF ServeUpload
<1>13. ASSUME NEW a \in Agent, GoIdle(a) \/ Die(a) PROVE FleetInv'
  BY <1>5, <1>13 DEF GoIdle, Die
<1>14. CASE UNCHANGED vars
  BY <1>2, <1>14 DEF vars
<1>15. CASE Operate
  BY <1>2, <1>15 DEF Operate
<1> QED
  BY <1>4, <1>6, <1>7, <1>9, <1>10, <1>11, <1>12, <1>13, <1>14, <1>15
     DEF FleetNext, AgentStep, Serve

\* The empty fleet satisfies the invariant.
LEMMA FleetInvInit == FleetInit => FleetInv
<1> SUFFICES ASSUME FleetInit PROVE FleetInv
  OBVIOUS
<1>1. FleetTypeOK /\ ControlInv /\ GenerationsAreUnique /\ LeasesAgree
  <2>1. Init /\ Says("none") \in Replies /\ "start" \in AgentStates /\ "none" \in Requests
    BY DEF FleetInit, Says, Replies, AgentStates, Requests
  <2>2. GenerationsAreUnique /\ LeasesAgree
    BY <2>1 DEF Init, GenerationsAreUnique, LeasesAgree
  <2> QED
    BY <2>1, <2>2, ControlInvInit, TypeOKInit DEF FleetInit, FleetTypeOK
<1>2. ASSUME NEW a \in Agent PROVE AgentInv(a)
  <2>1. /\ agent[a] = "start" /\ request[a] = "none" /\ reply[a].kind = "none"
        /\ held[a] = None
    BY DEF FleetInit, Says
  <2> QED
    BY <2>1 DEF AgentInv, InFlightAgrees, GivenAgrees, OutcomeAgrees, Heard
<1> QED
  BY <1>1, <1>2 DEF FleetInv

\* Agents, requests, answers and the control plane's records keep their types.
THEOREM FleetTypeCorrect == FleetSpec => []FleetTypeOK
<1>1. FleetInv => FleetTypeOK
  BY DEF FleetInv
<1> QED
  BY <1>1, FleetInvInit, FleetInvStep, PTL DEF FleetSpec

\* A fleet is a run of the control plane, so everything shown of the control
\* plane under arbitrary callers holds with agents that race, die and are lost.
THEOREM FleetRunsControl == FleetSpec => Spec
<1>1. FleetInit => Init
  BY DEF FleetInit
<1> QED
  BY <1>1, FleetInvInit, FleetInvStep, ControlMoves, PTL DEF FleetSpec, Spec

\* What an agent was told of its upload is true, and stays true.
THEOREM OutcomesStayTrue == FleetSpec => []UploadOutcomeIsTrue
<1>1. FleetInv => UploadOutcomeIsTrue
  BY DEF FleetInv, AgentInv, OutcomeAgrees, UploadOutcomeIsTrue
<1> QED
  BY <1>1, FleetInvInit, FleetInvStep, PTL DEF FleetSpec

\* An assignment once given is never answered with a rejection, however late the
\* upload comes and whatever became of the lease.
THEOREM AssignmentsStayGood == FleetSpec => []HeldAssignmentStaysAcceptable
<1>1. FleetInv => HeldAssignmentStaysAcceptable
  BY DEF FleetInv, AgentInv, GivenAgrees, Given, HeldAssignmentStaysAcceptable
<1> QED
  BY <1>1, FleetInvInit, FleetInvStep, PTL DEF FleetSpec

-----------------------------------------------------------------------------
\* What GenerationsGoForward asks of one step.
GivenForward ==
  \A a, b \in Agent :
    LET given == reply'[a].assignment
    IN /\ reply'[a] # reply[a]
       /\ reply'[a].kind = "assignment"
       /\ held[b] # None
       /\ SensorOf[b] = SensorOf[a]
       /\ held[b].mission = given.mission
       => /\ held[b].generation <= given.generation
          /\ leases'[given.mission][SensorOf[a]].generation = given.generation
          /\ leases'[given.mission][SensorOf[a]].expires > now

\* Only a poll answers with an assignment.
LEMMA OnlyPollsGive ==
  ASSUME FleetInv, [FleetNext]_vars, NEW a \in Agent,
         reply'[a] # reply[a], reply'[a].kind = "assignment"
  PROVE  ServePoll(a)
<1>0. AgentTypeOK
  BY DEF FleetInv, FleetTypeOK, AgentTypeOK
<1>1. PICK b \in Agent : AgentStep(b) \/ Serve(b)
  BY DEF FleetNext, Operate, vars, agentVars
<1>2. ASSUME NEW kind, reply' = [reply EXCEPT ![b] = Says(kind)], kind # "assignment"
      PROVE  FALSE
  <2>1. reply'[a] = IF a = b THEN Says(kind) ELSE reply[a]
    BY <1>0, <1>2 DEF AgentTypeOK
  <2> QED
    BY <1>2, <2>1 DEF Says
<1>3. ~AgentStep(b)
  <2>1. reply' # reply
    OBVIOUS
  <2>2. ~(GoIdle(b) \/ Finish(b) \/ Die(b))
    BY <2>1 DEF GoIdle, Finish, Die
  <2>3. ~(Register(b) \/ Poll(b) \/ \E content \in Artifact : Upload(b, content))
    BY <1>2 DEF Register, Poll, Upload, Send
  <2> QED
    BY <2>2, <2>3 DEF AgentStep
<1>4. ~(ServeRegister(b) \/ Lose(b))
  BY <1>2 DEF ServeRegister, Lose, Answer
<1>5. ~ServeUpload(b)
  BY <1>2 DEF ServeUpload, Answer
<1>6. ServePoll(b)
  BY <1>1, <1>3, <1>4, <1>5 DEF Serve
<1>7. PICK answer : reply' = [reply EXCEPT ![b] = answer]
  BY <1>6 DEF ServePoll, Answer
<1>8. a = b
  BY <1>0, <1>7 DEF AgentTypeOK
<1> QED
  BY <1>6, <1>8

\* A poll answers with the newest lease of the mission it serves, which is in force.
LEMMA GivenForwardStep == FleetInv /\ [FleetNext]_vars => GivenForward
<1> SUFFICES ASSUME FleetInv, [FleetNext]_vars, NEW a \in Agent, NEW b \in Agent,
                    reply'[a] # reply[a], reply'[a].kind = "assignment",
                    held[b] # None, SensorOf[b] = SensorOf[a],
                    held[b].mission = reply'[a].assignment.mission
             PROVE  LET given == reply'[a].assignment
                    IN /\ held[b].generation <= given.generation
                       /\ leases'[given.mission][SensorOf[a]].generation = given.generation
                       /\ leases'[given.mission][SensorOf[a]].expires > now
  BY DEF GivenForward
<1> DEFINE s == SensorOf[a]
<1>0. /\ [Next]_controlVars
      /\ RecordInv /\ TypeOK /\ TypeOK' /\ LeasesAgree /\ LeasesAgree'
      /\ AgentTypeOK /\ s \in Sensor /\ LeaseOutlived
  BY ControlMoves, TypeOKStep, LeasesAgreeStep, LeaseOutlivedStep, AgentAssumption
     DEF FleetInv, ControlInv, RecordInv, FleetTypeOK, AgentTypeOK
<1>1. ServePoll(a)
  BY OnlyPollsGive
<1>2. ~Answer(a, Says("nothing"))
  <2>1. SUFFICES ASSUME Answer(a, Says("nothing")) PROVE FALSE
    OBVIOUS
  <2>2. reply'[a] = Says("nothing")
    BY <1>0, <2>1 DEF Answer, AgentTypeOK
  <2> QED
    BY <2>2 DEF Says
<1>3. PICK m \in Mission :
        /\ IsNext(m, s)
        /\ IF ActiveLease(m, s) THEN UNCHANGED controlVars ELSE NextAssignment(s)
        /\ Answer(a, [kind |-> "assignment",
                     assignment |-> [mission |-> m,
                                     generation |-> leases'[m][s].generation]])
  BY <1>1, <1>2 DEF ServePoll
<1>4. /\ reply'[a].assignment.mission = m
      /\ reply'[a].assignment.generation = leases'[m][s].generation
  BY <1>0, <1>3 DEF Answer, AgentTypeOK
<1>5. leases'[m][s] # None /\ leases'[m][s].expires > now
  BY <1>0, <1>3, PollAnswers
<1>6. held[b].generation <= leases'[m][s].generation
  <2>1. Given(m, s, held[b].generation) /\ held[b].generation \in Nat
    BY <1>0, <1>4 DEF FleetInv, AgentInv, GivenAgrees, AgentTypeOK, Assignment
  <2>2. PICK g \in Nat : g = held[b].generation
    BY <2>1
  <2>3. Given(m, s, g)'
    BY <1>0, <2>1, <2>2, GivenStays
  <2> QED
    BY <2>2, <2>3 DEF Given
<1> QED
  BY <1>4, <1>5, <1>6

\* Generations order the assignments of a mission: no poll hands out an older
\* one than another agent of that sensor holds, nor one whose lease is over.
THEOREM GenerationsStayForward == FleetSpec => GenerationsGoForward
<1>1. FleetInv /\ [FleetNext]_vars => [GivenForward]_vars
  BY GivenForwardStep
<1> QED
  BY <1>1, FleetInvInit, FleetInvStep, PTL DEF FleetSpec, GenerationsGoForward, GivenForward
=============================================================================
