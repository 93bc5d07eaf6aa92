----------------------------- MODULE ArcControl -----------------------------
(***************************************************************************)
(* The control plane of skbx Arc.  Every HTTP handler takes the write lock *)
(* for its whole body and reads the wall clock inside it, so each handler  *)
(* is one atomic action; any client may call any handler at any time.      *)
(* Requests that are rejected, and repeats that only repeat an answer,     *)
(* change nothing and are stuttering steps here.                           *)
(*                                                                         *)
(* Mission identifiers are naturals: the code scans missions in the order  *)
(* of their identifiers.  Left out: display data (names, last_seen,        *)
(* created, selected_mission) and the plan, which never changes after      *)
(* creation.  The state is in memory and ends with the process.            *)
(***************************************************************************)
EXTENDS Naturals, FiniteSets

CONSTANTS
  Sensor,            \* sensor identifiers
  Mission,           \* mission identifiers, in BTreeMap order
  Artifact,          \* traceq artifacts within the plan's limits that replay
  CompleteArtifact,  \* those whose footer is complete
  None,              \* no artifact, no lease, no active mission
  LeaseDuration,     \* LEASE_DURATION_NS, in clock ticks
  MaxClock,          \* bound: readings of the wall clock
  MaxGeneration      \* bound: leases issued

ASSUME MissionAssumption == Mission \subseteq Nat /\ None \notin Mission
ASSUME ArtifactAssumption == CompleteArtifact \subseteq Artifact /\ None \notin Artifact
ASSUME LeaseAssumption ==
  /\ LeaseDuration \in Nat \ {0}
  /\ MaxClock \in Nat
  /\ MaxGeneration \in Nat

Lease == [generation : Nat, expires : Nat]

ASSUME NoneAssumption == None \notin Lease

VARIABLES
  now,                \* the wall clock, which an administrator may set back
  registered,         \* sensors in ControlPlane.sensors
  state,              \* SensorView.state
  active_mission,     \* SensorView.active_mission
  status,             \* MissionRecord.status; "absent" before creation
  targets,            \* MissionRecord.targets
  assignments,        \* MissionRecord.assignments; "none" where there is no entry
  mission_artifacts,  \* MissionRecord.artifacts: the manifests
  correlated,         \* sensors whose traces MissionRecord.correlations is from
  artifacts,          \* ControlPlane.artifacts: the stored evidence
  leases,             \* ControlPlane.leases
  generation          \* ControlPlane.generation

sensorVars == <<registered, state, active_mission>>
missionVars == <<status, targets, assignments, mission_artifacts, correlated>>
controlVars == <<now, sensorVars, missionVars, artifacts, leases, generation>>

SensorState == {"ready", "capturing", "evidence_received", "degraded"}
MissionStatus == {"draft", "armed", "capturing", "complete", "partial"}
AssignmentStatus == {"pending", "leased", "submitted"}

TypeOK ==
  /\ now \in Nat
  /\ registered \subseteq Sensor
  /\ state \in [Sensor -> SensorState]
  /\ active_mission \in [Sensor -> Mission \cup {None}]
  /\ status \in [Mission -> MissionStatus \cup {"absent"}]
  /\ targets \in [Mission -> SUBSET registered]
  /\ assignments \in [Mission -> [Sensor -> AssignmentStatus \cup {"none"}]]
  /\ mission_artifacts \in [Mission -> [Sensor -> Artifact \cup {None}]]
  /\ correlated \in [Mission -> SUBSET Sensor]
  /\ artifacts \in [Mission -> [Sensor -> Artifact \cup {None}]]
  /\ leases \in [Mission -> [Sensor -> Lease \cup {None}]]
  /\ generation \in Nat

Init ==
  /\ now = 0
  /\ registered = {}
  /\ state = [s \in Sensor |-> "ready"]
  /\ active_mission = [s \in Sensor |-> None]
  /\ status = [m \in Mission |-> "absent"]
  /\ targets = [m \in Mission |-> {}]
  /\ assignments = [m \in Mission |-> [s \in Sensor |-> "none"]]
  /\ mission_artifacts = [m \in Mission |-> [s \in Sensor |-> None]]
  /\ correlated = [m \in Mission |-> {}]
  /\ artifacts = [m \in Mission |-> [s \in Sensor |-> None]]
  /\ leases = [m \in Mission |-> [s \in Sensor |-> None]]
  /\ generation = 0

-----------------------------------------------------------------------------
\* SystemTime::now() is not monotonic.
SetClock ==
  /\ now' \in 0..MaxClock
  /\ UNCHANGED <<sensorVars, missionVars, artifacts, leases, generation>>

\* Mutant: registering again shows the sensor as new.
RegisterSensorAfresh(s) ==
  /\ registered' = registered \cup {s}
  /\ state' = [state EXCEPT ![s] = "ready"]
  /\ UNCHANGED <<now, active_mission, missionVars, artifacts, leases, generation>>

\* Registering again keeps the sensor's state and active mission.
RegisterSensor(s) ==
  /\ registered' = registered \cup {s}
  /\ UNCHANGED <<now, state, active_mission, missionVars, artifacts, leases, generation>>

CreateMission(m, sensors) ==
  /\ status[m] = "absent"
  /\ sensors # {}
  /\ sensors \subseteq registered
  /\ status' = [status EXCEPT ![m] = "draft"]
  /\ targets' = [targets EXCEPT ![m] = sensors]
  /\ UNCHANGED <<now, sensorVars, assignments, mission_artifacts, correlated,
                 artifacts, leases, generation>>

\* Mutant: a mission may be armed again.
ArmMissionAgain(m) ==
  /\ status[m] # "absent"
  /\ targets[m] \subseteq registered
  /\ assignments' = [assignments EXCEPT
       ![m] = [s \in Sensor |-> IF s \in targets[m] THEN "pending" ELSE @[s]]]
  /\ status' = [status EXCEPT ![m] = "armed"]
  /\ UNCHANGED <<now, sensorVars, targets, mission_artifacts, correlated,
                 artifacts, leases, generation>>

\* Every target was registered at creation, and nothing unregisters a sensor.
ArmMission(m) ==
  /\ status[m] = "draft"
  /\ targets[m] \subseteq registered
  /\ assignments' = [assignments EXCEPT
       ![m] = [s \in Sensor |-> IF s \in targets[m] THEN "pending" ELSE @[s]]]
  /\ status' = [status EXCEPT ![m] = "armed"]
  /\ UNCHANGED <<now, sensorVars, targets, mission_artifacts, correlated,
                 artifacts, leases, generation>>

\* Mutant: a submitted assignment is handed out again.
WaitingForever(s) == {m \in Mission : assignments[m][s] # "none"}

\* The missions that still want evidence from s, and the one a poll serves.
Waiting(s) == {m \in Mission : assignments[m][s] \in {"pending", "leased"}}
IsNext(m, s) == m \in Waiting(s) /\ \A n \in Waiting(s) : m <= n

\* Mutant: a lease is renewed ahead of its expiry.
ActiveLeaseRenewedEarly(m, s) ==
  leases[m][s] # None /\ leases[m][s].expires > now + 1

\* Mutant: a lease never expires.
ActiveLeaseForever(m, s) == leases[m][s] # None

ActiveLease(m, s) == leases[m][s] # None /\ leases[m][s].expires > now

\* Mutant: the counter is read before it is bumped.
NewLeaseUnbumped == [generation |-> generation, expires |-> now + LeaseDuration]

NewLease == [generation |-> generation + 1, expires |-> now + LeaseDuration]

\* A poll that finds no active lease for the mission it serves issues one.  (A
\* poll during an active lease returns that lease; one that finds no mission
\* waiting returns nothing.)
NextAssignment(s) ==
  /\ s \in registered
  /\ generation < MaxGeneration
  /\ \E m \in Mission :
       /\ IsNext(m, s)
       /\ ~ActiveLease(m, s)
       /\ generation' = generation + 1
       /\ assignments' = [assignments EXCEPT ![m][s] = "leased"]
       /\ status' = [status EXCEPT ![m] = "capturing"]
       /\ state' = [state EXCEPT ![s] = "capturing"]
       /\ active_mission' = [active_mission EXCEPT ![s] = m]
       /\ leases' = [leases EXCEPT ![m][s] = NewLease]
  /\ UNCHANGED <<now, registered, targets, mission_artifacts, correlated, artifacts>>

\* Mutant: an artifact is taken from any target of the mission.
AcceptableFromTargets(m, s) == status[m] # "absent" /\ s \in targets[m]

\* Mutant: an artifact is taken only while the lease is in force.
AcceptableWhileLeased(m, s) ==
  /\ status[m] # "absent"
  /\ s \in targets[m]
  /\ assignments[m][s] = "submitted" \/ ActiveLease(m, s)

\* An artifact is taken from any target whose assignment was leased, whatever
\* became of the lease since; a second one is never stored.
Acceptable(m, s) ==
  /\ status[m] # "absent"
  /\ s \in targets[m]
  /\ assignments[m][s] \in {"leased", "submitted"}

\* Mutant: the verdict is taken before the last manifest is inserted.
VerdictEarly(m) ==
  IF \A t \in Sensor : mission_artifacts[m][t] \in CompleteArtifact \cup {None}
    THEN "complete" ELSE "partial"

\* After a submission: m's assignments are all in, and the verdict it then gets.
AllIn(m) == \A t \in targets[m] : assignments'[m][t] = "submitted"
Verdict(m) ==
  IF \A t \in Sensor : mission_artifacts'[m][t] \in CompleteArtifact \cup {None}
    THEN "complete" ELSE "partial"

SubmitArtifact(m, s, a) ==
  /\ Acceptable(m, s)
  /\ artifacts[m][s] = None
  /\ s \in registered
  /\ artifacts' = [artifacts EXCEPT ![m][s] = a]
  /\ assignments' = [assignments EXCEPT ![m][s] = "submitted"]
  /\ mission_artifacts' = [mission_artifacts EXCEPT ![m][s] = a]
  /\ correlated' = [correlated EXCEPT ![m] = {t \in Sensor : artifacts'[m][t] # None}]
  /\ status' = IF AllIn(m) THEN [status EXCEPT ![m] = Verdict(m)] ELSE status
  /\ state' = [state EXCEPT
       ![s] = IF a \in CompleteArtifact THEN "evidence_received" ELSE "degraded"]
  /\ active_mission' = [active_mission EXCEPT ![s] = m]
  /\ UNCHANGED <<now, registered, targets, leases, generation>>

Next ==
  \/ SetClock
  \/ \E s \in Sensor : RegisterSensor(s) \/ NextAssignment(s)
  \/ \E m \in Mission : ArmMission(m)
  \/ \E m \in Mission, sensors \in SUBSET Sensor : CreateMission(m, sensors)
  \/ \E m \in Mission, s \in Sensor, a \in Artifact : SubmitArtifact(m, s, a)

Spec == Init /\ [][Next]_controlVars

-----------------------------------------------------------------------------
AllAre(m, st) == \A t \in targets[m] : assignments[m][t] = st
SomeIs(m, st) == \E t \in targets[m] : assignments[m][t] = st

StatusFits(m) ==
  /\ status[m] \in {"absent", "draft"} <=> \A s \in Sensor : assignments[m][s] = "none"
  /\ status[m] = "armed" => AllAre(m, "pending")
  /\ status[m] = "capturing" =>
       (SomeIs(m, "leased") \/ SomeIs(m, "submitted")) /\ ~AllAre(m, "submitted")
  /\ status[m] \in {"complete", "partial"} => AllAre(m, "submitted")
  /\ status[m] = "complete" => \A t \in targets[m] : artifacts[m][t] \in CompleteArtifact
  /\ status[m] = "partial" => \E t \in targets[m] : artifacts[m][t] \notin CompleteArtifact

\* The status a mission record shows is the one its assignments, its leases and
\* its evidence imply; four handlers maintain it, each from a part of them.
StatusAgrees == \A m \in Mission : StatusFits(m)

\* The evidence store, the mission's manifests, the assignment and the inputs of
\* the correlations agree on who has submitted what, and only a sensor that was
\* leased the assignment has.
EvidenceAgrees ==
  \A m \in Mission, s \in Sensor :
    /\ mission_artifacts[m][s] = artifacts[m][s]
    /\ artifacts[m][s] # None <=> assignments[m][s] = "submitted"
    /\ artifacts[m][s] # None <=> s \in correlated[m]
    /\ artifacts[m][s] # None => leases[m][s] # None /\ s \in targets[m]

\* A generation names one lease: no two leases share one, and the counter is
\* the newest.
GenerationsAreUnique ==
  \A m, n \in Mission, s, t \in Sensor :
    /\ leases[m][s] # None => leases[m][s].generation \in 1..generation
    /\ leases[m][s] # None /\ leases[n][t] # None
         /\ leases[m][s].generation = leases[n][t].generation => m = n /\ s = t

\* What the console shows of a sensor is what its active mission knows of it.
SensorViewAgrees ==
  \A s \in Sensor :
    LET m == active_mission[s]
    IN IF m = None THEN state[s] = "ready"
       ELSE CASE state[s] = "capturing" -> assignments[m][s] = "leased"
              [] state[s] = "evidence_received" -> artifacts[m][s] \in CompleteArtifact
              [] state[s] = "degraded" -> artifacts[m][s] \in Artifact \ CompleteArtifact
              [] OTHER -> FALSE

\* "Polling at or after expiry issues a newer generation": a lease is only ever
\* replaced, never withdrawn, and only once expired, by a newer one.
LeaseSupersededOnlyAtExpiry ==
  [][\A m \in Mission, s \in Sensor :
       leases'[m][s] # leases[m][s] /\ leases[m][s] # None =>
         /\ leases[m][s].expires <= now
         /\ leases'[m][s] # None
         /\ leases'[m][s].generation > leases[m][s].generation]_controlVars

\* Evidence is write-once, and no mission with all of it goes back to capturing
\* (a late poll by a sensor whose lease expired may not reopen it).
EvidenceIsFinal ==
  [][\A m \in Mission :
       /\ \A s \in Sensor : artifacts[m][s] # None => artifacts'[m][s] = artifacts[m][s]
       /\ status[m] \in {"complete", "partial"} => status'[m] = status[m]]_controlVars

\* What the control plane promises about a mission: its status and targets are
\* the abstract ones, and the evidence is what it has stored.  Every handler call
\* is a step of the mission's life or leaves it alone, so registering, polling,
\* expiry and retries never move a mission on their own.
Lifecycle == INSTANCE MissionLifecycle WITH evidence <- artifacts

ImplementsLifecycle == Lifecycle!Spec
=============================================================================
