-------------------------- MODULE MissionLifecycle --------------------------
(***************************************************************************)
(* What Arc promises about a mission, whatever the sensors, leases, clocks *)
(* and retries do: it is drafted for a fixed set of sensors, armed, and    *)
(* starts capturing once; each sensor contributes evidence at most once    *)
(* and only then; and with the last contribution it is, for good, complete *)
(* if all the evidence is and partial otherwise.                           *)
(***************************************************************************)
CONSTANTS Sensor, Mission, Artifact, CompleteArtifact, None

VARIABLES
  status,    \* where the mission is in its life
  targets,   \* the sensors it asks
  evidence   \* evidence[m][s]: what s contributed to m

vars == <<status, targets, evidence>>

Init ==
  /\ status = [m \in Mission |-> "absent"]
  /\ targets = [m \in Mission |-> {}]
  /\ evidence = [m \in Mission |-> [s \in Sensor |-> None]]

Draft(m, sensors) ==
  /\ status[m] = "absent"
  /\ sensors # {}
  /\ status' = [status EXCEPT ![m] = "draft"]
  /\ targets' = [targets EXCEPT ![m] = sensors]
  /\ UNCHANGED evidence

Advance(m, from, to) ==
  /\ status[m] = from
  /\ status' = [status EXCEPT ![m] = to]
  /\ UNCHANGED <<targets, evidence>>

Contribute(m, s, a) ==
  /\ status[m] = "capturing"
  /\ s \in targets[m]
  /\ evidence[m][s] = None
  /\ evidence' = [evidence EXCEPT ![m][s] = a]
  /\ LET given == {evidence'[m][t] : t \in targets[m]}
     IN status' = [status EXCEPT ![m] =
                     IF None \in given THEN "capturing"
                     ELSE IF given \subseteq CompleteArtifact THEN "complete"
                     ELSE "partial"]
  /\ UNCHANGED targets

Next ==
  \E m \in Mission :
    \/ \E sensors \in SUBSET Sensor : Draft(m, sensors)
    \/ Advance(m, "draft", "armed")
    \/ Advance(m, "armed", "capturing")
    \/ \E s \in Sensor, a \in Artifact : Contribute(m, s, a)

Spec == Init /\ [][Next]_vars
=============================================================================
