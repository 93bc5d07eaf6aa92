------------------------------ MODULE ArcFleet ------------------------------
(***************************************************************************)
(* The control plane and the agents that talk to it.  An agent is one run  *)
(* of run_fixture_once: register, poll once, read the artifact, upload it. *)
(* It never retries; an operator may start further agents for the same     *)
(* sensor, also while an earlier one is still running.  A request is in    *)
(* flight until the server handles it: the agent may die meanwhile, and a  *)
(* broken connection loses the request or its reply, which the agent       *)
(* reports as a failure.                                                   *)
(*                                                                         *)
(* The local checks of upload (size, plan digest) and the rejections of an *)
(* artifact that is too large or does not replay all end the agent without *)
(* a change at the server; they are the agent's failure, Die.              *)
(***************************************************************************)
EXTENDS ArcControl

CONSTANTS
  Agent,    \* agent processes
  SensorOf  \* the sensor each of them serves

ASSUME AgentAssumption == SensorOf \in [Agent -> Sensor]

VARIABLES
  agent,    \* agent[a]: where its run is
  request,  \* request[a]: the request in flight, handled or not
  reply,    \* reply[a]: the answer to it, once there is one
  held,     \* held[a]: the assignment it was given
  file      \* file[a]: the artifact it read

agentVars == <<agent, request, reply, held, file>>
vars == <<controlVars, agentVars>>

Assignment == [mission : Mission, generation : Nat]

ASSUME NoAssignmentAssumption == None \notin Assignment

AgentStates == {"start", "registering", "polling", "uploading", "done", "idle", "conflict", "dead"}
Requests == {"none", "register", "poll", "upload"}
Replies ==
  [kind : {"none", "ok", "nothing", "conflict", "rejected"}, assignment : {None}]
    \cup [kind : {"assignment"}, assignment : Assignment]

Says(kind) == [kind |-> kind, assignment |-> None]
Heard(a, kind) == reply[a].kind = kind

FleetTypeOK ==
  /\ TypeOK
  /\ agent \in [Agent -> AgentStates]
  /\ request \in [Agent -> Requests]
  /\ reply \in [Agent -> Replies]
  /\ held \in [Agent -> Assignment \cup {None}]
  /\ file \in [Agent -> Artifact \cup {None}]

FleetInit ==
  /\ Init
  /\ agent = [a \in Agent |-> "start"]
  /\ request = [a \in Agent |-> "none"]
  /\ reply = [a \in Agent |-> Says("none")]
  /\ held = [a \in Agent |-> None]
  /\ file = [a \in Agent |-> None]

-----------------------------------------------------------------------------
\* The agent's side.

Send(a, from, to, kind) ==
  /\ agent[a] = from
  /\ agent' = [agent EXCEPT ![a] = to]
  /\ request' = [request EXCEPT ![a] = kind]
  /\ reply' = [reply EXCEPT ![a] = Says("none")]

Register(a) ==
  /\ Send(a, "start", "registering", "register")
  /\ UNCHANGED <<controlVars, held, file>>

Poll(a) ==
  /\ Heard(a, "ok")
  /\ Send(a, "registering", "polling", "poll")
  /\ UNCHANGED <<controlVars, held, file>>

\* No assignment: the run reports so and ends.
GoIdle(a) ==
  /\ agent[a] = "polling"
  /\ Heard(a, "nothing")
  /\ agent' = [agent EXCEPT ![a] = "idle"]
  /\ UNCHANGED <<controlVars, request, reply, held, file>>

\* Read whatever the fixture holds at this moment and upload it.
Upload(a, content) ==
  /\ Heard(a, "assignment")
  /\ Send(a, "polling", "uploading", "upload")
  /\ held' = [held EXCEPT ![a] = reply[a].assignment]
  /\ file' = [file EXCEPT ![a] = content]
  /\ UNCHANGED controlVars

Finish(a) ==
  /\ agent[a] = "uploading"
  /\ Heard(a, "ok") \/ Heard(a, "conflict")
  /\ agent' = [agent EXCEPT ![a] = IF Heard(a, "ok") THEN "done" ELSE "conflict"]
  /\ UNCHANGED <<controlVars, request, reply, held, file>>

\* Killed, or given up on an error; the request in flight stays in flight.
Die(a) ==
  /\ agent[a] \in {"start", "registering", "polling", "uploading"}
  /\ agent' = [agent EXCEPT ![a] = "dead"]
  /\ UNCHANGED <<controlVars, request, reply, held, file>>

-----------------------------------------------------------------------------
\* The server's side: one handler call per request in flight.

Answer(a, answer) ==
  /\ request' = [request EXCEPT ![a] = "none"]
  /\ reply' = [reply EXCEPT ![a] = answer]
  /\ UNCHANGED <<agent, held, file>>

ServeRegister(a) ==
  /\ request[a] = "register"
  /\ RegisterSensor(SensorOf[a])
  /\ Answer(a, Says("ok"))

\* What next_assignment answers sensor s: the lease in force, or a new one.
ServePoll(a) ==
  LET s == SensorOf[a]
  IN /\ request[a] = "poll"
     /\ \/ /\ Waiting(s) = {}
           /\ Answer(a, Says("nothing"))
           /\ UNCHANGED controlVars
        \/ \E m \in Mission :
             /\ IsNext(m, s)
             /\ IF ActiveLease(m, s) THEN UNCHANGED controlVars ELSE NextAssignment(s)
             /\ Answer(a, [kind |-> "assignment",
                          assignment |-> [mission |-> m,
                                          generation |-> leases'[m][s].generation]])

\* Mutant: an upload that finds evidence stored is told ok, whatever it holds.
ServeUploadIdempotent(a) ==
  LET s == SensorOf[a]
      m == held[a].mission
  IN /\ request[a] = "upload"
     /\ \/ /\ ~Acceptable(m, s)
           /\ Answer(a, Says("rejected"))
           /\ UNCHANGED controlVars
        \/ /\ Acceptable(m, s)
           /\ artifacts[m][s] # None
           /\ Answer(a, Says("ok"))
           /\ UNCHANGED controlVars
        \/ /\ SubmitArtifact(m, s, file[a])
           /\ Answer(a, Says("ok"))

ServeUpload(a) ==
  LET s == SensorOf[a]
      m == held[a].mission
      stored == artifacts[m][s]
  IN /\ request[a] = "upload"
     /\ \/ /\ ~Acceptable(m, s)
           /\ Answer(a, Says("rejected"))
           /\ UNCHANGED controlVars
        \/ /\ Acceptable(m, s)
           /\ stored # None
           /\ Answer(a, Says(IF stored = file[a] THEN "ok" ELSE "conflict"))
           /\ UNCHANGED controlVars
        \/ /\ SubmitArtifact(m, s, file[a])
           /\ Answer(a, Says("ok"))

\* The request never arrives.
Lose(a) ==
  /\ request[a] # "none"
  /\ Answer(a, Says("none"))
  /\ UNCHANGED controlVars

\* The console creates and arms missions, other clients call whatever they like,
\* also in the name of an agent's sensor; the clock goes on.
Operate == Next /\ UNCHANGED agentVars

AgentStep(a) ==
  \/ Register(a)
  \/ Poll(a)
  \/ GoIdle(a)
  \/ \E content \in Artifact : Upload(a, content)
  \/ Finish(a)
  \/ Die(a)

Serve(a) == ServeRegister(a) \/ ServePoll(a) \/ ServeUpload(a) \/ Lose(a)

FleetNext ==
  \/ \E a \in Agent : AgentStep(a) \/ Serve(a)
  \/ Operate

FleetSpec == FleetInit /\ [][FleetNext]_vars

-----------------------------------------------------------------------------
\* What an agent was told of its upload is true, and stays true: accepted
\* evidence is what the control plane stores, and a conflict means that other
\* evidence is.  Agents of one sensor, dead agents' uploads and retries race.
UploadOutcomeIsTrue ==
  \A a \in {b \in Agent : held[b] # None} :
    LET stored == artifacts[held[a].mission][SensorOf[a]]
    IN /\ agent[a] = "done" => stored = file[a]
       /\ agent[a] = "conflict" => stored \notin {None, file[a]}

\* An assignment once given stays good: however late the upload comes, after
\* the lease expired, was renewed for another agent or the mission ended, the
\* control plane does not answer that the sensor holds no assignment.
HeldAssignmentStaysAcceptable ==
  \A a \in Agent :
    /\ held[a] # None => Acceptable(held[a].mission, SensorOf[a])
    /\ ~Heard(a, "rejected")

\* Generations order the assignments of a mission: a poll never hands out an
\* older one than another agent of that sensor holds, nor one whose lease is over.
GenerationsGoForward ==
  [][\A a, b \in Agent :
       LET given == reply'[a].assignment
       IN /\ reply'[a] # reply[a]
          /\ reply'[a].kind = "assignment"
          /\ held[b] # None
          /\ SensorOf[b] = SensorOf[a]
          /\ held[b].mission = given.mission
          => /\ held[b].generation <= given.generation
             /\ leases'[given.mission][SensorOf[a]].generation = given.generation
             /\ leases'[given.mission][SensorOf[a]].expires > now]_vars
=============================================================================
