----------------------------- MODULE MCArcFleet -----------------------------
(***************************************************************************)
(* A small instance of ArcFleet and ArcEvidence.  The agents a1 and a2     *)
(* serve one sensor, and are interchangeable.                              *)
(***************************************************************************)
EXTENDS ArcFleet, ArcEvidence, TLC

CONSTANTS a1, a2, s1

TwoAgentsOneSensor == (a1 :> s1) @@ (a2 :> s1)

Symmetry == Permutations(Agent)

Started == {a \in Agent : agent[a] # "start"}

\* Bounds: once an agent has started, its sensor is the only one, and other clients
\* do no more than to create and arm missions.
AgentsHaveOneSensor ==
  Started = {} \/ (registered \subseteq {s1} /\ generation < MaxGeneration /\ now < MaxClock)

OthersStandBack ==
  \/ Started = {}
  \/ agentVars' # agentVars
  \/ UNCHANGED <<sensorVars, artifacts, generation>>

Event(i, time, len, tuple, tunnel) ==
  [handle |-> i, timestamp |-> time, len |-> len, tuple |-> tuple, tunnel_tuple |-> tunnel]

Trace(unix, monotonic, uncertainty, events) ==
  [started_unix |-> unix, started_monotonic |-> monotonic, clock_uncertainty |-> uncertainty,
   events |-> events]

There == <<"a", "b">>
Back == <<"b", "a">>
Elsewhere == <<"a", "c">>

\* Up to three observations of one flow on each side, at any times.
Ascending == {s \in UNION {[1..n -> 0..4] : n \in 0..3} : \A i, j \in DOMAIN s : i <= j => s[i] <= s[j]}

Timed(u) ==
  {Trace(0, 0, u, [i \in DOMAIN s |-> Event(i, s[i], 1, There, NoTuple)]) : s \in Ascending}

\* Two observations on each side, in any order, of several flows, lengths and tunnels.
Varied ==
  {Trace(0, 0, 0, <<Event(1, e[1], e[2], e[3], NoTuple), Event(2, f[1], f[2], f[3], f[4])>>) :
     e \in {0, 2} \X {1, 2} \X {There, Back},
     f \in {0, 2} \X {1, 2} \X {There, Elsewhere, NoTuple} \X {NoTuple, Back}}

\* Clocks that started at different times, and are known more or less well.
Clocked ==
  {Trace(x, y, u, <<Event(1, 1, 1, There, NoTuple), Event(2, 4, 1, There, NoTuple)>>) :
     x \in 0..3, y \in 0..5, u \in 0..1}

Pairs == (Timed(0) \X Timed(0)) \cup (Varied \X Varied) \cup (Clocked \X Clocked)
=============================================================================
