--------------------------- MODULE EdgeWaypoints ---------------------------
(***************************************************************************)
(* The waypoints of an edge scenario.  Before every PullEvery-th tick the  *)
(* simulation pushes the edge's waypoint buffers to the server, which      *)
(* keeps them in serializedEdgeWaypoints_; the tick's command makes every  *)
(* vehicle fetch its buffer (Client_GetWaypoints); the vehicle's           *)
(* NetworkEmulator delays it by one pull and overrides the planner's       *)
(* buffer with it.  Neither handler takes a lock: only the barrier of the  *)
(* tick keeps them apart, and a vehicle that is done is outside of it.     *)
(*                                                                         *)
(* The tick itself is the barrier TickBarrier, as Ecloud implements it: a  *)
(* call of Client_SendUpdate is one step here.                             *)
(*                                                                         *)
(* A definition marked FAULT is not the code's: it is a plausible mistake  *)
(* in the definition that follows it, to try the properties against.       *)
(***************************************************************************)
EXTENDS Integers, Sequences, FiniteSets

CONSTANTS
  N,          \* numCars_
  MaxTick,    \* bound: the last tick the simulation broadcasts
  PullEvery,  \* edge_dt / world_dt
  Control,    \* done_behavior = CONTROL (otherwise DESTROY)
  Contents    \* what a waypoint buffer can hold

(* With PullEvery = 1 the first tick pulls, and no vehicle ever answers it. *)
ASSUME EdgeAssumption ==
  /\ N \in Nat \ {0}
  /\ MaxTick \in Nat
  /\ PullEvery \in Nat \ {0, 1}
  /\ Control \in BOOLEAN

Vehicles == 0 .. N-1
IsPull(t) == t % PullEvery = 0
Pulls(t) == t \div PullEvery

(* A fetched buffer: the push it was read from (0: none) and its content;  *)
(* "empty" is the answer when the server holds none for the vehicle.       *)
Buffer == [pull : Nat, c : Contents \union {"empty"}]
NoBuffer == [pull |-> 0, c |-> "empty"]

VARIABLES
  simPc, tick,
  replied, done,
  pushes,      \* PushTick threads of Server_DoTick
  held,        \* serializedEdgeWaypoints_
  filling,     \* a Server_PushEdgeWaypoints call is between clear and its end
  vPc, vQ, vTick,
  reading,     \* what the vehicle's Client_GetWaypoints call started to read
  wpList,      \* NetworkEmulator.wp_list
  latest,      \* NetworkEmulator.latest_wp
  override     \* the pull whose waypoint the planner's buffer was last set to

simVars == <<simPc, tick>>
roundVars == <<replied, done>>
wpVars == <<wpList, latest, override>>
vehicleVars == <<vPc, vQ, vTick, reading>>
vars == <<simVars, roundVars, pushes, held, filling, vehicleVars, wpVars>>

TypeOK ==
  /\ simPc \in {"loop", "pushing", "pushed", "round"}
  /\ tick \in 0 .. MaxTick
  /\ replied \subseteq Vehicles /\ done \subseteq Vehicles
  /\ pushes \subseteq [to : Vehicles, tick : Nat]
  /\ held \in Buffer /\ filling \in BOOLEAN
  /\ vPc \in [Vehicles -> {"get", "fetch", "fetching", "step", "exited", "crashed"}]
  /\ vQ \in [Vehicles -> Nat] /\ vTick \in [Vehicles -> Nat]
  /\ reading \in [Vehicles -> Buffer]
  /\ wpList \in [Vehicles -> Seq(Buffer)]
  /\ \A v \in Vehicles \ done : Len(wpList[v]) <= Pulls(vTick[v])
  /\ latest \in [Vehicles -> Buffer]
  /\ override \in [Vehicles -> Nat]

Init ==
  /\ simPc = "loop" /\ tick = 0
  /\ replied = {} /\ done = {} /\ pushes = {}
  /\ held = NoBuffer /\ filling = FALSE
  /\ vPc = [v \in Vehicles |-> "get"]
  /\ vQ = [v \in Vehicles |-> 0] /\ vTick = [v \in Vehicles |-> 0]
  /\ reading = [v \in Vehicles |-> NoBuffer]
  /\ wpList = [v \in Vehicles |-> <<>>]
  /\ latest = [v \in Vehicles |-> NoBuffer]
  /\ override = [v \in Vehicles |-> 0]
-----------------------------------------------------------------------------
(* The simulation and the server's handlers it calls *)

(* edge.run_step(), then Server_PushEdgeWaypoints: serializedEdgeWaypoints_ *)
(* is cleared ...                                                           *)
PushEdgeWaypointsClears ==
  /\ simPc = "loop" /\ tick < MaxTick /\ IsPull(tick + 1)
  /\ simPc' = "pushing"
  /\ filling' = TRUE
  /\ held' = NoBuffer
  /\ UNCHANGED <<tick, roundVars, pushes, vehicleVars, wpVars>>

(* ... and filled, with whatever the edge computed. *)
PushEdgeWaypointsFills ==
  /\ filling
  /\ filling' = FALSE
  /\ \E c \in Contents : held' = [pull |-> Pulls(tick) + 1, c |-> c]
  /\ simPc' = IF simPc = "pushing" THEN "pushed" ELSE simPc
  /\ UNCHANGED <<tick, roundVars, pushes, vehicleVars, wpVars>>

(* push_waypoint_buffer has returned before broadcast_message is called. *)
(* FAULT: the push is not awaited. *)
PushUnawaited == simPc \in {"pushing", "pushed"} \/ (simPc = "loop" /\ ~IsPull(tick + 1))
PushReturned == simPc = "pushed" \/ (simPc = "loop" /\ ~IsPull(tick + 1))

SimBroadcasts ==
  /\ PushReturned
  /\ tick < MaxTick
  /\ tick' = tick + 1
  /\ simPc' = "round"
  /\ replied' = {}
  /\ pushes' = pushes \union {[to |-> v, tick |-> tick + 1] : v \in Vehicles}
  /\ UNCHANGED <<done, held, filling, vehicleVars, wpVars>>

(* The release of the round, as the barrier gives it: somebody answered,   *)
(* and everybody who still takes part did.                                 *)
(* FAULT: one answer is enough. *)
SomebodyAnswered == replied # {}
EverybodyAnswered == replied # {} /\ Vehicles \ done \subseteq replied

SimReleased ==
  /\ simPc = "round"
  /\ EverybodyAnswered
  /\ simPc' = "loop"
  /\ UNCHANGED <<tick, roundVars, pushes, held, filling, vehicleVars, wpVars>>

PushTick(p) ==
  /\ p \in pushes
  /\ pushes' = pushes \ {p}
  /\ vQ' = IF vPc[p.to] \notin {"exited", "crashed"} /\ vQ[p.to] = 0
           THEN [vQ EXCEPT ![p.to] = p.tick] ELSE vQ
  /\ UNCHANGED <<simVars, roundVars, held, filling, vPc, vTick, reading, wpVars>>
-----------------------------------------------------------------------------
(* A vehicle *)

VehicleGets(v) ==
  /\ vPc[v] = "get" /\ vQ[v] # 0
  /\ vQ' = [vQ EXCEPT ![v] = 0]
  /\ vTick' = [vTick EXCEPT ![v] = vQ[v]]
  /\ vPc' = [vPc EXCEPT ![v] = IF IsPull(vQ[v]) THEN "fetch" ELSE "step"]
  /\ UNCHANGED <<simVars, roundVars, pushes, held, filling, reading, wpVars>>

(* Client_GetWaypoints starts to walk serializedEdgeWaypoints_ ... *)
GetWaypointsStarts(v) ==
  /\ vPc[v] = "fetch"
  /\ reading' = [reading EXCEPT ![v] = held]
  /\ vPc' = [vPc EXCEPT ![v] = "fetching"]
  /\ UNCHANGED <<simVars, roundVars, pushes, held, filling, vQ, vTick, wpVars>>

(* ... and returns what it read: anything, if a push ran beside it. *)
Answers(v) ==
  IF held = reading[v] /\ ~filling THEN {held}
  ELSE {reading[v], held, NoBuffer}

(* enqueue_wp *)
(* FAULT: the buffer is appended once more. *)
EnqueueTwice(v, b) == wpList' = [wpList EXCEPT ![v] = Append(Append(@, b), b)]
EnqueueWp(v, b) == wpList' = [wpList EXCEPT ![v] = Append(@, b)]

GetWaypointsReturns(v) ==
  /\ vPc[v] = "fetching"
  /\ \E b \in Answers(v) : EnqueueWp(v, b)
  /\ vPc' = [vPc EXCEPT ![v] = "step"]
  /\ UNCHANGED <<simVars, roundVars, pushes, held, filling, vQ, vTick, reading, latest, override>>

(* get_latency_between_nodes: "just a constant offset into the WP list" *)
(* FAULT: no delay. *)
NoLatency(v) == Len(wpList[v])
LatencyOffset(v) == Len(wpList[v]) - 1

(* fetch_wp compares messages, that is, their contents. *)
FetchWp(v) == LatencyOffset(v) >= 1 /\ latest[v].c # wpList[v][LatencyOffset(v)].c

(* update_waypoints: a buffer is tried once, and taken if it is valid. *)
UpdateWaypoints(v) ==
  IF FetchWp(v)
  THEN LET b == wpList[v][LatencyOffset(v)] IN
       /\ latest' = [latest EXCEPT ![v] = b]
       /\ \E valid \in BOOLEAN :
            override' = IF valid /\ b.c # "empty" THEN [override EXCEPT ![v] = b.pull] ELSE override
  ELSE UNCHANGED <<latest, override>>

(* A tick executed and answered; the answer may be the last one. *)
VehicleAnswers(v) ==
  /\ vPc[v] = "step" /\ v \notin done
  /\ UpdateWaypoints(v)
  /\ replied' = replied \union {v}
  /\ done' \in {done, done \union {v}}
  /\ vPc' = [vPc EXCEPT ![v] = "get"]
  /\ UNCHANGED <<simVars, pushes, held, filling, vQ, vTick, reading, wpList>>

(* A vehicle that is done executes the tick and answers nothing; then      *)
(* assert(push_q.empty()).  With DESTROY it exits.                         *)
VehicleStepsDone(v) ==
  /\ vPc[v] = "step" /\ v \in done
  /\ UpdateWaypoints(v)
  /\ vPc' = [vPc EXCEPT ![v] = IF ~Control THEN "exited"
                               ELSE IF vQ[v] = 0 THEN "get" ELSE "crashed"]
  /\ UNCHANGED <<simVars, roundVars, pushes, held, filling, vQ, vTick, reading, wpList>>
-----------------------------------------------------------------------------
Vehicle(v) ==
  \/ VehicleGets(v) \/ GetWaypointsStarts(v) \/ GetWaypointsReturns(v)
  \/ VehicleAnswers(v) \/ VehicleStepsDone(v)

Next ==
  \/ PushEdgeWaypointsClears \/ PushEdgeWaypointsFills \/ SimBroadcasts \/ SimReleased
  \/ \E p \in pushes : PushTick(p)
  \/ \E v \in Vehicles : Vehicle(v)

Spec == Init /\ [][Next]_vars
-----------------------------------------------------------------------------
(* Properties *)

Fetching(v) == vPc[v] \in {"fetch", "fetching"}

(* Without a lock: a vehicle that takes part reads the waypoints only while *)
(* they are complete and belong to the tick it executes.                    *)
FetchSeesPush ==
  \A v \in Vehicles \ done :
    Fetching(v) => ~filling /\ held.pull = Pulls(vTick[v]) /\ vTick[v] = tick

(* A vehicle that takes part has fetched every push once and in order when *)
(* the round is over: wp_list[-2] is the push before the last.             *)
EveryPushFetched ==
  simPc # "round" =>
    \A v \in Vehicles \ done :
      /\ Len(wpList[v]) = Pulls(tick)
      /\ \A i \in DOMAIN wpList[v] : wpList[v][i].pull = i

(* The delay is exactly one pull: after a round a vehicle that takes part  *)
(* has tried the waypoints (their content) of the push before the last,    *)
(* and its planner never runs on the newest ones.                          *)
OnePullLate ==
  simPc # "round" =>
    \A v \in Vehicles \ done :
      /\ Len(wpList[v]) >= 2 => latest[v].c = wpList[v][Len(wpList[v]) - 1].c
      /\ Pulls(tick) > 0 => override[v] < Pulls(tick)

(* The rounds here are those of the barrier that Ecloud implements. *)
Barrier ==
  INSTANCE TickBarrier WITH
    round <- tick, released <- simPc # "round", done <- done,
    waiting <- IF simPc = "round" THEN Vehicles \ (replied \union done) ELSE {}

ImplementsBarrier == Barrier!BSpec
=============================================================================
