------------------------------ MODULE Planner ------------------------------
(***************************************************************************)
(* How one vehicle drives: the tick handler of vehiclesim.py calls         *)
(* VehicleManager.run_step, which calls BehaviorAgent.run_step, which      *)
(* generates a path over the local planner's waypoints and lets the local  *)
(* planner follow it.  A route is kept in two queues: waypoints_queue, and *)
(* in front of it the short _waypoint_buffer.  Only their lengths are      *)
(* modelled, and where the route leads.  Where the vehicle is, what it     *)
(* sees and what the map answers is nondeterministic.                      *)
(*                                                                         *)
(* Left out: the trajectory buffer (with the configured sampling it is     *)
(* rebuilt in every step), the history of waypoints, hazard_flag (read by  *)
(* platooning only), overtake_allowed and lane_change_allowed (computed    *)
(* anew in every step).  done_behavior is CONTROL: with DESTROY the        *)
(* process ends, as in Ecloud.                                             *)
(*                                                                         *)
(* A definition marked FAULT is not the code's: it is a plausible mistake  *)
(* in the definition that follows it, to try the properties against.       *)
(***************************************************************************)
EXTENDS Integers

CONSTANTS
  BufferSize,    \* buffer_size
  UpdateFreq,    \* waypoint_update_freq
  RouteLengths,  \* bound: the numbers of waypoints _trace_route may return
  PopMax,        \* bound: how many waypoints the vehicle passes in one step
  OvertakeWait,  \* 100: the steps until another overtaking
  PushWait,      \* 90: the steps until the destination is pushed again
  IdleCap        \* bound: where the ghost idle stops to count

FilterSpan == 3  \* buffer_filter looks at the nearest waypoints only

ASSUME PlannerAssumption ==
  /\ UpdateFreq \in Nat /\ BufferSize \in Nat \ {0} /\ UpdateFreq <= BufferSize
  /\ RouteLengths \subseteq Nat \ {0}
  /\ PopMax \in Nat
  /\ OvertakeWait \in Nat /\ PushWait \in Nat
  /\ IdleCap \in Nat /\ UpdateFreq <= FilterSpan * IdleCap

VARIABLES
  edge,             \* the scenario: no edge, or what its waypoints are used for
  pc,               \* which part of the step comes next
  queue, buffer,    \* the lengths of waypoints_queue and _waypoint_buffer
  goal,             \* where these waypoints lead
  dest,             \* end_waypoint
  overtakeCounter,  \* overtake_counter
  pushFlag,         \* destination_push_flag
  path,             \* the path of this step: has points, or not
  speed,            \* the target speed handed to the local planner
  result,           \* what became of the step
  reportedDone,     \* reported_done
  idle              \* ghost: steps that filtered the buffer and did not refill it

routeVars == <<queue, buffer, goal, dest>>
counters == <<overtakeCounter, pushFlag>>
stepVars == <<path, speed, result>>
vars == <<edge, pc, routeVars, counters, stepVars, reportedDone, idle>>

TypeOK ==
  /\ edge \in {"none", "destination", "waypoint"}
  /\ pc \in {"wait", "agent", "reset", "path", "manoeuvre", "pushed", "local", "answer"}
  /\ queue \in Nat /\ buffer \in 0 .. BufferSize
  /\ goal \in {"none", "scenario", "edge", "temp"}
  /\ dest \in {"none", "scenario", "edge"}
  /\ overtakeCounter \in 0 .. OvertakeWait /\ pushFlag \in 0 .. PushWait
  /\ path \in {"none", "found", "empty"}
  /\ speed \in {"unset", "zero", "slow", "given", "max"}
  /\ result \in {"none", "drive", "brake", "raised"}
  /\ reportedDone \in BOOLEAN
  /\ idle \in 0 .. IdleCap

AtMost(m, n) == IF m <= n THEN m ELSE n
-----------------------------------------------------------------------------
(* Routes *)

(* LocalPlanner.set_global_plan with clean: the buffer is filled first. *)
SetGlobalPlan(n) ==
  /\ buffer' = AtMost(n, BufferSize)
  /\ queue' = n - AtMost(n, BufferSize)
  /\ idle' = 0

(* No start waypoint ahead of the vehicle: -1, when everything is cleared. *)
NoStartWaypoint ==
  /\ buffer' = 0 /\ queue' = 0 /\ goal' = "none" /\ dest' = dest
  /\ idle' = 0

(* BehaviorAgent.set_destination with clean; end is what end_waypoint is   *)
(* then: where, or what it was without end_reset.                          *)
SetDestination(where, end) ==
  \/ (\E n \in RouteLengths : SetGlobalPlan(n)) /\ goal' = where /\ dest' = end
  \/ NoStartWaypoint

(* Overtaking and pushing set a temporary destination. *)
(* FAULT: end_reset is left at its default. *)
TempDestinationResets == SetDestination("temp", "temp")
TempDestination == SetDestination("temp", dest)

(* buffer_filter: the waypoints behind the vehicle, and those that are too *)
(* close on another lane, are removed.                                     *)
FilteredTo(rest) == rest \in 0 .. buffer /\ buffer <= rest + FilterSpan

(* LocalPlanner.run_step: how many waypoints the buffer takes from queue.  *)
(* FAULT: the size of the buffer instead of the room in it. *)
RefillsWithoutRoom == IF buffer < UpdateFreq THEN AtMost(BufferSize, queue) ELSE 0
(* FAULT: the buffer is refilled when it is used up. *)
RefillsWhenEmpty == IF buffer = 0 THEN AtMost(BufferSize, queue) ELSE 0
Refills == IF buffer < UpdateFreq THEN AtMost(BufferSize - buffer, queue) ELSE 0

Init ==
  /\ edge \in {"none", "destination", "waypoint"}
  /\ pc = "wait"
  \* vehiclesim: the first set_destination; its -1 is ignored
  /\ \/ \E n \in RouteLengths :
          /\ buffer = AtMost(n, BufferSize) /\ queue = n - AtMost(n, BufferSize)
          /\ goal = "scenario" /\ dest = "scenario"
     \/ buffer = 0 /\ queue = 0 /\ goal = "none" /\ dest = "none"
  /\ overtakeCounter = 0 /\ pushFlag = 0
  /\ path = "none" /\ speed = "unset" /\ result = "none"
  /\ reportedDone = FALSE
  /\ idle = 0
-----------------------------------------------------------------------------
(* The end of a step: BehaviorAgent.run_step returns, or raises, which     *)
(* VehicleManager.run_step turns into speed 0 at the present position.     *)
Ends(r) == pc' = "answer" /\ result' = r /\ path' = "none" /\ speed' = "unset"

Idles == idle' = AtMost(idle + 1, IdleCap)

(* target_speed = 0 is all that vehiclesim tells a vehicle that is done.   *)
TargetSpeed ==
  IF reportedDone THEN "zero" ELSE IF edge = "none" THEN "unset" ELSE "given"

(* "max_speed - speed_lim_dist if not target_speed": 0 is not given either. *)
Cruise == IF TargetSpeed \in {"unset", "zero"} THEN "max" ELSE TargetSpeed
-----------------------------------------------------------------------------
(* A tick arrives: update_info, and NetworkEmulator.update_waypoints if it *)
(* has fetched waypoints that are new and valid.                           *)
TickArrives ==
  /\ pc = "wait" /\ pc' = "agent"
  /\ UNCHANGED <<edge, routeVars, counters, stepVars, reportedDone, idle>>

EdgeSetsDestination ==
  /\ pc = "wait" /\ pc' = "agent"
  /\ edge = "destination"
  /\ SetDestination("edge", "edge")
  /\ UNCHANGED <<edge, counters, stepVars, reportedDone>>

(* The buffer is overridden with one waypoint; the queue is kept.  Nothing *)
(* is left that the buffer may lose, whatever the steps before were.       *)
EdgeSetsWaypoint ==
  /\ pc = "wait" /\ pc' = "agent"
  /\ edge = "waypoint"
  /\ buffer' = 1 /\ idle' = IdleCap
  /\ UNCHANGED <<edge, queue, goal, dest, counters, stepVars, reportedDone>>
-----------------------------------------------------------------------------
(* BehaviorAgent.run_step *)

Decrement(c) == IF c > 0 THEN c - 1 ELSE c

(* The counters; close to end_waypoint (-1) or at a red light the vehicle  *)
(* stops here.                                                             *)
AgentStarts ==
  /\ pc = "agent"
  /\ overtakeCounter' = Decrement(overtakeCounter)
  /\ pushFlag' = Decrement(pushFlag)
  /\ \/ dest = "none" /\ Ends("raised")
     \/ dest # "none" /\ Ends("brake")
     \/ dest # "none" /\ pc' = "reset" /\ UNCHANGED stepVars
  /\ UNCHANGED <<edge, routeVars, reportedDone, idle>>

(* "when the temporary route is finished, we return to the global route" *)
(* FAULT: a buffer that is used up is forgotten. *)
RouteNearlyFinished == queue = 0 /\ buffer \in {1, 2}
(* FAULT: the queue is forgotten. *)
BufferFinished == buffer <= 2
RouteFinished == queue = 0 /\ buffer <= 2

ResetDestination ==
  /\ pc = "reset" /\ RouteFinished
  /\ pushFlag' = 0
  /\ SetDestination(dest, dest)
  /\ IF goal' = "none" THEN Ends("brake") \/ Ends("raised")
                       ELSE pc' = "path" /\ UNCHANGED stepVars
  /\ UNCHANGED <<edge, overtakeCounter, reportedDone>>

KeepDestination ==
  /\ pc = "reset" /\ ~RouteFinished
  /\ pc' = "path"
  /\ UNCHANGED <<edge, routeVars, counters, stepVars, reportedDone, idle>>

(* LocalPlanner.generate_path, called once, and again after a push.  It    *)
(* looks at the ends of the buffer, and at the road ahead.                 *)
GeneratePath ==
  /\ pc \in {"path", "pushed"}
  /\ FilteredTo(buffer')
  /\ \/ Ends("raised") /\ Idles
     \/ /\ buffer' > 0
        /\ path' \in {"found", "empty"}
        /\ \/ pc = "path" /\ pc' = "manoeuvre" /\ speed' = speed
           \/ pc = "pushed" /\ pc' = "local" /\ speed' = Cruise
        /\ UNCHANGED <<result, idle>>
  /\ UNCHANGED <<edge, queue, goal, dest, counters, reportedDone>>

(* 7. A lane change is not possible: the destination is pushed forward.    *)
MayPush == pushFlag = 0 /\ overtakeCounter = 0

PushDestination ==
  /\ pc = "manoeuvre" /\ MayPush
  /\ pushFlag' = PushWait
  /\ TempDestination
  /\ pc' = "pushed"
  /\ UNCHANGED <<edge, overtakeCounter, stepVars, reportedDone>>

(* 10. Car following: brake when the obstacle is near, else keep behind.   *)
Follows ==
  \/ Ends("brake") /\ Idles
  \/ pc' = "local" /\ speed' \in {"zero", "slow"} /\ UNCHANGED <<path, result, idle>>

(* 8. An obstacle ahead, or no lane to overtake on. *)
FollowCar ==
  /\ pc = "manoeuvre" /\ Follows
  /\ UNCHANGED <<edge, routeVars, counters, reportedDone>>

(* 9. overtake_management: the neighbour lane is free.  The path of this   *)
(* step is the old one.                                                    *)
Overtake ==
  /\ pc = "manoeuvre" /\ overtakeCounter = 0
  /\ overtakeCounter' = OvertakeWait
  /\ TempDestination
  /\ pc' = "local" /\ speed' = Cruise
  /\ UNCHANGED <<edge, pushFlag, path, result, reportedDone>>

(* The lane does not go on far enough: the counter is set all the same.    *)
OvertakeFails ==
  /\ pc = "manoeuvre" /\ overtakeCounter = 0
  /\ overtakeCounter' = OvertakeWait
  /\ Follows \/ (Ends("raised") /\ Idles)
  /\ UNCHANGED <<edge, routeVars, pushFlag, reportedDone>>

(* 11. Nothing in the way. *)
DriveOn ==
  /\ pc = "manoeuvre"
  /\ pc' = "local" /\ speed' = Cruise
  /\ UNCHANGED <<edge, routeVars, counters, path, result, reportedDone, idle>>

(* The road ends where a waypoint ahead is looked up: an IndexError. *)
RoadEnds ==
  /\ pc = "manoeuvre"
  /\ Ends("raised") /\ Idles
  /\ UNCHANGED <<edge, routeVars, counters, reportedDone>>
-----------------------------------------------------------------------------
(* LocalPlanner.run_step: refill, follow the path, and pop_buffer: drop    *)
(* the passed waypoints.                                                   *)
FollowPath(popped) ==
  /\ pc = "local"
  /\ queue' = queue - Refills
  /\ LET filled == buffer + Refills IN
     \/ path = "empty" /\ popped = 0 /\ buffer' = filled /\ Ends("brake")
     \/ path = "found" /\ filled = 0 /\ popped = 0 /\ buffer' = 0 /\ Ends("raised")
     \/ /\ path = "found" /\ filled > 0 /\ popped <= filled
        /\ buffer' = filled - popped
        /\ Ends(IF speed = "zero" THEN "brake" ELSE "drive")
  /\ idle' = 0
  /\ UNCHANGED <<edge, goal, dest, counters, reportedDone>>

(* The control is applied and the tick answered; TICK_DONE when the        *)
(* vehicle is close to the scenario's destination.                         *)
Answer ==
  /\ pc = "answer" /\ pc' = "wait"
  /\ reportedDone' \in {reportedDone, TRUE}
  /\ UNCHANGED <<edge, routeVars, counters, stepVars, idle>>
-----------------------------------------------------------------------------
LocalPlanner == \E popped \in 0 .. PopMax : FollowPath(popped)

Edge == EdgeSetsDestination \/ EdgeSetsWaypoint

Manoeuvre ==
  PushDestination \/ FollowCar \/ Overtake \/ OvertakeFails \/ DriveOn \/ RoadEnds

Agent ==
  AgentStarts \/ ResetDestination \/ KeepDestination \/ GeneratePath \/ Manoeuvre

Next == TickArrives \/ Edge \/ Agent \/ LocalPlanner \/ Answer

Spec == Init /\ [][Next]_vars

(* The client takes every tick.  Of the world is assumed that neither the  *)
(* box, a light, an obstacle nor a dead end holds the vehicle for ever:    *)
(* again and again it finds a path, drives on and passes waypoints.        *)
FairSpec ==
  /\ Spec /\ WF_vars(Next)
  /\ SF_vars(AgentStarts /\ pc' = "reset")
  /\ SF_vars(GeneratePath /\ path' = "found")
  /\ SF_vars(DriveOn /\ path = "found")
  /\ SF_vars(\E popped \in 1 .. PopMax : FollowPath(popped))
-----------------------------------------------------------------------------
(* Properties *)

(* The vehicle has no way to go on by itself: its first set_destination    *)
(* failed, or the buffer is used up while the queue holds the route.       *)
Stalled == dest = "none" \/ (queue > 0 /\ buffer = 0)

(* "Always keep the waypoint buffer alive": the refill comes after the     *)
(* path, so what keeps the buffer alive is that it cannot lose more than   *)
(* three waypoints in a step that does not refill it.                      *)
BrakingBudget ==
  pc = "wait" /\ queue > 0 =>
    buffer + FilterSpan * idle >= UpdateFreq - PopMax

(* The way back: whatever was overtaken or pushed, end_waypoint stays the  *)
(* destination of the scenario or of the edge and never a temporary one,   *)
(* and a route that is not temporary leads there.                          *)
RouteLeadsHome ==
  /\ goal \in {"none", "temp", dest}
  /\ dest # "temp"
  /\ dest = "edge" => edge = "destination"
  /\ goal = "none" => queue = 0

(* The code never recovers from being stalled, unless the edge helps: no   *)
(* step that raises brings the route back, and the vehicle goes on         *)
(* answering ticks.                                                        *)
StalledStays == [][Stalled => Stalled' \/ Edge]_vars

(* A temporary route comes to its end: the vehicle returns to the global   *)
(* route, or is stalled, if it does not begin a manoeuvre again and again. *)
ReturnsToGlobalRoute ==
  <>[][~(PushDestination \/ Overtake)]_vars
    => (goal = "temp" ~> goal # "temp" \/ Stalled)

(* "must check FIRST to ensure sim doesn't try to progress a DONE vehicle": *)
(* a vehicle that reported done is not driven on.                           *)
DoneIsNotProgressed == [][pc = "answer" /\ reportedDone => result # "drive"]_vars
=============================================================================
