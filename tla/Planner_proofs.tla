-------------------------- MODULE Planner_proofs --------------------------
(***************************************************************************)
(* What the planner of a vehicle guarantees for any sizes of its buffer,   *)
(* any routes and any speed.                                               *)
(***************************************************************************)
EXTENDS Planner, TLAPS

Budget(extra) == buffer + FilterSpan * idle + extra >= UpdateFreq - PopMax

(* BrakingBudget at every point of a step: between the path and the local  *)
(* planner the waypoints filtered in this step are not in idle yet.        *)
BudgetInv ==
  queue > 0 => Budget(0) \/ (pc \in {"manoeuvre", "local"} /\ Budget(FilterSpan))

(* A vehicle that never got a destination goes no further than the test    *)
(* for its end.                                                            *)
DestInv == dest = "none" => pc \in {"wait", "agent", "answer"}

(* A step past generate_path has waypoints in front of the queue. *)
AliveInv == pc \in {"manoeuvre", "local"} /\ queue > 0 => buffer > 0

RouteInv == TypeOK /\ BudgetInv /\ RouteLeadsHome
IInv == RouteInv /\ DestInv /\ AliveInv
-----------------------------------------------------------------------------
LEMMA Sizes ==
  /\ UpdateFreq \in Nat /\ BufferSize \in Nat /\ PopMax \in Nat /\ IdleCap \in Nat
  /\ UpdateFreq <= BufferSize /\ UpdateFreq <= 3 * IdleCap
BY PlannerAssumption DEF FilterSpan

LEMMA Waits == OvertakeWait \in Nat /\ PushWait \in Nat
BY PlannerAssumption

LEMMA Lengths ==
  ASSUME RouteInv PROVE queue \in Nat /\ buffer \in 0 .. BufferSize /\ idle \in 0 .. IdleCap
BY DEF RouteInv, TypeOK

(* A new route fills the buffer before the queue. *)
LEMMA PlanFillsBuffer ==
  ASSUME NEW n \in RouteLengths
  PROVE  /\ AtMost(n, BufferSize) \in 1 .. BufferSize
         /\ n - AtMost(n, BufferSize) \in Nat
         /\ n - AtMost(n, BufferSize) > 0 => AtMost(n, BufferSize) = BufferSize
<1>1. n \in Nat \ {0} /\ BufferSize \in Nat \ {0}
  BY PlannerAssumption
<1> QED BY <1>1 DEF AtMost

(* set_destination leaves a route that meets the invariant: none at all,   *)
(* or one whose buffer is full unless it holds everything.                 *)
LEMMA DestinationRoute ==
  ASSUME NEW STATE where, NEW STATE end, SetDestination(where, end)
  PROVE  /\ buffer' \in 0 .. BufferSize /\ queue' \in Nat
         /\ queue' > 0 => buffer' = BufferSize
         /\ idle' = 0
         /\ \/ goal' = where /\ dest' = end
            \/ goal' = "none" /\ queue' = 0 /\ dest' = dest
<1>1. CASE NoStartWaypoint
  BY <1>1, PlannerAssumption DEF NoStartWaypoint
<1>2. ASSUME NEW n \in RouteLengths, SetGlobalPlan(n), goal' = where
      PROVE  /\ buffer' \in 1 .. BufferSize /\ queue' \in Nat
             /\ queue' > 0 => buffer' = BufferSize
             /\ idle' = 0
  BY <1>2, PlanFillsBuffer DEF SetGlobalPlan
<1>3. buffer' \in 1 .. BufferSize => buffer' \in 0 .. BufferSize
  BY PlannerAssumption
<1> QED BY <1>1, <1>2, <1>3 DEF SetDestination

(* A step that was idle moves the filtered waypoints into idle. *)
LEMMA IdleCounts ==
  ASSUME RouteInv, Idles
  PROVE  /\ idle' \in 0 .. IdleCap
         /\ FilterSpan * idle' >= UpdateFreq \/ idle' = idle + 1
BY PlannerAssumption DEF RouteInv, TypeOK, Idles, AtMost, FilterSpan

LEMMA RefillsBounds ==
  ASSUME RouteInv
  PROVE  /\ Refills \in Nat /\ Refills <= queue /\ buffer + Refills <= BufferSize
         /\ queue - Refills > 0 => buffer + Refills >= UpdateFreq
BY PlannerAssumption DEF RouteInv, TypeOK, Refills, AtMost
-----------------------------------------------------------------------------
LEMMA PlannerInit == Init => IInv
<1> SUFFICES ASSUME Init PROVE IInv
  OBVIOUS
<1>1. /\ buffer \in 0 .. BufferSize /\ queue \in Nat
      /\ queue > 0 => buffer = BufferSize
  BY PlanFillsBuffer, PlannerAssumption DEF Init
<1>2. TypeOK
  <2>1. /\ overtakeCounter \in 0 .. OvertakeWait /\ pushFlag \in 0 .. PushWait
        /\ idle \in 0 .. IdleCap
    BY PlannerAssumption DEF Init
  <2>2. /\ goal \in {"none", "scenario", "edge", "temp"}
        /\ dest \in {"none", "scenario", "edge"}
    BY DEF Init
  <2> QED BY <1>1, <2>1, <2>2 DEF Init, TypeOK
<1>3. BudgetInv
  <2>1. idle = 0
    BY DEF Init
  <2> QED BY <1>1, <2>1, Sizes DEF BudgetInv, Budget, FilterSpan
<1>4. RouteLeadsHome
  BY DEF Init, RouteLeadsHome
<1>5. DestInv /\ AliveInv
  BY DEF Init, DestInv, AliveInv
<1> QED BY <1>2, <1>3, <1>4, <1>5 DEF IInv, RouteInv

(* BudgetInv holds when the buffer is full. *)
LEMMA FullBuffer ==
  ASSUME queue' > 0 => buffer' = BufferSize, idle' = 0
  PROVE  BudgetInv'
BY Sizes DEF BudgetInv, Budget, FilterSpan

(* The route is kept and no waypoint is lost. *)
LEMMA RouteKept ==
  ASSUME RouteInv, TypeOK', UNCHANGED <<edge, routeVars, idle>>,
         pc' \in {"manoeuvre", "local"} \/ pc \notin {"manoeuvre", "local"}
  PROVE  RouteInv'
<1>1. BudgetInv'
  BY DEF RouteInv, BudgetInv, Budget, routeVars
<1>2. RouteLeadsHome'
  BY DEF RouteInv, RouteLeadsHome, routeVars
<1> QED BY <1>1, <1>2 DEF RouteInv

(* What the buffer lost is what idle gained. *)
LEMMA BudgetMoves ==
  \A b, c, i, j, u, p \in Nat : \A lost \in {0, 3} :
    /\ b <= c + lost /\ b + 3 * i + (3 - lost) >= u - p
    /\ 3 * j >= u \/ j = i + 1
    => c + 3 * j + 0 >= u - p
OBVIOUS

(* The step ends without a refill, in generate_path (which filters) or     *)
(* after it.                                                               *)
LEMMA RouteIdles ==
  ASSUME RouteInv, TypeOK', UNCHANGED <<edge, queue, goal, dest>>, Idles,
         buffer' = buffer \/ (pc \notin {"manoeuvre", "local"} /\ buffer <= buffer' + FilterSpan)
  PROVE  RouteInv'
<1>1. idle' \in Nat /\ (3 * idle' >= UpdateFreq \/ idle' = idle + 1)
  BY IdleCounts, Sizes DEF FilterSpan
<1>2. buffer \in Nat /\ idle \in Nat /\ buffer' \in Nat
  BY Lengths, Sizes DEF TypeOK
<1>3. ASSUME NEW lost \in {0, 3}, buffer <= buffer' + lost,
             buffer + 3 * idle + (3 - lost) >= UpdateFreq - PopMax
      PROVE  buffer' + 3 * idle' + 0 >= UpdateFreq - PopMax
  BY <1>1, <1>2, <1>3, Sizes, BudgetMoves
<1>4. CASE buffer' = buffer
  <2>1. Budget(3) => Budget(0)'
    BY <1>2, <1>3, <1>4 DEF Budget, FilterSpan
  <2>2. Budget(0) => Budget(3)
    BY <1>2, Sizes DEF Budget, FilterSpan
  <2> QED BY <1>4, <2>1, <2>2 DEF RouteInv, BudgetInv, RouteLeadsHome, FilterSpan
<1>5. CASE pc \notin {"manoeuvre", "local"} /\ buffer <= buffer' + FilterSpan
  <2>1. buffer <= buffer' + 3
    BY <1>2, <1>5 DEF FilterSpan
  <2>2. Budget(0) => Budget(0)'
    BY <1>3, <2>1 DEF Budget, FilterSpan
  <2>3. queue > 0 => Budget(0)'
    BY <1>5, <2>2 DEF RouteInv, BudgetInv
  <2> QED BY <2>3 DEF RouteInv, BudgetInv, RouteLeadsHome
<1> QED BY <1>4, <1>5

(* generate_path hands on what is left of the buffer. *)
LEMMA RouteFiltered ==
  ASSUME RouteInv, TypeOK', UNCHANGED <<edge, queue, goal, dest, idle>>,
         buffer <= buffer' + FilterSpan,
         pc \notin {"manoeuvre", "local"}, pc' \in {"manoeuvre", "local"}
  PROVE  RouteInv'
<1>1. buffer' \in 0 .. BufferSize
  BY DEF TypeOK
<1>2. Budget(0) => Budget(FilterSpan)'
  BY <1>1, Sizes, Lengths DEF Budget, FilterSpan
<1> QED BY <1>2 DEF RouteInv, BudgetInv, RouteLeadsHome

(* A step that sets a destination: a temporary one, or the end of the way. *)
LEMMA RouteReplaced ==
  ASSUME RouteInv, NEW STATE where, NEW STATE end, SetDestination(where, end),
         edge' = edge, TypeOK', where \in {"temp", end}, where # "none",
         end = "edge" => edge = "destination"
  PROVE  RouteInv'
<1>1. /\ queue' > 0 => buffer' = BufferSize
      /\ idle' = 0
      /\ \/ goal' = where /\ dest' = end
         \/ goal' = "none" /\ queue' = 0 /\ dest' = dest
  BY DestinationRoute
<1>2. BudgetInv'
  BY <1>1, FullBuffer
<1>3. RouteLeadsHome'
  <2>1. dest' # "temp"
    BY DEF TypeOK
  <2> QED BY <1>1, <2>1 DEF RouteInv, RouteLeadsHome
<1> QED BY <1>2, <1>3 DEF RouteInv

(* What a step assigns to the variables that the route does not depend on. *)
LEMMA StepTypes ==
  ASSUME RouteInv
  PROVE  /\ Cruise \in {"unset", "zero", "slow", "given", "max"}
         /\ UNCHANGED routeVars => buffer' \in 0 .. BufferSize /\ queue' \in Nat
BY Lengths DEF Cruise, TargetSpeed, routeVars

LEMMA ManoeuvreStep == ASSUME RouteInv, Manoeuvre PROVE RouteInv'
<1> USE DEF Ends, counters, stepVars
<1>1. CASE PushDestination
  <2>1. SetDestination("temp", dest) /\ edge' = edge
    BY <1>1 DEF PushDestination, TempDestination
  <2>2. TypeOK'
    BY <1>1, <2>1, DestinationRoute, Sizes, Waits DEF PushDestination, RouteInv, TypeOK
  <2> QED BY <2>1, <2>2, RouteReplaced DEF RouteInv, RouteLeadsHome
<1>2. CASE Overtake
  <2>1. SetDestination("temp", dest) /\ edge' = edge
    BY <1>2 DEF Overtake, TempDestination
  <2>2. TypeOK'
    BY <1>2, <2>1, DestinationRoute, Sizes, Waits, StepTypes DEF Overtake, RouteInv, TypeOK
  <2> QED BY <2>1, <2>2, RouteReplaced DEF RouteInv, RouteLeadsHome
<1>3. CASE FollowCar \/ OvertakeFails \/ DriveOn \/ RoadEnds
  <2>1. UNCHANGED <<edge, queue, buffer, goal, dest>>
    BY <1>3 DEF FollowCar, OvertakeFails, DriveOn, RoadEnds, routeVars
  <2>2. CASE Idles /\ pc' = "answer"
    <3>1. TypeOK'
      BY <1>3, <2>1, <2>2, IdleCounts, Waits
      DEF FollowCar, Follows, OvertakeFails, DriveOn, RoadEnds, RouteInv, TypeOK
    <3> QED BY <2>1, <2>2, <3>1, RouteIdles
  <2>3. CASE ~(Idles /\ pc' = "answer")
    <3>1. TypeOK' /\ pc' = "local" /\ idle' = idle
      BY <1>3, <2>1, <2>3, Waits, StepTypes
      DEF FollowCar, Follows, OvertakeFails, DriveOn, RoadEnds, RouteInv, TypeOK
    <3> QED BY <2>1, <3>1, RouteKept DEF routeVars
  <2> QED BY <2>2, <2>3
<1> QED BY <1>1, <1>2, <1>3 DEF Manoeuvre

LEMMA AgentStep == ASSUME RouteInv, DestInv, Agent PROVE RouteInv'
<1> USE DEF Ends, counters, stepVars
<1>1. CASE AgentStarts
  <2>1. TypeOK'
    BY <1>1, Sizes, Waits DEF AgentStarts, Decrement, RouteInv, TypeOK, routeVars
  <2> QED BY <1>1, <2>1, RouteKept DEF AgentStarts
<1>2. CASE ResetDestination
  <2>1. SetDestination(dest, dest) /\ edge' = edge
    BY <1>2 DEF ResetDestination
  <2>2. TypeOK'
    BY <1>2, <2>1, DestinationRoute, Sizes, Waits DEF ResetDestination, RouteInv, TypeOK
  <2>3. dest # "none" /\ (dest = "edge" => edge = "destination")
    BY <1>2 DEF ResetDestination, DestInv, RouteInv, RouteLeadsHome
  <2> QED BY <2>1, <2>2, <2>3, RouteReplaced
<1>3. CASE KeepDestination
  <2>1. TypeOK'
    BY <1>3 DEF KeepDestination, RouteInv, TypeOK, routeVars
  <2> QED BY <1>3, <2>1, RouteKept DEF KeepDestination
<1>4. CASE GeneratePath
  <2>1. /\ buffer' \in 0 .. buffer /\ buffer <= buffer' + FilterSpan
        /\ pc \notin {"manoeuvre", "local"}
        /\ UNCHANGED <<edge, queue, goal, dest>>
    BY <1>4 DEF GeneratePath, FilteredTo
  <2>2. buffer' \in 0 .. BufferSize
    BY <2>1, Sizes, Lengths
  <2>3. CASE Ends("raised") /\ Idles
    <3>1. TypeOK'
      BY <1>4, <2>2, <2>3, IdleCounts DEF GeneratePath, RouteInv, TypeOK
    <3> QED BY <2>1, <2>3, <3>1, RouteIdles
  <2>4. CASE ~(Ends("raised") /\ Idles)
    <3>1. TypeOK' /\ pc' \in {"manoeuvre", "local"} /\ idle' = idle
      BY <1>4, <2>2, <2>4 DEF GeneratePath, Cruise, TargetSpeed, RouteInv, TypeOK
    <3> QED BY <2>1, <3>1, RouteFiltered
  <2> QED BY <2>3, <2>4
<1>5. CASE Manoeuvre
  BY <1>5, ManoeuvreStep
<1> QED BY <1>1, <1>2, <1>3, <1>4, <1>5 DEF Agent

LEMMA EdgeStep == ASSUME RouteInv, Edge PROVE RouteInv'
<1> USE DEF counters, stepVars
<1>1. CASE EdgeSetsDestination
  <2>1. SetDestination("edge", "edge") /\ edge' = edge /\ edge = "destination"
    BY <1>1 DEF EdgeSetsDestination
  <2>2. TypeOK'
    BY <1>1, <2>1, DestinationRoute, Sizes DEF EdgeSetsDestination, RouteInv, TypeOK
  <2> QED BY <2>1, <2>2, RouteReplaced
<1>2. CASE EdgeSetsWaypoint
  <2>1. TypeOK'
    BY <1>2, Sizes, PlannerAssumption DEF EdgeSetsWaypoint, RouteInv, TypeOK
  <2>2. BudgetInv'
    <3>1. buffer' = 1 /\ idle' = IdleCap
      BY <1>2 DEF EdgeSetsWaypoint
    <3> QED BY <3>1, Sizes DEF BudgetInv, Budget, FilterSpan
  <2>3. RouteLeadsHome'
    BY <1>2 DEF EdgeSetsWaypoint, RouteInv, RouteLeadsHome
  <2> QED BY <2>1, <2>2, <2>3 DEF RouteInv
<1> QED BY <1>1, <1>2 DEF Edge

(* The local planner refills first and drops passed waypoints afterwards:  *)
(* with a route left, PopMax below the refill's threshold is the least.    *)
LEMMA LocalStep == ASSUME RouteInv, NEW popped \in 0 .. PopMax, FollowPath(popped) PROVE RouteInv'
<1>1. /\ popped \in Nat /\ popped <= PopMax /\ queue \in Nat /\ buffer \in Nat
      /\ Refills \in Nat /\ Refills <= queue /\ buffer + Refills <= BufferSize
      /\ queue - Refills > 0 => buffer + Refills >= UpdateFreq
  BY RefillsBounds, Lengths, Sizes
<1>2. /\ queue' = queue - Refills /\ idle' = 0
      /\ popped <= buffer + Refills /\ buffer' = buffer + Refills - popped
  BY <1>1 DEF FollowPath
<1>3. UNCHANGED <<edge, goal, dest, counters, reportedDone>>
  BY DEF FollowPath
<1>4. TypeOK'
  <2>1. queue' \in Nat /\ buffer' \in 0 .. BufferSize /\ idle' \in 0 .. IdleCap
    BY <1>1, <1>2, Sizes
  <2>2. /\ pc' = "answer" /\ path' = "none" /\ speed' = "unset"
        /\ result' \in {"drive", "brake", "raised"}
    BY DEF FollowPath, Ends
  <2> QED BY <1>3, <2>1, <2>2 DEF RouteInv, TypeOK, counters
<1>5. BudgetInv'
  BY <1>1, <1>2, Sizes DEF BudgetInv, Budget, FilterSpan
<1>6. RouteLeadsHome'
  <2>1. queue = 0 => queue' = 0
    BY <1>1, <1>2
  <2> QED BY <1>3, <2>1 DEF RouteInv, RouteLeadsHome
<1> QED BY <1>4, <1>5, <1>6 DEF RouteInv

LEMMA PlannerStep == ASSUME RouteInv, DestInv, Next PROVE RouteInv'
<1>1. CASE TickArrives
  <2>1. TypeOK'
    BY <1>1 DEF TickArrives, RouteInv, TypeOK, routeVars, counters, stepVars
  <2> QED BY <1>1, <2>1, RouteKept DEF TickArrives
<1>2. CASE Answer
  <2>1. TypeOK'
    <3>1. reportedDone' \in BOOLEAN
      BY <1>2, Zenon DEF Answer, RouteInv, TypeOK
    <3>2. pc' = "wait" /\ UNCHANGED <<edge, routeVars, counters, stepVars, idle>>
      BY <1>2 DEF Answer
    <3> QED BY <3>1, <3>2 DEF RouteInv, TypeOK, routeVars, counters, stepVars
  <2> QED BY <1>2, <2>1, RouteKept DEF Answer
<1> QED BY <1>1, <1>2, EdgeStep, AgentStep, LocalStep DEF Next, LocalPlanner

LEMMA DestStep == ASSUME DestInv, Next PROVE DestInv'
<1> USE DEF DestInv, routeVars
<1>1. CASE TickArrives \/ Answer
  BY <1>1 DEF TickArrives, Answer
<1>2. CASE Edge
  BY <1>2 DEF Edge, EdgeSetsDestination, EdgeSetsWaypoint
<1>3. CASE AgentStarts \/ KeepDestination \/ GeneratePath
  BY <1>3 DEF AgentStarts, KeepDestination, GeneratePath, Ends
<1>4. CASE ResetDestination
  <2>1. dest' = dest
    BY <1>4 DEF ResetDestination, SetDestination, NoStartWaypoint
  <2> QED BY <1>4, <2>1 DEF ResetDestination
<1>5. CASE PushDestination \/ Overtake
  <2>1. dest' = dest
    BY <1>5 DEF PushDestination, Overtake, TempDestination, SetDestination, NoStartWaypoint
  <2> QED BY <1>5, <2>1 DEF PushDestination, Overtake
<1>6. CASE FollowCar \/ OvertakeFails \/ DriveOn \/ RoadEnds
  BY <1>6 DEF FollowCar, OvertakeFails, DriveOn, RoadEnds
<1>7. CASE LocalPlanner
  BY <1>7 DEF LocalPlanner, FollowPath
<1> QED BY <1>1, <1>2, <1>3, <1>4, <1>5, <1>6, <1>7 DEF Next, Agent, Manoeuvre

LEMMA AliveStep == ASSUME RouteInv, AliveInv, Next PROVE AliveInv'
<1> USE DEF AliveInv, routeVars
<1>1. CASE TickArrives \/ Answer
  BY <1>1 DEF TickArrives, Answer
<1>2. CASE Edge
  BY <1>2 DEF Edge, EdgeSetsDestination, EdgeSetsWaypoint
<1>3. CASE AgentStarts \/ KeepDestination \/ GeneratePath
  BY <1>3 DEF AgentStarts, KeepDestination, GeneratePath, Ends
<1>4. CASE ResetDestination
  BY <1>4 DEF ResetDestination, Ends
<1>5. CASE PushDestination
  BY <1>5 DEF PushDestination
<1>6. CASE Overtake
  <2>1. SetDestination("temp", dest)
    BY <1>6 DEF Overtake, TempDestination
  <2>2. queue' > 0 => buffer' = BufferSize
    BY <2>1, DestinationRoute
  <2>3. BufferSize > 0
    BY PlannerAssumption
  <2> QED BY <2>2, <2>3
<1>7. CASE FollowCar \/ OvertakeFails \/ DriveOn \/ RoadEnds
  BY <1>7 DEF FollowCar, OvertakeFails, DriveOn, RoadEnds
<1>8. CASE LocalPlanner
  BY <1>8 DEF LocalPlanner, FollowPath, Ends
<1> QED BY <1>1, <1>2, <1>3, <1>4, <1>5, <1>6, <1>7, <1>8 DEF Next, Agent, Manoeuvre

(* The inductive invariant of the planner. *)
THEOREM PlannerInductive == Spec => []IInv
<1>1. IInv /\ [Next]_vars => IInv'
  <2> SUFFICES ASSUME IInv, [Next]_vars PROVE IInv'
    OBVIOUS
  <2>1. CASE Next
    BY <2>1, PlannerStep, DestStep, AliveStep DEF IInv
  <2>2. CASE UNCHANGED vars
    BY <2>2
    DEF vars, routeVars, counters, stepVars, IInv, RouteInv, DestInv, AliveInv, TypeOK, BudgetInv,
        Budget, RouteLeadsHome
  <2> QED BY <2>1, <2>2
<1> QED BY PlannerInit, <1>1, PTL DEF Spec

(* Type correctness, for any sizes, routes and waits. *)
THEOREM PlannerTypes == Spec => []TypeOK
<1>1. IInv => TypeOK
  BY DEF IInv, RouteInv
<1> QED BY <1>1, PlannerInductive, PTL

(* The buffer of local_planner_behavior.py is never emptied by fewer idle  *)
(* steps than the budget allows, whatever the sizes, routes and speeds.    *)
THEOREM BrakingBudgetHolds == Spec => []BrakingBudget
<1>1. IInv => BrakingBudget
  <2> SUFFICES ASSUME IInv, pc = "wait", queue > 0
               PROVE buffer + FilterSpan * idle >= UpdateFreq - PopMax
    BY DEF BrakingBudget
  <2>1. Budget(0)
    BY DEF IInv, RouteInv, BudgetInv
  <2> QED BY <2>1, Lengths, Sizes DEF IInv, Budget, FilterSpan
<1> QED BY <1>1, PlannerInductive, PTL

(* behavior_agent.py keeps end_waypoint through every manoeuvre. *)
THEOREM RouteLeadsHomeHolds == Spec => []RouteLeadsHome
<1>1. IInv => RouteLeadsHome
  BY DEF IInv, RouteInv
<1> QED BY <1>1, PlannerInductive, PTL

(* Once stalled, only the edge's waypoints let the vehicle drive again. *)
THEOREM StalledStaysHolds == Spec => StalledStays
<1>1. IInv /\ [Next]_vars => [Stalled => Stalled' \/ Edge]_vars
  <2> SUFFICES ASSUME IInv, Next, Stalled, ~Edge PROVE Stalled'
    BY DEF Stalled, vars, routeVars
  <2>1. CASE dest = "none"
    <3>1. TickArrives \/ Answer \/ AgentStarts
      BY <2>1 DEF IInv, DestInv, Next, Agent, ResetDestination, KeepDestination, GeneratePath,
                  Manoeuvre, PushDestination, FollowCar, Overtake, OvertakeFails, DriveOn,
                  RoadEnds, LocalPlanner, FollowPath
    <3> QED BY <2>1, <3>1 DEF TickArrives, Answer, AgentStarts, Stalled, routeVars
  <2>2. CASE queue > 0 /\ buffer = 0
    <3>1. pc \notin {"manoeuvre", "local"}
      BY <2>2 DEF IInv, AliveInv
    <3>2. CASE TickArrives \/ Answer \/ AgentStarts \/ KeepDestination
      BY <2>2, <3>2 DEF TickArrives, Answer, AgentStarts, KeepDestination, Stalled, routeVars
    <3>3. CASE GeneratePath
      <4>1. buffer' \in 0 .. 0 /\ queue' = queue
        BY <2>2, <3>3 DEF GeneratePath, FilteredTo
      <4> QED BY <2>2, <4>1 DEF Stalled
    <3>4. ~ResetDestination
      BY <2>2 DEF ResetDestination, RouteFinished
    <3> QED
      BY <3>1, <3>2, <3>3, <3>4
      DEF Next, Agent, Manoeuvre, PushDestination, FollowCar, Overtake, OvertakeFails, DriveOn,
          RoadEnds, LocalPlanner, FollowPath
  <2> QED BY <2>1, <2>2 DEF Stalled
<1> QED BY <1>1, PlannerInductive, PTL DEF Spec, StalledStays

LEMMA NotLonger ==
  \A q, b \in Nat :
    /\ \A c \in 0 .. b : ~(q + c > q + b)
    /\ \A r, p \in Nat :
         r <= q => /\ ~((q - r) + (b + r - p) > q + b)
                   /\ p > 0 => (q - r) + (b + r - p) < q + b
OBVIOUS

(* An overtaking is not interrupted: while its counter runs, a route that  *)
(* is not nearly finished is replaced by the edge only.                    *)
OvertakeNotInterrupted ==
  [][overtakeCounter > 0 /\ (queue > 0 \/ buffer > 2) /\ queue' + buffer' > queue + buffer
       => Edge]_vars

(* While overtake_counter runs, nobody but the edge replaces a route that   *)
(* is not nearly finished.                                                 *)
THEOREM OvertakeNotInterruptedHolds == Spec => OvertakeNotInterrupted
<1> DEFINE Longer == queue' + buffer' > queue + buffer
           Running == overtakeCounter > 0 /\ (queue > 0 \/ buffer > 2)
<1>1. IInv /\ [Next]_vars => [Running /\ Longer => Edge]_vars
  <2> SUFFICES ASSUME IInv, Next, Running, ~Edge PROVE ~Longer
    BY DEF vars
  <2>1. queue \in Nat /\ buffer \in Nat
    BY Lengths, Sizes DEF IInv
  <2>2. ~ResetDestination /\ ~PushDestination /\ ~Overtake
    BY <2>1 DEF ResetDestination, RouteFinished, PushDestination, MayPush, Overtake
  <2>3. CASE GeneratePath
    <3>1. buffer' \in 0 .. buffer /\ queue' = queue
      BY <2>3 DEF GeneratePath, FilteredTo
    <3>2. ~(queue + buffer' > queue + buffer)
      BY <2>1, <3>1, NotLonger
    <3> QED BY <3>1, <3>2
  <2>4. ASSUME NEW popped \in 0 .. PopMax, FollowPath(popped) PROVE ~Longer
    <3>1. Refills \in Nat /\ Refills <= queue /\ popped \in Nat
      BY RefillsBounds, Sizes DEF IInv
    <3>2. queue' = queue - Refills /\ buffer' = buffer + Refills - popped
      BY <2>1, <2>4, <3>1 DEF FollowPath
    <3> QED BY <2>1, <3>1, <3>2, NotLonger
  <2>5. CASE UNCHANGED routeVars
    BY <2>1, <2>5 DEF routeVars
  <2> QED
    BY <2>2, <2>3, <2>4, <2>5
    DEF Next, Agent, Manoeuvre, LocalPlanner, TickArrives, Answer, AgentStarts, KeepDestination,
        FollowCar, OvertakeFails, DriveOn, RoadEnds
<1> QED BY <1>1, PlannerInductive, PTL DEF Spec, OvertakeNotInterrupted

(* A temporary route runs out, unless another manoeuvre replaces it or the *)
(* edge adds to it: no step makes it longer, every step that passes        *)
(* waypoints makes it shorter, and once it is nearly finished the test of  *)
(* run_step replaces it by the way to end_waypoint.                        *)
TemporaryRouteRunsOut ==
  [][goal = "temp" /\ goal' = "temp" =>
       \/ PushDestination \/ Overtake \/ EdgeSetsWaypoint
       \/ /\ ~(queue' + buffer' > queue + buffer)
          /\ (\E popped \in 1 .. PopMax : FollowPath(popped)) => queue' + buffer' < queue + buffer
          /\ pc = "reset" => ~RouteFinished]_vars
THEOREM TemporaryRouteRunsOutHolds == Spec => TemporaryRouteRunsOut
<1> DEFINE Longer == queue' + buffer' > queue + buffer
           Passes == \E popped \in 1 .. PopMax : FollowPath(popped)
           Shorter == queue' + buffer' < queue + buffer
           Runs == \/ PushDestination \/ Overtake \/ EdgeSetsWaypoint
                   \/ ~Longer /\ (Passes => Shorter) /\ (pc = "reset" => ~RouteFinished)
<1>1. IInv /\ [Next]_vars => [goal = "temp" /\ goal' = "temp" => Runs]_vars
  <2> SUFFICES ASSUME IInv, Next, goal = "temp", goal' = "temp",
                      ~PushDestination, ~Overtake, ~EdgeSetsWaypoint
               PROVE  ~Longer /\ (Passes => Shorter) /\ (pc = "reset" => ~RouteFinished)
    BY DEF vars
  <2>1. queue \in Nat /\ buffer \in Nat
    BY Lengths, Sizes DEF IInv
  <2>2. dest # "temp"
    BY DEF IInv, RouteInv, RouteLeadsHome
  <2>3. ~ResetDestination
    BY <2>2, DestinationRoute DEF ResetDestination
  <2>4. ~EdgeSetsDestination
    BY DestinationRoute DEF EdgeSetsDestination
  <2>5. pc = "reset" => ~RouteFinished
    BY <2>3, <2>4
    DEF Next, Agent, Manoeuvre, Edge, LocalPlanner, TickArrives, Answer, AgentStarts,
        KeepDestination, GeneratePath, FollowCar, OvertakeFails, DriveOn, RoadEnds, FollowPath
  <2>6. ASSUME NEW popped \in 0 .. PopMax, FollowPath(popped)
        PROVE  ~Longer /\ (popped > 0 => Shorter)
    <3>1. Refills \in Nat /\ Refills <= queue /\ popped \in Nat
      BY RefillsBounds, Sizes DEF IInv
    <3>2. queue' = queue - Refills /\ buffer' = buffer + Refills - popped
      BY <2>1, <2>6, <3>1 DEF FollowPath
    <3> QED BY <2>1, <3>1, <3>2, NotLonger
  <2>7. Passes => Shorter
    <3>1. \A popped \in 1 .. PopMax : popped \in 0 .. PopMax /\ popped > 0
      BY Sizes
    <3> QED BY <2>6, <3>1
  <2>8. CASE GeneratePath
    <3>1. buffer' \in 0 .. buffer /\ queue' = queue
      BY <2>8 DEF GeneratePath, FilteredTo
    <3>2. ~(queue + buffer' > queue + buffer)
      BY <2>1, <3>1, NotLonger
    <3> QED BY <2>5, <2>7, <3>1, <3>2
  <2>9. CASE UNCHANGED routeVars
    BY <2>1, <2>5, <2>7, <2>9 DEF routeVars
  <2> QED
    BY <2>3, <2>4, <2>5, <2>6, <2>7, <2>8, <2>9
    DEF Next, Agent, Manoeuvre, Edge, LocalPlanner, TickArrives, Answer, AgentStarts,
        KeepDestination, FollowCar, OvertakeFails, DriveOn, RoadEnds
<1> QED BY <1>1, PlannerInductive, PTL DEF Spec, TemporaryRouteRunsOut
=============================================================================
