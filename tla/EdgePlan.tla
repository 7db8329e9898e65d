------------------------------ MODULE EdgePlan ------------------------------
(***************************************************************************)
(* What EdgeManager does between two ticks of the edge: it rebuilds the    *)
(* traffic from where the vehicles are (update_information), groups the    *)
(* cars into slices (get_slices_clustered), searches a plan for every      *)
(* slice of two (AStarPlanner), commands the first step of each plan to    *)
(* the cars and moves the traffic once (Traffic.time_tick); where the cars *)
(* are then is what is pushed to the vehicles as waypoints.                *)
(*                                                                         *)
(* The search visits nodes of positions, lanes and speeds. Its open and    *)
(* closed sets are dictionaries whose key (calc_grid_index) is made of the *)
(* positions and the lanes and not of the speeds, and the cost of a node   *)
(* is that of its last motion, not of its path.                            *)
(*                                                                         *)
(* Positions are whole metres along the road, as in the grid, and speeds   *)
(* whole m/s. Which cars the clustering joins is nondeterministic, and so  *)
(* is which of the cheapest open nodes is taken. Costs are doubled, so     *)
(* that half a point per lane is 1.                                        *)
(*                                                                         *)
(* A definition marked FAULT is not the code's: it is a plausible mistake  *)
(* in the definition that follows it, to try the properties against.       *)
(***************************************************************************)
EXTENDS Integers, FiniteSets, FiniteSetsExt

CONSTANTS
  N,              \* numcars
  MapLength,      \* map_length, 200
  NumLanes,       \* num_lanes, the columns of the traffic's grid
  SearchLanes,    \* lane_num of the search, always the default, 4
  MaxSpeed,       \* v_max of the search: below it
  TargetSpeed,    \* target_speed in m/s
  Dt,             \* search_dt
  Traffics        \* what update_information may find on the road

Cars == 1 .. N
(* n_clusters; a slice without cars stands for one that is not created. *)
Slices == 1 .. N \div 2 + 1
Lanes == 0 .. NumLanes - 1
Distance(a, b) == IF a < b THEN b - a ELSE a - b

(* check_spawn_constraints moves nothing: no two cars of a lane are within *)
(* 3 m, the length of a car.                                               *)
ASSUME EdgePlanAssumption ==
  /\ N \in Nat \ {0} /\ NumLanes \in Nat /\ SearchLanes \in Nat
  /\ MaxSpeed \in Nat /\ TargetSpeed \in Nat /\ Dt \in Nat
  /\ MapLength \in Nat \ {0}
  /\ Traffics \subseteq [Cars -> [pos : 0 .. MapLength - 1, lane : Lanes, v : Nat]]
  /\ \A t \in Traffics : \A c, d \in Cars :
       c # d /\ t[c].lane = t[d].lane => Distance(t[c].pos, t[d].pos) >= 3

(* The two come from different places. Every scenario has num_lanes: 4;    *)
(* with fewer, the search would send a car into a lane that has no column, *)
(* and update_grid_occupancies would raise, which is not modelled.         *)
ASSUME LanesFit == SearchLanes <= NumLanes

VARIABLES
  phase,      \* "idle", "plan", "search" or "tick"
  cars,       \* cars_on_road: pos_x, lane, v and intentions (-1, 0 or 1)
  grid,       \* lane_vehicles: where the cars were when it was last updated
  slice,      \* the slice of each car
  at,         \* the slice that is planned, from the last to the first, and
              \* then the car that time_tick moves, from the first to the last
  open,       \* open_set, the keys being Key(n)
  closed,     \* closed_set
  current,    \* the node taken from open_set last
  command     \* lanechange_command and vel_array of each slice

search == <<open, closed, current>>
vars == <<phase, cars, grid, slice, at, search, command>>

NoCommand == [lane |-> << >>, v |-> << >>]
NoNode == << >>
Intend(traffic) ==
  [c \in Cars |-> [pos |-> traffic[c].pos, lane |-> traffic[c].lane, v |-> traffic[c].v,
                   intention |-> 0]]

Occupied(road) == [c \in Cars |-> [pos |-> road[c].pos, lane |-> road[c].lane]]

Init ==
  /\ phase = "idle"
  /\ \E t \in Traffics : cars = Intend(t)
  /\ grid = Occupied(cars)
  /\ slice = [c \in Cars |-> 1]
  /\ at = 0
  /\ open = {} /\ closed = {} /\ current = NoNode
  /\ command = [s \in Slices |-> NoCommand]

Members(s) == {c \in Cars : slice[c] = s}

(* update_information and get_slices_clustered, whose KMeansConstrained   *)
(* puts at most two cars into a cluster.                                   *)
Update ==
  /\ phase = "idle"
  /\ \E t \in Traffics : cars' = Intend(t)
  /\ grid' = Occupied(cars')
  /\ slice' \in {f \in [Cars -> Slices] : \A s \in Slices : Cardinality({c \in Cars : f[c] = s}) <= 2}
  /\ at' = N \div 2 + 1
  /\ command' = [s \in Slices |-> NoCommand]
  /\ phase' = "plan"
  /\ UNCHANGED search

-----------------------------------------------------------------------------
(* The search *)

KeyWithSpeeds(n) == <<n.x, n.y, n.v>>  \* FAULT
Key(n) == <<n.x, n.y>>

NoParent == << >>
Start ==
  [x |-> [c \in Members(at) |-> cars[c].pos], y |-> [c \in Members(at) |-> cars[c].lane],
   v |-> [c \in Members(at) |-> cars[c].v], cost |-> 0, parent |-> NoParent]

(* calc_heuristic, of the lanes y that a node's own are compared with. *)
Heuristic(n, y) ==
  MapThenSumSet(LAMBDA c : 20 * Distance(n.v[c], TargetSpeed) + Distance(n.y[c], y[c]), DOMAIN n.y)

Clear(a, b) == Distance(a, b) > 10
InLimitsInclusive(n) ==  \* FAULT
  \A c \in DOMAIN n.y : n.v[c] \in 0 .. MaxSpeed - 1 /\ n.y[c] \in 0 .. SearchLanes
InLimits(n) ==
  \A c \in DOMAIN n.y : n.v[c] \in 0 .. MaxSpeed - 1 /\ n.y[c] \in 0 .. SearchLanes - 1

(* Two cars of a slice need 10 m between them in the same lane, and the    *)
(* first also when it takes the lane that the second had.                  *)
ApartUnlessSwapping(n, from) ==  \* FAULT
  \A i, j \in DOMAIN n.y : i < j /\ n.y[i] = n.y[j] => Clear(n.x[i], n.x[j])
Apart(n, from) ==
  \A i, j \in DOMAIN n.y : i < j /\ n.y[i] \in {n.y[j], from.y[j]} => Clear(n.x[i], n.x[j])

(* A car of another slice holds its lane and the one it intends to take. *)
Holds(c) == {cars[c].lane, cars[c].lane + cars[c].intention}
ClearOfOthers(n) ==
  \A i \in DOMAIN n.y, c \in Cars \ Members(at) :
    n.y[i] \in Holds(c) => Clear(n.x[i], cars[c].pos)

VerifyNode(n, from) == InLimits(n) /\ Apart(n, from) /\ ClearOfOthers(n)

(* The motion model: every car one faster or slower and one lane aside.    *)
(* The positions are those 0.2 s later.                                    *)
Motions == [Members(at) -> -1 .. 1]
Moved(from, dv, dy) ==
  LET v == [c \in Members(at) |-> from.v[c] + dv[c]]
      n == [x |-> [c \in Members(at) |-> from.x[c] + v[c] \div 5],
            y |-> [c \in Members(at) |-> from.y[c] + dy[c]],
            v |-> v, cost |-> 0, parent |-> Key(from)]
  IN [n EXCEPT !.cost = Heuristic(n, from.y)]
Neighbours(from) ==
  {n \in {Moved(from, dv, dy) : dv \in Motions, dy \in Motions} : VerifyNode(n, from)}

NotClosedCheaper(n) == \A m \in closed : Key(m) = Key(n) => n.cost < m.cost  \* FAULT
NotClosed(n) == \A m \in closed : Key(m) # Key(n)

(* Of the nodes with one key the cheapest is kept, the older one if they   *)
(* cost the same.                                                          *)
Better(n, m, older) == n.cost < m.cost \/ (n.cost = m.cost /\ (n \in older \/ m \notin older))
Best(key, nodes, older) ==
  CHOOSE n \in nodes :
    Key(n) = key /\ \A m \in nodes : Key(m) = key => Better(n, m, older)
Cheapest(nodes, older) == {n \in nodes : n = Best(Key(n), nodes, older)}

(* The nodes a path leads through, seen from its end. *)
Parents(nodes) == {p \in closed : \E n \in nodes : n.parent = Key(p)}
Path(n) ==
  LET once == Parents({n})  twice == Parents(once)
  IN {n} \union once \union twice \union Parents(twice)
LongEnough(n) == Parents(Parents(Parents({n}))) # {}

Estimate(n) == n.cost + Heuristic(n, Start.y)
First(n) == n \in open /\ \A m \in open : Estimate(n) <= Estimate(m)

TakenFromOpen(n) == open \ {n}

SkipSlice ==
  /\ phase = "plan" /\ at > 0
  /\ Cardinality(Members(at)) < 2
  /\ at' = at - 1
  /\ UNCHANGED <<phase, cars, grid, slice, search, command>>

BeginSearch ==
  /\ phase = "plan" /\ at > 0
  /\ Cardinality(Members(at)) >= 2
  /\ open' = {Start} /\ closed' = {} /\ current' = Start
  /\ phase' = "search"
  /\ UNCHANGED <<cars, grid, slice, at, command>>

Expand ==
  /\ phase = "search"
  /\ \E n \in open :
       /\ First(n) /\ ~LongEnough(n)
       /\ current' = n
       /\ closed' = closed \union {n}
       /\ LET left == TakenFromOpen(n)
              fresh == {m \in Neighbours(n) : NotClosed(m) /\ Key(m) # Key(n)}
          IN open' = Cheapest(left \union fresh, left)
  /\ UNCHANGED <<phase, cars, grid, slice, at, command>>

(* algorithm_step takes the first step of the path, ry[-2] and rv[-2]. A   *)
(* path that is the start alone commands its lanes, as lanes and as speeds *)
(* (vel_array[i] = ry[0]).                                                 *)
FirstStep(n) == CHOOSE m \in Path(n) : m.parent = Key(Start)
Commanded(n) ==
  IF n.parent = NoParent THEN [lane |-> n.y, v |-> n.y]
  ELSE [lane |-> FirstStep(n).y, v |-> FirstStep(n).v]

Conclude(n) ==
  /\ command' = [command EXCEPT ![at] = Commanded(n)]
  /\ at' = at - 1
  /\ phase' = "plan"
  /\ open' = {} /\ closed' = {} /\ current' = NoNode
  /\ UNCHANGED <<cars, grid, slice>>

GoalFound == phase = "search" /\ \E n \in open : First(n) /\ LongEnough(n) /\ Conclude(n)

(* "Open set is empty..": the node taken last ends the path. *)
OpenSetEmpty == phase = "search" /\ open = {} /\ Conclude(current)

-----------------------------------------------------------------------------
(* The commands and the traffic *)

Intention(c) ==
  LET lane == command[slice[c]].lane[c]
  IN IF lane > cars[c].lane THEN 1 ELSE IF lane < cars[c].lane THEN -1 ELSE 0

Relay ==
  /\ phase = "plan" /\ at = 0
  /\ cars' = [c \in Cars |->
       IF command[slice[c]] = NoCommand THEN cars[c]
       ELSE [cars[c] EXCEPT !.intention = Intention(c), !.v = command[slice[c]].v[c]]]
  /\ phase' = "tick" /\ at' = 1
  /\ UNCHANGED <<grid, slice, search, command>>

(* check_ahead(car, 10), on the grid of before the tick: up to the end of  *)
(* the map and, when nobody is there, on from its beginning.               *)
Smaller(a, b) == IF a < b THEN a ELSE b
InLaneWithin(c, positions) ==
  {d \in Cars : grid[d].lane = cars[c].lane /\ grid[d].pos \in positions}
Ahead(c) ==
  LET end == Smaller(cars[c].pos + 10, MapLength - 1)
      here == InLaneWithin(c, cars[c].pos + 1 .. end - 1)
  IN IF here # {} \/ cars[c].pos + 10 <= MapLength - 1 THEN here
     ELSE InLaneWithin(c, 0 .. (cars[c].pos + 10) % MapLength)
IsNearest(d, c) == d \in Ahead(c) /\ \A e \in Ahead(c) : grid[d].pos <= grid[e].pos

(* The next iteration of the loop of time_tick, which ends by updating the *)
(* grid.                                                                   *)
NextCar ==
  /\ phase = "tick"
  /\ IF at = N THEN phase' = "idle" /\ at' = 0 /\ grid' = Occupied(cars')
     ELSE at' = at + 1 /\ UNCHANGED <<phase, grid>>
  /\ UNCHANGED <<slice, search, command>>

(* A car that changes its lane does not move forward in this tick.         *)
LaneShift(car) ==
  IF car.intention > 0 THEN Smaller(car.lane + 1, NumLanes)
  ELSE IF car.lane = 0 THEN 0 ELSE car.lane - 1
ChangeLane ==
  /\ phase = "tick" /\ cars[at].intention # 0
  /\ cars' = [cars EXCEPT ![at].lane = LaneShift(cars[at]), ![at].intention = 0]
  /\ NextCar

DriveAt(v) ==
  /\ cars' = [cars EXCEPT ![at].v = v, ![at].pos = (@ + v * Dt) % MapLength]
  /\ NextCar

DriveFreely == phase = "tick" /\ cars[at].intention = 0 /\ Ahead(at) = {} /\ DriveAt(TargetSpeed)

(* The car ahead may have been moved, and slowed down, before.             *)
FollowAhead ==
  /\ phase = "tick" /\ cars[at].intention = 0
  /\ \E d \in Cars : IsNearest(d, at) /\ DriveAt(Smaller(cars[at].v, cars[d].v))

Next ==
  \/ Update \/ SkipSlice \/ BeginSearch \/ Expand \/ GoalFound \/ OpenSetEmpty
  \/ Relay \/ ChangeLane \/ DriveFreely \/ FollowAhead

Spec == Init /\ [][Next]_vars

-----------------------------------------------------------------------------
(* Properties *)

(* Cars stay on the road: the loop never leads a car into a lane that the  *)
(* grid of the traffic has no column for, as long as the search knows no   *)
(* lane that the traffic has not.                                          *)
TypeOK ==
  /\ phase \in {"idle", "plan", "search", "tick"}
  /\ cars \in [Cars -> [pos : 0 .. MapLength - 1, lane : Lanes, v : Nat, intention : -1 .. 1]]
  /\ grid \in [Cars -> [pos : 0 .. MapLength - 1, lane : Lanes]]
  /\ slice \in [Cars -> Slices]
  /\ at \in (IF phase = "tick" THEN Cars ELSE 0 .. N \div 2 + 1)
  /\ \A n \in open \union closed :
       /\ n.x \in [Members(at) -> Nat] /\ n.y \in [Members(at) -> Lanes]
       /\ n.v \in [Members(at) -> Nat]
  /\ DOMAIN command = Slices
  /\ \A s \in Slices : command[s] # NoCommand =>
       command[s].lane \in [Members(s) -> Lanes] /\ command[s].v \in [Members(s) -> Nat]

(* Every node has one place in the two dictionaries, and the path that     *)
(* calc_final_path walks from it consists of motions of the model, each    *)
(* from the closed node the next one names, and begins at the start within *)
(* the four nodes the search is for.                                       *)
IsMotion(from, n) ==
  \A c \in DOMAIN n.y :
    /\ Distance(n.v[c], from.v[c]) <= 1 /\ Distance(n.y[c], from.y[c]) <= 1
    /\ n.x[c] = from.x[c] + n.v[c] \div 5
PathsLeadBack ==
  phase = "search" =>
    /\ \A n, m \in open \union closed : Key(n) = Key(m) => n = m
    /\ \A n \in open \union closed :
         /\ Start \in Path(n)
         /\ \A m \in Path(n) \ {Start} : \E p \in Path(n) : m.parent = Key(p) /\ IsMotion(p, m)

(* Whoever is commanded into another lane has the room for it: the other   *)
(* car of its slice does not come there or from there, and the cars of the *)
(* other slices are not there, within the 10 m around where it will be in  *)
(* 0.2 s.                                                                  *)
Soon(c) == cars[c].pos + command[slice[c]].v[c] \div 5
Sent(c) == command[slice[c]].lane[c]
LaneChangesHaveRoom ==
  phase = "plan" =>
    \A c, d \in Cars :
      c # d /\ command[slice[c]] # NoCommand /\ Sent(c) # cars[c].lane =>
        /\ Distance(Sent(c), cars[c].lane) = 1
        /\ IF slice[c] = slice[d]
           THEN Sent(c) = Sent(d) \/ (Sent(c) = cars[d].lane /\ Sent(d) = cars[c].lane) =>
                  Clear(Soon(c), Soon(d))
           ELSE Sent(c) = cars[d].lane => Clear(Soon(c), cars[d].pos)

(* Because a key has no speeds, a motion that reaches no other metre and   *)
(* no other lane is a return to the closed node it came from: cars too     *)
(* slow to move a metre in 0.2 s are commanded to change lanes, or boxed   *)
(* in (their speeds are then the numbers of their lanes).                  *)
SlowPairsChangeLane ==
  phase = "plan" =>
    \A s \in Slices :
      command[s] # NoCommand /\ (\A c \in Members(s) : cars[c].v < 4) =>
        \/ \E c \in Members(s) : command[s].lane[c] # cars[c].lane
        \/ command[s].v = command[s].lane

(* The search ends: no position and lane is expanded twice, however the    *)
(* costs of the ways to it compare, and there are finitely many in reach.  *)
NoneExpandedTwice ==
  [][phase = "search" /\ phase' = "search" => \A m \in closed : Key(m) # Key(current')]_vars
=============================================================================
