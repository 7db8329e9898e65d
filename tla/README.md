# OpenCDA / eCloud in TLA+

A verification project for the program in this repository: TLA+ modules
translated from the source, configurations that model-check them with TLC, and
theorems about them whose proofs TLAPS checks.

`PROJECT.json` is the machine-readable index: which definition models which
lines (`map`), the runs with their properties, a seeded fault per property
(`mutants`), the hazards, the findings and the theorems.

## 1. The system

OpenCDA drives cooperative vehicles in CARLA. In the distributed mode (eCloud)
there are three kinds of processes:

* **the simulation** (`sim_api.py`, a scenario script): owns the CARLA world.
  It announces the scenario, broadcasts one tick after the other and fetches
  the vehicles' updates. Its own gRPC server (`EcloudPushServer`) receives the
  orchestrator's pushes and hands them over through the queue `push_q`;
* **the orchestrator** (`ecloud_server.cc`): a gRPC *callback* server, so every
  call runs on a thread of its own. It counts registrations and answers, keeps
  the mailbox `pendingReplies_`, and pushes ticks to the vehicles (one detached
  thread per vehicle) and to the simulation (in the handler that completes a
  count);
* **one vehicle process each** (`vehiclesim.py`): registers, waits for ticks in
  its own `push_q`, drives a step and answers with `Client_SendUpdate`.

Within a process the rest of OpenCDA is sequential: perception, localization,
planning (behaviour agent, local planner), platooning, edge planning,
co-simulation with SUMO.

### Inventory

| component | state | operations | talks to | hard because | correct when |
|---|---|---|---|---|---|
| orchestrator | `tickId_`, `command_`, `numRepliedVehicles_`, `numCompletedVehicles_`, `repliedCars_`, `pendingReplies_`, `vehicleClients_`, `serializedEdgeWaypoints_` | `Server_StartScenario`, `Client_RegisterVehicle`, `Server_DoTick`, `Client_SendUpdate`, `Server_GetVehicleUpdates`, `Server_PushEdgeWaypoints`, `Client_GetWaypoints`, `Server_EndScenario` | everybody, by gRPC | handlers on threads, a mutex held only in parts, increments and loads apart, detached pushes, retries | rounds never overlap; a round is released once, after everybody answered (the code does not keep the second: section 3, finding 1) |
| push server | `que`, the last tick | `PushTick` | receives from the orchestrator | repeated and late ticks, a queue of one place, handler threads | no tick is lost or executed twice |
| simulation side | `tick_id`, `push_q`, the vehicle proxies | `run_comms`, `server_start_scenario`, `broadcast_message`, `server_do_tick`, the two unpackings, `push_waypoint_buffer`, `end` | orchestrator | answer of a call and push race | proxies hold the step just driven; the scenario ends |
| vehicle client | `tick_id`, `reported_done`, `push_q` | registration, main loop | orchestrator | the next tick may come before its call returns | executes the current tick only; answers its last once |
| edge waypoints, network emulator | `serializedEdgeWaypoints_`, `wp_list`, `latest_wp` | push, fetch, `enqueue_wp`, `fetch_wp`, `update_waypoints` | simulation, orchestrator, local planner | no lock at all, delay as an offset in a list | complete waypoints, exactly one pull late |
| platooning | the platoons' member lists, per vehicle its status, place, front and rear vehicle, gap, black list; the leader's slow-down counter | `create_platoon_manager`, `set_member`, `update_member_order`, `match_platoon`, the state machine of `PlatooningBehaviorAgent.run_step` | V2X, behaviour agent | a joining manoeuvre takes many ticks, in which others join, change their mind or are blocked; what was read of a neighbour goes stale; a list is popped while it is iterated | the members are a chain in the list's order; what a joining CAV has chosen stays meaningful; gaps are opened for somebody |
| V2X, CAV world | registries, vehicles nearby | `update_info`, `search` | all vehicle managers | stale neighbours | what is seen exists |
| behaviour agent | counters and flags for overtaking, car following, stop signs, rerouting | `run_step` | local planner | long sequences of steps, counters that are reset in some branches only | no contradictory modes |
| local planner | waypoint queue, waypoint buffer, trajectory buffer | `run_step`, set/override waypoints | behaviour agent, network emulator | buffers at their limits | the buffer is refilled before it is used up |
| co-simulation | `sumo2carla_ids`, `carla2sumo_ids`, the two simulators' spawned and destroyed actors | `CoScenarioManager.tick`, `close` | SUMO, CARLA | spawns that fail, vehicles that come and go between the steps of one tick, the end by an exception | no echo of an echo; an end at any point leaves at most the one vehicle in hand; `tick` raises only for a loss from outside |
| edge planner | the cars on the road, their slices, the open and closed dictionaries of the search, the commands | `update_information`, `get_slices_clustered`, `AStarPlanner.planning`, `algorithm_step`, `Traffic.time_tick` | edge manager | dictionary keys that leave out a part of the node, conditions between the cars of a slice, positions that go around | every path leads back; a commanded lane change has room; the cars stay on a road that has the lanes of the search |
| perception, localization, PID, geometry | floats | numeric | CARLA | numeric | out of reach |

The behaviours that are hard to test, with the lines where they bite, are the
`hazards` of `PROJECT.json`.

## 2. Modules

| module | what it is |
|---|---|
| `TickBarrier` | abstract: what a tick promises. Rounds of a barrier that vehicles answer or leave for good |
| `Ecloud` | the tick protocol: simulation, orchestrator, push threads, handlers, vehicles, network |
| `Ecloud_proofs` | its inductive invariant and theorems |
| `EcloudRounds_proofs` | on top of it: no tick is taken twice, nobody waits in vain, END reaches everybody, the proxies of an edge scenario are fresh |
| `Registration` | how a scenario starts: the two registrations of every vehicle up to the first tick |
| `Registration_proofs` | its inductive invariant and theorems |
| `EdgeWaypoints` | waypoints pushed, fetched and delayed, on top of the barrier |
| `EdgeWaypoints_proofs` | its inductive invariant and theorems, the refinement of `TickBarrier` among them |
| `Planner` | how one vehicle drives: the handler of a tick with the behaviour agent and the local planner |
| `Planner_proofs` | its inductive invariant and theorems |
| `Platoon`, `MCPlatoon` | vehicles that join platoons, and the platoons TLC checks them with |
| `Platoon_proofs` | its inductive invariant and theorems |
| `EdgePlan`, `MCEdgePlan` | one tick of the edge: slices, A* search, commands, traffic; and the constellations TLC checks |
| `EdgePlan_proofs` | its inductive invariant and theorems |
| `Cosim` | a tick of the co-simulation of CARLA and SUMO, and its end |
| `Cosim_proofs` | its inductive invariant and theorems |

`Registration` ends where `Ecloud` begins: `Ecloud!Init` is the state in which
the simulation has fetched one batch of registrations and every vehicle waits
for its first tick; the registrations beyond a batch (`Leftover`) are still in
the mailbox. It is a registration that went well: no vehicle registered while
`Server_StartScenario` ran, no second release is in the simulation's queue, and
every vehicle's `CARLA_UPDATE` call has returned. What happens otherwise is
`Registration`'s subject (`InTime`, `PushPuts`, `VehicleIsRegistered`).
`EdgeWaypoints` uses the tick as a barrier of one-step answers. Both `Ecloud`
and `EdgeWaypoints` are checked against `TickBarrier`, so what the second
assumes of a round is what the first provides as long as it is undisturbed (below).
`Planner` is the inside of what the other modules take as one step of a vehicle:
it begins when a tick has been taken from `push_q` and ends with the answer. Its
`Edge` actions are `UpdateWaypoints` of `EdgeWaypoints` seen from the planner.
`EdgePlan` is what the simulation computes between two ticks that pull waypoints:
where it moves the cars is what `EdgeWaypoints` pushes. `Platoon` and `Cosim` are
the scenarios without the orchestrator, in one process.

Definitions marked `FAULT` are not the code's: each is a plausible mistake in
the definition after it, used to see that the properties notice it.

### Ecloud

State and code correspond by name: `tickId`, `numReplied`, `numCompleted`,
`repliedCars`, `pending` are the orchestrator's globals; `handler`/`request`/
`relay` are the running `Client_SendUpdate` calls, one per vehicle because a
vehicle awaits its call; `pushes` the detached threads of `Server_DoTick`;
`vPc`, `vQ`, `vLast`, `pong`, `vTick`, `reportedDone` the locals of
`vehiclesim.py`'s `main`; `simPc`, `simTick`, `simQ`, `proxy` the simulation.

* A `Client_SendUpdate` handler appends and counts (`SendUpdateCounts`), loads the
  first counter (`SendUpdateLoadsReplied`), loads the second and compares
  (`SendUpdateFindsComplete`, `SendUpdateFindsOpen`), and pushes the release and
  returns (`SendUpdateRelays`). The code has no lock around these, so the steps of
  different handlers interleave in every order, each as late as it likes.
* `PushTick` of the push server is one step: duplicate test against the last
  tick, then `assert self.que.empty()`, then the queue. A failed assertion loses
  the tick, because the orchestrator only prints the status.
* The scenario script is one loop: ticks 1 .. `StepCount`+1 drive, every
  `PullEvery`-th one pulls waypoints, the next one requests the debug data.
* An assertion that fails in the orchestrator kills it; one that fails in the
  simulation leads to `end()`, one in a vehicle stops that vehicle.
* A tick's driving is one nondeterministic outcome: `TICK_OK` with a duration,
  or `TICK_DONE`. Of an update's content only what a property tells apart is
  kept: vehicle, tick, state, duration.

Pushes reach a process at any time of its life. `Resends`, how many answered calls
gRPC's retry policy delivers again, is the only constant of the environment.

Because the handlers overlap, a round can be found complete by two of them, and the
second release may end the next round before it was answered. From then on next to
nothing holds, and no assumption that the code justifies excludes it. The history
variable `release` therefore records it: Server_DoTick makes it `due`, the handler that finds
the round complete `found`, and a handler that finds a round complete which was
found so before, or before its own answer to it was counted, `stray`, for good.
`Undisturbed` is that this has not happened and no call was delivered twice. Most
properties begin with `Undisturbed =>`: they say what the protocol provides until
the one thing it does not exclude. Two do without (`AbortsOnlyIfRepeated`, and
`NeverRepeatsTick` of `EcloudRounds_proofs`), and `EveryoneAnswered` alone is what the double release breaks.

### Registration

`call` is the running `Client_RegisterVehicle` of each container, with the
steps inside the mutex apart (`RegisterIndexes`, `RegisterAppends`), the load of
the counter and its comparison with `numCars_` (`RegisterLoads`, `RegisterCompares`), the
assertion on `pendingReplies_`, and the three steps of the
simulation's push server thread (compare, remember and assert, put). Handlers
overlap in every way the mutex allows. Every call is delivered once.

`Server_StartScenario` is two steps, because it sets `configYaml_`, upon which vehicles
register, before `numCars_`, and takes no lock. A handler that compares in between
finds no replies to be as many as an unset `numCars_`. The history variable `early`
records that it happened; `StartsComplete`, `AbortsOnlyAfterRelease` and
`SimulationStarts` say what holds unless it did (`InTime`). What it breaks is all they
say: the simulation goes on with nobody there, or the server aborts before it was released.

### EdgeWaypoints

A push is two steps (clear, fill), a fetch two steps (start, end). A fetch that a
push ran beside may return anything it could have seen. The planner's buffer is
represented by the number of the push it was last overridden with; whether a
waypoint is valid on the map is nondeterministic. After `TICK_DONE` a vehicle
under `CONTROL` goes on executing ticks outside the barrier.

### Planner

A tick runs through several modules of the code in one thread; `pc` says where it
is:

| `pc` | code |
|---|---|
| `wait` | `vehiclesim.main` awaits `push_q`; the edge may override (`update_waypoints`) |
| `agent` | `BehaviorAgent.run_step`: counters, steps 0 and 1 |
| `reset` | step 2: the route is finished, `set_destination` back to `end_waypoint` |
| `path` | step 3: `generate_path` with `buffer_filter` |
| `manoeuvre` | steps 4 to 9: push, car following, overtaking, or none |
| `pushed` | the second `generate_path` of a push |
| `local` | `LocalPlanner.run_step`: refill, trajectory, `pop_buffer` |
| `answer` | `VehicleManager.run_step` returned (an exception became speed 0); the control is applied, the tick answered |

`queue` and `buffer` are the lengths of `waypoints_queue` and `_waypoint_buffer`:
every branch of the code that depends on a route depends on these. `goal` is where
the waypoints lead and `dest` is `end_waypoint`. `idle` is a ghost: how often in a
row the buffer was filtered and not refilled, because the step ended in between.
Positions, obstacles, the map and lights are nondeterministic, so every
combination of them is tried in every step, including those that make
`next(...)[0]` raise. The predicates the choices stand for are named in the
comments of the actions.

Left out: the trajectory buffer (with the configured sampling it is rebuilt in
every step), the history of waypoints (it shapes the spline), `hazard_flag` (read
by platooning only), `overtake_allowed` and `lane_change_allowed` (computed anew in
every step from the surroundings), `light_id_to_ignore` and
`stop_sign_wait_count` (they decide how long a light holds the vehicle).

### Platoon

One thread runs the whole scenario: the platoons step (`PlatoonsStep`), then
the single CAVs one after the other (`SingleStep`, `PopMember`); `turn` is the
index of `for i, single_cav in enumerate(single_cav_list)`, from which the loop
itself pops. What makes this hard is not parallelism but staleness: a CAV decides
in one tick whom it joins between, and is inserted there many ticks later.

| state | code |
|---|---|
| `list` | `PlatooningManager.vehicle_manager_list` |
| `platoon`, `inId`, `front`, `rear` | `PlatooningPlugin.platooning_object`, `in_id`, `front_vehicle`, `rear_vechile` |
| `status` | `FSM` |
| `gap` | `current_gap` of `PlatooningBehaviorAgent`, in steps of `run_step_open_gap` |
| `nearby` | `cav_nearby`, to which `V2XManager` adds and from which nothing removes |
| `blacklist` | `platooning_blacklist` |
| `recover`, `pace` | `recover_speed_counter`, `leader_target_speed` |

Every branch of the state machine is an action: `Search` (four outcomes),
`CutInBlocked`, `AskForGap`, `Merge`, `FinishRaises`, `Finish`, `FinishAhead`,
`Abandon`, `FallBehind`, `StayOnCourse`. `SetMember` is `set_member` with the
`update_member_order` it ends with. Where the vehicles are, whom a CAV hears
(`Audible` bounds it), whether a lane is blocked and whether a step raises is
nondeterministic; an exception is caught in `VehicleManager.run_step`, so what was
assigned before it stays, which is why some branches appear twice.

Left out: the white lists, routes, the flag `leader` that nobody reads, and all
speeds but the leader's. `create_platoon_manager` cannot be called at this commit
(`sim_api.py:626-631` constructs a `VehicleManager` with the arguments of an older
version), so `Init` is the state its statements describe, and the module says what
the classes do once they are built.

### EdgePlan

A tick of the edge: `Update` (`update_information` and the clustering), then for
every slice of two cars a search (`BeginSearch`, `Expand`, and `GoalFound` or
`OpenSetEmpty`), then the relayed commands (`Relay`) and one pass of
`Traffic.time_tick`, car by car (`ChangeLane`, `DriveFreely`, `FollowAhead`).
`open` and `closed` are the dictionaries of `AStarPlanner`. What the code stores under
a key is a node of the set, and `Cheapest` keeps one node per key as the
dictionary does. A node's `parent` is the key of the node it was reached from, and
`Path` follows the keys as `calc_final_path` does. The key names positions and
lanes but not speeds, and a node's cost is that of its last motion; both are the
code's, and the properties say what holds in spite of them.

`grid` is `lane_vehicles`, which `time_tick` refreshes only at its end: a car sees
the others where they were before the tick (`Ahead`), but reads the present speed of
the one it finds. Which cars are clustered together and which of several cheapest
nodes `min` returns is nondeterministic. The road has `NumLanes` lanes
(`edge_manager.py:107`, from the yaml) and the search knows `SearchLanes`, always four
(`edge_manager.py:96`); `LanesFit` assumes that the road has at least these, which every
yaml of the repository does and nothing checks. Positions are whole metres and speeds whole
m/s; costs are doubled so that they are integers.

### Cosim

`phase` is which part of `CoScenarioManager.tick` is under way: `SumoTick`;
`SpawnMirror`, `RecordMirror` or `MirrorFails` for every new trip; `PopMirror` and
`DestroyMirror` for those that are gone; `MoveMirrors`; `WorldTick`; `SpawnTwin`,
`RecordTwin` or `TwinFails`; `PopTwin` and `RemoveTwin`; `MoveTwins`. A spawn and its entry in
the dictionary are two steps, and so are the removal of an entry and the destruction:
`newMirror`, `oldMirror`, `newTwin`, `oldTwin` are what the statement under way holds in
between, and an exception or the user's interrupt can come there too. `sumo2carla` and
`carla2sumo` are the dictionaries, `active` is `_active_actors`, `toMirror`, `toTwin`,
`sumoGone`, `carlaGone` are what is still to do of the spawned and destroyed actors.
Trips depart and arrive at SUMO's `simulationStep`; what other clients do in CARLA
becomes visible at `world.tick`, because `get_actor` and `get_actors` read the
snapshot of the last one. Every spawn may fail, and so may every destroy in CARLA, whose
result nobody looks at. The ghosts `mirrors`, `arrived`, `vanished` and `kept` (the mirrors
whose destroy failed) remember what the code does not.

`CloseCarla` and `CloseSumo` are `close`, to which only an exception leads: the tick
raised, or the user interrupted it anywhere. Left out are transforms, vehicle types
and traffic lights. At this commit `CoScenarioManager` passes no `config_file`, which
`sim_api.py:358-359` opens; the class is modelled as it is written.

## 3. Runs

| run | bounds | question |
|---|---|---|
| `ecloud_safety` | 2 vehicles, 4 ticks, edge, pull every 2nd, CONTROL, one repeated call, until a round is released twice | are rounds separate, who is lost and why, is whoever is awaited able to answer, do the proxies hold the last step, when does the server abort, is the protocol a `TickBarrier` |
| `ecloud_live` | 2 vehicles, 3 ticks, DESTROY, batch 0, fair scheduling, rounds released twice included | is every round released, does everybody exit |
| `ecloud_doubleRelease` | 2 vehicles, 3 ticks | violation: two handlers both see the round complete |
| `ecloud_overtaken` | 2 vehicles, 3 ticks | violation: the next tick is queued before `Client_SendUpdate` has returned |
| `ecloud_allDone` | 2 vehicles, fair | violation: with everybody done the next round is never released |
| `registration` | 2 vehicles, batch 0, every overlap, early calls included, fair scheduling | do indices and clients agree, is every registration fetched, when can the server abort, does the simulation start |
| `edge_waypoints` | 2 vehicles, 5 ticks, pull every 2nd, two contents | are waypoints whole when they are fetched, and one pull late |
| `planner` | buffer 7, threshold 6, routes of 1, 3 or 10 waypoints, at most 2 passed per step, counters 3 and 2, `IdleCap` 2 | is the buffer kept alive, does the route lead home and come to an end, is a stalled vehicle really stalled |
| `planner_doneDrives` | the same | violation: a vehicle that reported done drives on |
| `platoon` | platoons of 2 and 1, three single CAVs of which two search, capacity 3, gap of one step, leader slow for one tick | do lists, links, chosen places and open gaps stay consistent; whom does a search find; does everybody drive |
| `edge_plan` | 4 cars on the real grid (4 lanes, 200 m), 39 constellations, every clustering | do cars stay on the road, do paths lead back, has a lane change room, what may slow cars be told |
| `cosim` | 2 trips of SUMO, 3 vehicles of CARLA | is nothing echoed, what does a tick leave over, what does an end at any point leave behind, when does the tick raise |

**Why the bounds suffice.** Two vehicles are enough for one to be late while the
other is done, for both to count at once, and for one to register or release what the
other was about to. Four ticks contain
the first tick (whose fetch is skipped), a pull, an ordinary tick and the
debug request; two rounds after the first suffice for a leftover of one round to
meet the next, since every queue has one place and every thread carries one
tick. `edge_waypoints` has five ticks for a second pull. `BatchSize` is 0 where leftovers
matter (a fetch takes one more), and 3 where
the first tick's updates must fit with the second's, as in the repository's scenarios
(32). `ecloud_safety` alone carries a CONSTRAINT, `ReleasedOnce`. Its properties but two
are about `Undisturbed` states, and a state that is not `ReleasedOnce` never becomes so
again: nothing they speak of is cut off. The two, `TypeOK` and `AbortsOnlyIfRepeated`, are
theorems for every state, and `ecloud_live` goes on after a second release. The
two contents of a buffer distinguish "the same again" from "new". The proofs
remove these bounds for the properties they cover.

In `planner` the sizes are scaled down. The default configuration has 12 places
and a threshold of 9; what matters is that the threshold (6) is two filters of
three waypoints away from 0 and that the buffer has room above it (7 > 6). A route
of one waypoint is finished at once, one of three just not, and one of ten fills
the buffer and leaves a queue of three, more than some refills have room for. The
counters (100 and 90 in the code) only have to run out at different times, and
after a manoeuvre. `IdleCap` is where the ghost has nothing more to say: two idle
steps may use up the buffer.

In `platoon` the first platoon has room for one more member and the second for two, so
that both searching CAVs can be accepted for the last place, join one after the
other, or join different platoons; the third single CAV never searches, and is the
one the loop passes over. A gap of one step is open or closed, and a leader that is
slow for one tick is slow or not: nothing else reads these counters. `edge_plan` has
the smallest number of cars with two slices of two. Its constellations are three
patterns of positions (close together, side by side, around the end of the map), five
of lanes and three of speeds (standing, target, mixed), as far as they are legal. In
`cosim` the third id is for an actor that is spawned after a trip's mirror and a
vehicle's twin; the ids are used once each, which bounds the run.

**Deadlock** is not checked for the protocol and the co-simulation: the scenario ends,
or a process legitimately waits. It is checked in `planner`, `platoon` and `edge_plan`,
which always can go on.

**Fairness.** Weak fairness for the simulation, the orchestrator's own loop, and
per vehicle its handler, its push thread and its process: a runnable process or
thread runs eventually. That is all the operating system and gRPC provide;
nothing is assumed about order, and no action is assumed to be chosen (a vehicle
may answer `TICK_OK` for ever).

In `planner` the code's part is weak fairness of the whole step: ticks arrive and
are handled. That a route comes to its end also depends on the world, and no
schedule of the code provides that. `FairSpec` names these assumptions as strong
fairness of four outcomes: neither the box around the destination nor a light, an
exception, an obstacle or a dead end holds the vehicle for ever, and while it drives it passes
waypoints. `ReturnsToGlobalRoute` has a premise in addition: a vehicle that begins a
new manoeuvre again and again need not return.

In `platoon` weak fairness of `Next` says that the scenario's loop keeps running.

### Findings

The violation runs are disagreements between the code and what its comments, log
messages or assertions say; `PROJECT.json` quotes the lines.

1. `ecloud_server.cc:267-289` increments, then loads: two handlers can both find
   the round complete and release it twice, so that the next round ends early
   (`ecloud_doubleRelease`).
2. The handler of the last vehicle pushes the release before it returns, so the next
   tick may be in that vehicle's queue when `vehiclesim.py:342` asserts that it is empty
   (`ecloud_overtaken`). The vehicle stops, and the round waits for it for ever.
3. When every vehicle has answered `TICK_DONE`, nobody completes the next count
   and `server_do_tick` waits for ever (`ecloud_allDone`).
4. `VehicleManager.run_step` refuses to progress a done vehicle when it is told a
   speed of -1 (`vehicle_manager.py:497-500`), but `vehiclesim.py:274` tells it 0,
   and the agent takes 0 for "not given" (`behavior_agent.py:970-972`). Once the
   vehicle is out of the 10 m box around its destination (a long braking distance
   is enough) it turns back to it at cruising speed (`planner_doneDrives`).

Met while modelling, without a run of their own:

* *Tick protocol.* The release can be pushed while the simulation still awaits the answer of
  the `Server_DoTick` that opened the round, because the pushes are detached threads: the
  assertion at `sim_api.py:299` then ends the scenario (`SimDoTickReturns`). Under CONTROL a
  vehicle that reported done drives on without being waited for, so its queue can hold a
  tick when END is pushed; `ecloud_comms.py:130` then loses END, and the vehicle takes the tick
  and waits for ever (`MissesEnd`). `sim_api.py:305` returns early
  at the first tick and leaves its updates in the server; the mailbox is popped from
  the back, so at the second tick the older transform is unpacked last and wins.
  From the third tick on the proxies are fresh, provided that the answers to two
  ticks fit into one batch: with the batch of 32, up to 16 vehicles (section 4).
  A scenario whose first tick pulls waypoints (`PullEvery = 1`) is answered with a
  state nobody counts (`vehiclesim.py:243`). A repeated `Server_DoTick` fails
  the assertion at `ecloud_server.cc:405`.
* *Registration.* `Server_StartScenario` lets vehicles register (`ecloud_server.cc:452`)
  before it sets how many there are (455): a REGISTERING call in between finds 0 replies
  of 0 and releases the simulation with nobody there, or, when it is late, fails the
  assertion at 389 (`early`; the run contains both). Two handlers that both see the last
  `CARLA_UPDATE` can fail that assertion too, once the simulation has fetched. And both can get their
  push past `is_dupe`, which compares and remembers in two steps: the second tick is put
  behind the simulation's `get`, and the assertion at `sim_api.py:299` fails at
  the first tick. The first tick can meet the assertion at `vehiclesim.py:237`.
* *Edge waypoints.* A vehicle that is done (CONTROL) fetches outside the barrier,
  beside the clear of the next push; neither handler takes a lock.
* *Planner.* The -1 of the first `set_destination` is read by
  nobody, and the vehicle then answers every tick without moving (`StalledStays`). The
  exception its agent raises is logged as "setting to done" (`vehicle_manager.py:506`), but the
  vehicle answers `TICK_OK` and never reports done.
* *Platooning.* `in_platoon` is compared and never called (`platooning_plugin.py:191`), so
  a search raises on any CAV nearby that has no platoon, and two CAVs that have heard
  each other never join (`BlindedForEver`). The capacity counts members and not accepted
  requests (`platooning_manager.py:181`), so two CAVs accepted one after the other can
  exceed it. With two joiners before one member, the first to finish closes the gap
  the second is still cutting into. `calculate_gap` divides by a speed of zero
  (`platoon_behavior_agent.py:302`). The loop pops from the list it iterates and passes
  over a CAV for one tick (`platoon_joining_2lanefree_carla.py:78-81`).
* *Edge planning.* Intentions are written when all slices are planned, so a slice never
  sees those of another, and two slices can be sent into the same lane at the same
  place; what `LaneChangesHaveRoom` says of other slices is about where they are. Of two
  cars in a slice only the one with the lower index is checked against the lane the
  other one leaves. A search without success returns the start, and its lanes are then
  commanded as speeds (`edge_manager.py:387`). The search looks 0.2 s ahead while the
  traffic moves by `search_dt` of 2 s, and a car that changes lanes does not advance.
  Because a node's key has no speeds, a pair too slow to move a metre in 0.2 s can
  only change lanes (`SlowPairsChangeLane`). `car_lane_shift` allows one lane too many; the limits
  of the search keep it from happening (`TypeOK`), but these are always four lanes
  (`edge_manager.py:96`): on a road with fewer a car is sent off the grid.
* *Co-simulation.* `close` stops at the first twin that has vanished and leaves the
  others in SUMO (`cosim_api.py:340`). A vehicle spawned and not yet recorded, or forgotten
  and not yet destroyed, when the scenario ends stays (`LeavesOneBehind` says that it is one
  at most), and so does a mirror whose destroy failed. A failed spawn is never retried, so that vehicle
  stays invisible to the other side.

## 4. Proofs

Every safety property and action property of a passing run is a theorem, for every
value of the constants.

**`Ecloud_proofs`**, for every number of vehicles, scenario length, edge or not,
CONTROL or DESTROY, any batch size, pushes at any time and handlers that overlap in
any way. There is no assumption on the environment. `TypeCorrect` holds always; the
others hold until the scenario is disturbed: `Inductive` is
`Spec => [](Undisturbed => IInv)`. Without that they are false
(`ecloud_doubleRelease`). So the proof shows more than the protocol without overlap
would: overlapping handlers that are not late by a whole round change nothing.

`LockStep` is not inductive. The invariant `IInv` adds:

* `ServerInv`: the server's tick is the simulation's (one behind while the call is
  on its way), and it is up until the end;
* `CallInv`: a running call belongs to an open round and to a vehicle that awaits
  it, and marks the vehicle as having replied exactly when counted;
* `WorkInv`: a vehicle that takes part has at most one piece of work (a push
  thread, a queued tick, a step), it is the current tick, and the vehicle has not
  replied yet;
* `ReleaseInv`: what a handler has loaded is not more than what is counted, so it finds
  the round complete only when it is; the first to do so moves `release` to `found`, so
  at most one release is on its way, and only when everybody has replied or is done.
  A handler left over from an earlier round, or a second one of this round, would
  make it `stray`;
* `CountInv`: the counters never exceed the sizes of the sets they stand for. This
  is what turns `replied + completed = N` into "everybody" (`CountComplete`, by
  cardinalities of disjoint finite sets).

From `IInv` follow `LockStep`, `InStep`, `MailboxQuiet` (why the unlocked
`Server_GetVehicleUpdates` is safe), `EveryoneAnswered`, and the refinement of
`TickBarrier` (`BarrierImplemented`), step by step. `AbortsOnlyIfRepeatedHolds` does
without `Undisturbed`: however handlers overlap, a server that nobody called twice is in
sequence with the simulation (`SequenceInv`).

**`EcloudRounds_proofs`** has four parts, each on top of `IInv` or of the types alone.

*No tick is executed twice.* `NeverRepeatsTickHolds` has no assumption: handlers may overlap,
pushes overtake each other, calls be delivered again. A tick is pushed to
a vehicle once, so what is still in a push thread is none of the ticks the vehicle has seen
(`PushedOnce`), and what is queued is not what it executed last (`SeenInv`).

*Nobody waits in vain.* `NobodyWaitsInVainHolds` is the safety core of `RoundReleases`: in
`server_do_tick` the simulation waits for something that comes, until it is disturbed, or
for a vehicle whose assertion failed because this round's tick overtook an answer. Its one
assumption is on the configuration, `FirstTickCounts`. It excludes an edge scenario that pulls waypoints at every tick:
its first tick is a PULL, which `vehiclesim.py:243` answers without looking at the
command, and the server counts that answer nowhere; the round is then never released, and
the theorem is false. `RoundInv` says, while a round is open, what has not been taken yet
(`UntakenInv`), that who replied has counted or is about to (`AnsweredInv`, `CountedInv`), that
whoever is awaited has a push, a queued tick, a step or a call of this round
(`VoiceInv`, `AliveInv`), that a release on its way names this round and not the one the push
server would take for a repetition (`RelayInv`), and that a round whose last answer was
counted is released (`DueInv`).

*The end.* `CrashesOnlyOvertakenHolds`: until it is disturbed or END is broadcast, a
vehicle is lost in one way only, to a tick that overtook the answer to its call or its step;
`CrashInv` adds that this tick is still in its queue and which tick it executed last.
`EndReachesEveryoneHolds` is the safety core of
`EveryVehicleExits`. When `end()` has returned, every vehicle has
left its loop, or END is queued at the `get` it awaits, or it has reported done and leaves
after one more tick; the vehicle END can miss is named, one that reported done under
CONTROL (`MissesEnd`). `LeavingInv` says this of
the vehicles `Server_EndScenario` has passed.

*The proxies.* `ProxiesFreshFromThirdHolds` has `TwoTicksFit` (`2 * N <= BatchSize + 1`, one more
than a batch being what a response holds) as an assumption on the configuration. The first tick's answers are
fetched with the second's; were one of them left behind, it would be at the front of the
mailbox and be unpacked over the third's. `FreshInv` says how many updates the mailbox can
hold in which part of which round (`LengthInv`), that from the third round on it has one
update of each vehicle that answered, of this round (`MailboxInv`), and that answers
name their tick and vehicle (`AnswerInv`, `FirstInv`). A response then empties the mailbox,
and the only update of a vehicle is what its proxy gets.

**`EdgeWaypoints_proofs`**, for any number of vehicles, any period greater than one,
and any number of ticks. `IInv` has three parts: between two pushes the server holds the
last one whole (`HeldInv`); a vehicle that takes part has one piece of work, in the
open round (`WorkInv`, so no fetch runs beside a push); and its list holds the pushes of the
ticks it executed, in order (`ListInv`, from which the delay of one pull follows).
`FetchSeesPush`, `EveryPushFetched`, `OnePullLate` and the refinement of `TickBarrier` are
consequences.

**`Registration_proofs`**, for any number of vehicles and any overlap: the lock,
the running calls and the places in `vehicleClients_` agree (`IInv`), hence a
vehicle's index names its own push client (`IndexNamesClientHolds`). The
invariant is needed because index and place are assigned in two steps; it says
that a fresh index is the next place for as long as the lock is held. For the start
itself `StartInv` adds what is counted: until the simulation is released the counter,
the mailbox and the set of the vehicles that have registered are of the same size
(`CountInv`, `PlaceInv`), so a release means that everybody is there (`ReadyInv`), and what
was fetched together with what is left is everybody (`FetchedInv`). `StartsCompleteHolds`
and `AbortsOnlyAfterReleaseHolds` follow. All of this is claimed under `InTime` only,
unless a call was compared with `numCars_` before `Server_StartScenario` set it: the
invariant is `InTime => ...`, and the step that ends `InTime` is an action of the model.

`StartNeverStuckHolds` is the safety core of `SimulationStarts`. While the simulation awaits
the vehicles and the server lives, a tick is queued for it or somebody has a step to take:
if nobody had, every vehicle would have registered and counted, so the count would be
complete (`MissingMoves`, by cardinality). Once it is complete, a handler that will find it so or is
already pushing is alive (`WakeInv`), and `is_dupe` drops its push only after another one was
recorded, whose thread is still to put it.

**`Planner_proofs`**, for every size of the buffer and its threshold, any lengths of
routes, any speed and any waiting times. The invariant `IInv` is the type, where
the route leads (`RouteLeadsHome`), and three facts:

* `BudgetInv`: `BrakingBudget` at every point of a step and not only between two. It
  is needed because the waypoints a step filters are counted in `idle` only when
  the step ends without a refill: in between there are up to three more to lose.
* `DestInv`: a vehicle without `end_waypoint` never gets past the test for its
  end, so it never refills or pops;
* `AliveInv`: past `generate_path` the buffer has waypoints if the queue has, so a
  stalled vehicle cannot reach the refill. This is why `StalledStays` holds: an
  empty buffer raises at `local_planner_behavior.py:277` before it is refilled.

`BrakingBudgetHolds` and `RouteLeadsHomeHolds` follow from `IInv`;
`StalledStaysHolds` and `OvertakeNotInterruptedHolds` are shown action by action.
`TemporaryRouteRunsOutHolds` is the safety core of `ReturnsToGlobalRoute`: on a temporary route
`queue + buffer` never grows, every step that passes waypoints lowers it, and a step that finds
it nearly finished goes home, unless a manoeuvre or a waypoint of the edge interferes.

**`Platoon_proofs`**, for any platoons, single CAVs, capacity, gap and hearing. The
properties are inductive only together: `IInv` is `TypeOK`, `MembersInOrder`,
`JoinPointStands` and `GapIsForSomebody`. An insertion keeps the links right only if
the place the joining CAV chose long ago still lies between two members in this
order (`JoinPointStands`), and whoever is inserted has no link beyond the list's ends;
and the chosen place survives the insertion of others because the list's order does.
The lemmas about the list say, point by point, what `list.insert` and `list.pop` do.
`BlindedForEverHolds` is an action property that follows from `IInv`, and so are two about
what a step does to a list: `OrderKeptHolds` (members neither leave nor overtake each other)
and `JoinsWhereChosenHolds` (a CAV becomes a member right behind the front vehicle it was
given when it was accepted, however many have joined since). Both use that only
`Finish` and `FinishAhead` touch a list (`ListsChangeByJoining`). `NobodyIsForgottenHolds` and
`LoopEndsHolds` are the safety core of `EveryoneDrives`: popping from the list that is iterated
never loses a CAV that is still single, and every step of the loop leaves less of it.

**`EdgePlan_proofs`**, for any number of cars, any map, speeds, constellation and clustering, and
any road that has at least the lanes of the search (`LanesFit`; on any other the type is false). `SearchInv` says that no key is in both dictionaries or twice in one, and that
every node is the start or reached from it by one, two, three (or, if open, four) verified
motions through closed nodes, which is why `calc_final_path` terminates at the start.
`PlanInv` says what the commands of the slices planned so far have room for, `TickInv`
that a car with an intention has a lane on that side. From these follow `PathsLeadBack`,
`LaneChangesHaveRoom`, `SlowPairsChangeLane`, and the type (no car leaves the grid).
That the `while 1` of the search ends is shown by three theorems: no place is
expanded twice (`NoneExpandedTwiceHolds`), every expansion therefore adds one to the closed nodes
(`ExpansionsAddUpHolds`), and these cannot be more than the places in reach, which are
finitely many because a node is at most three motions from the start
(`SearchIsBoundedHolds`, by an injection of the closed nodes into the places).

**`Cosim_proofs`**, for any trips and any ids. `HeldInv` says what the statement under way
can hold, which is one vehicle at most; `IdInv` which ids are fresh; `MirrorInv`
and `TwinInv` what the two dictionaries, the vehicle in hand and the lists of news hold in each
part of the tick; `KeptInv` that a mirror whose destroy failed, or is still to come, was there in the last
tick, so it is no new vehicle of CARLA's and gets no twin; `LossInv` that whoever is missing from a simulator was lost there; `EndInv` what
`close` leaves, wherever tick was cut off. The parts of the tick have different invariants because a vehicle may
be in a dictionary and already gone, but only until the step that removes it.

**Only model-checked:** what needs fairness (`RoundReleases`, `EveryVehicleExits`,
`SimulationStarts`, `ReturnsToGlobalRoute`, `EveryoneDrives`): liveness under fairness is
beyond the prover. For each of them the proofs have its safety core instead, for every value of
the constants: that somebody can always move (`NobodyWaitsInVain`, `EndReachesEveryone`,
`StartNeverStuck`, `NobodyIsForgotten`), or that something gets less with every step
(`TemporaryRouteRunsOut`, `LoopEnds`, `ExpansionsAddUp`). What remains to the runs is that
the fair steps are then taken, and that these facts add up to the goal.

**Only proved**, without a run: the safety cores above, `NeverRepeatsTick`,
`OvertakeNotInterrupted` and `EveryPushFetched`.

## 5. Not modelled, and why

Perception, localization, control, geometry and the continuous part of edge
planning are floating-point computations without discrete state. `yolov5` is
vendored. Building the world and spawning traffic are calls into CARLA. Reports
and plots run after the scenario. Repeated registration calls and a torn append to
the mailbox (`ecloud_server.cc:260` takes no lock) are listed as hazards.

Of platooning the trajectories, of V2X the noise and lag of the positions (whose lag is off by one step, `v2x_manager.py:118` and `:146`), of the
edge planner the clustering itself (any grouping into at most two is allowed instead),
and of the co-simulation transforms, vehicle types and traffic lights are left
out. The edge's plugin and behaviour agent are a thin layer over the modelled planner.
Most of what remains of the repository's lines is the perception network, sensors,
plotting and geometry.

## 6. Plan

What could come next:

1. `Ecloud`: a version of `Client_SendUpdate` that increments, loads and compares in one
   step, to show that it repairs finding 1: `Undisturbed` would become an invariant.
2. `Planner`: the stop sign and light counters, so that the assumption on lights can
   be replaced by what the code provides; the composition with `EdgeWaypoints`.
3. `EdgePlan` composed with `EdgeWaypoints`: what a vehicle drives is one pull behind
   what the edge planned from.
4. `Platoon`: trajectories in front of the members as cells, to relate an open gap to the
   room it makes.
5. `Cosim`: traffic lights, whose states are copied in both directions.
6. Proofs: what survives of a round when a call is delivered again (`Undisturbed` without its
   second half), and the step from the safety cores to the liveness properties as far as it
   can be said without fairness: one measure per round, start and tick that every step lowers.
