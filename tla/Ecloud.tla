------------------------------- MODULE Ecloud -------------------------------
(***************************************************************************)
(* The distributed tick of OpenCDA's eCloud: the simulation process        *)
(* (ScenarioManager), the orchestrator (ecloud_server, a gRPC callback     *)
(* server whose handlers run on their own threads) and one process per     *)
(* vehicle (vehiclesim.py), from the end of registration to the end of the *)
(* scenario.                                                               *)
(*                                                                         *)
(* The simulation broadcasts a tick with Server_DoTick; the server pushes  *)
(* it to every vehicle from one detached thread each; a vehicle executes   *)
(* it and answers with Client_SendUpdate; the handler whose answer         *)
(* completes the count pushes a tick back to the simulation, which then    *)
(* fetches the vehicles' updates and goes on.                              *)
(*                                                                         *)
(* A definition marked FAULT is not the code's: it is a plausible mistake  *)
(* in the definition that follows it, to try the properties against.       *)
(*                                                                         *)
(* Nothing restrains the interleaving: handlers of different vehicles run  *)
(* beside each other, and a tick is pushed to a process whatever it is     *)
(* doing.  The one thing that goes wrong for that reason, a round that is  *)
(* released twice, is recorded in a history variable, so that the          *)
(* properties can say what holds until it happens.                         *)
(***************************************************************************)
EXTENDS Integers, Sequences, FiniteSets

CONSTANTS
  N,          \* numCars_
  StepCount,  \* STEP_COUNT of the scenario script
  IsEdge,     \* isEdge_ / ScenarioManager.is_edge
  PullEvery,  \* edge_dt / world_dt: every PullEvery-th tick pulls waypoints
  Control,    \* done_behavior = CONTROL (otherwise DESTROY)
  BatchSize,  \* VEHICLE_UPDATE_BATCH_SIZE
  Durations,  \* the values duration_ns of a TICK_OK update can have
  Resends     \* how many answered calls gRPC may deliver a second time

ASSUME ConstantsAssumption ==
  /\ N \in Nat \ {0}
  /\ StepCount \in Nat
  /\ PullEvery \in Nat \ {0}
  /\ BatchSize \in Nat
  /\ Durations \subseteq Nat
  /\ Resends \in Nat
  /\ {IsEdge, Control} \subseteq BOOLEAN

Vehicles == 0 .. N-1
SpectatorIndex == 0

Command == {"TICK", "END", "REQUEST_DEBUG_INFO", "PULL_WAYPOINTS_AND_TICK"}
(* "REGISTERING" is 0, the value of a vehicle_state nobody assigned. *)
VehicleState == {"REGISTERING", "TICK_OK", "TICK_DONE", "DEBUG_INFO_UPDATE"}
FinalState == {"TICK_DONE", "DEBUG_INFO_UPDATE"}

Tick == [id : Int, cmd : Command, dur : Nat]
NoTick == [id |-> -2, cmd |-> "END", dur |-> 0]   \* an empty push queue
MkTick(id, cmd, dur) == [id |-> id, cmd |-> cmd, dur |-> dur]

Update == [v : Vehicles, tick : Int, state : VehicleState, dur : Nat]

(* Ticks 1 .. StepCount+1 drive, the next one asks for the debug data. *)
LastTick == StepCount + 2

CommandOf(t) ==
  IF t = LastTick THEN "REQUEST_DEBUG_INFO"
  ELSE IF IsEdge /\ t % PullEvery = 0 THEN "PULL_WAYPOINTS_AND_TICK"
  ELSE "TICK"
-----------------------------------------------------------------------------
VARIABLES
  (* the simulation *)
  simPc,         \* where run_scenario / server_do_tick / end is
  simTick,       \* ScenarioManager.tick_id
  simQ,          \* push_q: at most one tick, see PushTick
  simLast,       \* the last tick its push server saw
  proxy,         \* per vehicle, the tick whose transform its proxy holds
  (* the server *)
  serverUp,
  tickId,        \* tickId_
  command,       \* command_
  numReplied,    \* numRepliedVehicles_
  numCompleted,  \* numCompletedVehicles_
  repliedCars,   \* { i : repliedCars_[i] }
  pending,       \* pendingReplies_
  handler,       \* per vehicle, the progress of its Client_SendUpdate call
  replies,       \* per vehicle, the local replies_ of that call
  request,       \* per vehicle, the update of that call
  relay,         \* per vehicle, the tick that handler pushes to the simulation
  pushes,        \* the detached PushTick threads of Server_DoTick
  endNext,       \* loop index of Server_EndScenario
  (* the vehicles *)
  vPc, vQ, vLast,
  pong,          \* the tick being executed
  vTick,         \* tick_id
  reportedDone,
  (* history: no guard of the code's reads it *)
  resends,       \* calls delivered twice so far
  release        \* how the handlers found the rounds complete, see below

simVars == <<simPc, simTick, simQ, simLast, proxy>>
countVars == <<numReplied, numCompleted, repliedCars>>
serverVars == <<serverUp, tickId, command, countVars, pending, endNext>>
handlerVars == <<handler, replies, request, relay>>
vehicleVars == <<vPc, vQ, vLast, pong, vTick, reportedDone>>
history == <<resends, release>>
vars == <<simVars, serverVars, handlerVars, pushes, vehicleVars, history>>

SimState == {"loop", "doTick", "answered", "get", "unpack", "end", "ending", "ended"}
HandlerState == {"none", "received", "counted", "loaded", "pushing", "finished"}
(* "due": no handler has found the last round complete yet.  "found": one  *)
(* whose answer the round counts has.  "stray", for good: a handler found  *)
(* a round complete that had been found so before, or before its own       *)
(* answer to it was counted.                                               *)
ReleaseState == {"due", "found", "stray"}
VehiclePc == {"firstGet", "step", "sending", "get", "exited", "crashed"}

TypeOK ==
  /\ simPc \in SimState
  /\ simTick \in 0 .. LastTick
  /\ simQ \in Tick /\ simLast \in Tick
  /\ proxy \in [Vehicles -> Int]
  /\ serverUp \in BOOLEAN
  /\ tickId \in Nat
  /\ command \in Command
  /\ numReplied \in Nat /\ numCompleted \in Nat
  /\ repliedCars \subseteq Vehicles
  /\ pending \in Seq(Update)
  /\ handler \in [Vehicles -> HandlerState]
  /\ replies \in [Vehicles -> Nat]
  /\ request \in [Vehicles -> Update]
  /\ relay \in [Vehicles -> Tick]
  /\ pushes \subseteq [to : Vehicles, tick : Tick]
  /\ endNext \in 0 .. N
  /\ vPc \in [Vehicles -> VehiclePc]
  /\ vQ \in [Vehicles -> Tick] /\ vLast \in [Vehicles -> Tick]
  /\ pong \in [Vehicles -> Tick]
  /\ vTick \in [Vehicles -> Int]
  /\ reportedDone \in [Vehicles -> BOOLEAN]
  /\ resends \in 0 .. Resends
  /\ release \in ReleaseState

(* Registration is over: the simulation took the tick (-1, TICK, 0) that   *)
(* announced it and fetched the registrations once; every vehicle waits    *)
(* for its first tick.  The registrations beyond a batch are still in the  *)
(* mailbox, where a RegistrationInfo is read as an update of tick 1        *)
(* without state or transform.                                             *)
Leftover == IF N <= BatchSize + 1 THEN 0 ELSE N - (BatchSize + 1)
Registration(v) == [v |-> v, tick |-> 1, state |-> "REGISTERING", dur |-> 0]

Init ==
  /\ simPc = "loop" /\ simTick = 0
  /\ simQ = NoTick /\ simLast = MkTick(-1, "TICK", 0)
  /\ proxy = [v \in Vehicles |-> -1]
  /\ serverUp = TRUE /\ tickId = 0 /\ command = "TICK"
  /\ numReplied = (IF Leftover = 0 THEN 0 ELSE N) /\ numCompleted = 0 /\ repliedCars = {}
  /\ pending = [i \in 1 .. Leftover |-> Registration(i-1)]
  /\ handler = [v \in Vehicles |-> "none"]
  /\ replies = [v \in Vehicles |-> 0]
  /\ request = [v \in Vehicles |->
                  [v |-> v, tick |-> 0, state |-> "REGISTERING", dur |-> 0]]
  /\ relay = [v \in Vehicles |-> NoTick]
  /\ pushes = {} /\ endNext = 0
  /\ vPc = [v \in Vehicles |-> "firstGet"]
  /\ vQ = [v \in Vehicles |-> NoTick] /\ vLast = [v \in Vehicles |-> NoTick]
  /\ pong = [v \in Vehicles |-> NoTick]
  /\ vTick = [v \in Vehicles |-> 0]
  /\ reportedDone = [v \in Vehicles |-> FALSE]
  /\ resends = 0 /\ release = "found"
-----------------------------------------------------------------------------
(***************************************************************************)
(* EcloudPushServer.PushTick, the same at the simulation and at a vehicle: *)
(* the tick is remembered; a repetition of the last one is not queued; and *)
(* the handler fails, losing the tick, when the queue is not empty.        *)
(***************************************************************************)
Enqueue(q, last, tick) == IF q = NoTick /\ tick # last THEN tick ELSE q

(* A vehicle's event loop runs the push server whenever the vehicle awaits *)
(* a call or a tick, so it takes a push at any time.  The simulation's     *)
(* loop only runs inside run_until_complete.                               *)
SimTakesPush ==
  \/ simPc \in {"doTick", "answered", "get", "unpack", "end", "ending"}
  \/ simPc = "loop" /\ CommandOf(simTick + 1) = "PULL_WAYPOINTS_AND_TICK"

PushToVehicle(v, tick) ==
  IF vPc[v] \in {"exited", "crashed"}
  THEN UNCHANGED <<vQ, vLast>>         \* the RPC fails, nobody looks
  ELSE /\ vQ' = [vQ EXCEPT ![v] = Enqueue(@, vLast[v], tick)]
       /\ vLast' = [vLast EXCEPT ![v] = tick]
-----------------------------------------------------------------------------
(* The simulation *)

(* broadcast_message: the next tick's number and command, sent to the server. *)
SimBroadcast ==
  /\ simPc = "loop"
  /\ simTick < LastTick
  /\ simTick' = simTick + 1
  /\ simPc' = "doTick"
  /\ UNCHANGED <<simQ, simLast, proxy, serverVars, handlerVars, pushes, vehicleVars, history>>

(* server_do_tick after the call: assert(self.push_q.empty()).  A failure  *)
(* unwinds into run_scenario's finally clause, that is, into end().        *)
SimDoTickReturns ==
  /\ simPc = "answered"
  /\ simPc' = IF simQ = NoTick THEN "get" ELSE "end"
  /\ UNCHANGED <<simTick, simQ, simLast, proxy, serverVars, handlerVars, pushes, vehicleVars, history>>

(* tick = await self.push_q.get(); the first tick returns early, without   *)
(* fetching its updates.                                                   *)
SimGet ==
  /\ simPc = "get"
  /\ simQ # NoTick
  /\ simQ' = NoTick
  /\ simPc' = IF simTick = 1 THEN "loop" ELSE "unpack"
  /\ UNCHANGED <<simTick, simLast, proxy, serverVars, handlerVars, pushes, vehicleVars, history>>

(* Server_GetVehicleUpdates pops from the back, and one more than the      *)
(* batch size; the first Kept positions stay.                              *)
(* FAULT: a batch is BatchSize updates, the rest waits. *)
KeptBehindABatch == IF Len(pending) <= BatchSize THEN 0 ELSE Len(pending) - BatchSize
Kept == IF Len(pending) <= BatchSize THEN 0 ELSE Len(pending) - (BatchSize + 1)

(* FAULT: the counter goes down by what was fetched. *)
GetVehicleUpdatesCountingDown ==
  /\ pending' = SubSeq(pending, 1, Kept)
  /\ numReplied' = numReplied - (Len(pending) - Kept)
GetVehicleUpdates ==
  /\ pending' = SubSeq(pending, 1, Kept)
  /\ numReplied' = IF pending' = <<>> THEN 0 ELSE numReplied

HasTransform(u) ==
  u.state \in {"TICK_OK", "TICK_DONE"} /\ (IsEdge \/ u.v = SpectatorIndex)

(* server_unpack_vehicle_updates sets the proxies in the order of the      *)
(* response: the oldest update of a vehicle is popped last and stays.      *)
UnpackedProxy(v) ==
  LET Mine(i) == i > Kept /\ pending[i].v = v /\ HasTransform(pending[i])
      Oldest(i) == Mine(i) /\ \A j \in DOMAIN pending : Mine(j) => i <= j
  IN  IF \E i \in DOMAIN pending : Oldest(i)
      THEN pending[CHOOSE i \in DOMAIN pending : Oldest(i)].tick
      ELSE proxy[v]

SimUnpackUpdates ==
  /\ simPc = "unpack" /\ CommandOf(simTick) # "REQUEST_DEBUG_INFO"
  /\ GetVehicleUpdates
  /\ proxy' = [v \in Vehicles |-> UnpackedProxy(v)]
  /\ simPc' = "loop"
  /\ UNCHANGED <<simTick, simQ, simLast, serverUp, tickId, command, numCompleted, repliedCars,
                 endNext, handlerVars, pushes, vehicleVars, history>>

(* server_unpack_debug_data fetches until a response is empty. *)
SimUnpackDebug ==
  /\ simPc = "unpack" /\ CommandOf(simTick) = "REQUEST_DEBUG_INFO"
  /\ GetVehicleUpdates
  /\ simPc' = IF pending = <<>> THEN "end" ELSE "unpack"
  /\ UNCHANGED <<simTick, simQ, simLast, proxy, serverUp, tickId, command, numCompleted,
                 repliedCars, endNext, handlerVars, pushes, vehicleVars, history>>

(* The server's assertion killed it: the call fails, and end()'s call too. *)
SimCallFails ==
  /\ ~serverUp
  /\ simPc = "doTick"
  /\ simPc' = "ended"
  /\ UNCHANGED <<simTick, simQ, simLast, proxy, serverVars, handlerVars, pushes, vehicleVars, history>>

(* The call was executed but its answer is lost: gRPC's retry policy for   *)
(* UNAVAILABLE sends it again.                                             *)
SimResend ==
  /\ simPc = "answered"
  /\ resends < Resends
  /\ resends' = resends + 1
  /\ simPc' = "doTick"
  /\ UNCHANGED <<simTick, simQ, simLast, proxy, serverVars, handlerVars, pushes, vehicleVars,
                 release>>
-----------------------------------------------------------------------------
(* The server *)

(* assert(tickId_ == request->tick_id() - 1) *)
(* FAULT: the assertion expects the number the server already has. *)
InSequenceOffByOne == tickId = simTick
InSequence == tickId = simTick - 1

(* The Ping of the PushTick threads. *)
(* FAULT: the message is built before tickId_ moves. *)
PingOfLastTick == MkTick(tickId, CommandOf(simTick), 0)
Ping == MkTick(simTick, CommandOf(simTick), 0)

Server_DoTick ==
  /\ simPc = "doTick" /\ serverUp
  /\ InSequence
  /\ simPc' = "answered"
  /\ repliedCars' = {}
  /\ numReplied' = 0
  /\ tickId' = tickId + 1
  /\ command' = CommandOf(simTick)
  /\ pushes' = pushes \union {[to |-> v, tick |-> Ping] : v \in Vehicles}
  /\ release' = IF release = "stray" THEN "stray" ELSE "due"
  /\ UNCHANGED <<simTick, simQ, simLast, proxy, serverUp, numCompleted, pending, endNext,
                 handlerVars, vehicleVars, resends>>

Server_DoTickAborts ==
  /\ simPc = "doTick" /\ serverUp
  /\ ~InSequence
  /\ serverUp' = FALSE
  /\ repliedCars' = {}
  /\ numReplied' = 0
  /\ UNCHANGED <<simVars, tickId, command, numCompleted, pending, endNext, handlerVars, pushes,
                 vehicleVars, history>>

(* One of Server_DoTick's threads reaches its vehicle. *)
PushTick(p) ==
  /\ p \in pushes
  /\ serverUp
  /\ pushes' = pushes \ {p}
  /\ PushToVehicle(p.to, p.tick)
  /\ UNCHANGED <<simVars, serverVars, handlerVars, vPc, pong, vTick, reportedDone, history>>

(* Which counter an update increments. *)
(* FAULT: the second increment is not in an else branch. *)
CountsOkOrDone(u) == u.state \in {"TICK_OK", "TICK_DONE"}
CountsReplied(u) == u.state = "TICK_OK"
(* FAULT: the debug answer is not counted. *)
CountsDoneOnly(u) == u.state = "TICK_DONE"
CountsCompleted(u) == u.state \in FinalState

(* Client_SendUpdate up to the increments: the update is kept for the      *)
(* simulation if it will be wanted, and counted.  mu_ holds for the append *)
(* at most, nothing holds for what follows.                                *)
SendUpdateCounts(v) ==
  LET u == request[v]
  IN  /\ serverUp
      /\ handler[v] = "received"
      /\ handler' = [handler EXCEPT ![v] = "counted"]
      /\ pending' = IF IsEdge \/ v = SpectatorIndex \/ u.state \in FinalState
                    THEN Append(pending, u) ELSE pending
      /\ repliedCars' = repliedCars \union {v}
      /\ numReplied' = numReplied + (IF CountsReplied(u) THEN 1 ELSE 0)
      /\ numCompleted' = numCompleted + (IF CountsCompleted(u) THEN 1 ELSE 0)
      /\ UNCHANGED <<simVars, serverUp, tickId, command, endNext, replies, request, relay,
                     pushes, vehicleVars, history>>

(* replies_ = numRepliedVehicles_.load(): the first of its two loads. *)
SendUpdateLoadsReplied(v) ==
  /\ serverUp
  /\ handler[v] = "counted"
  /\ handler' = [handler EXCEPT ![v] = "loaded"]
  /\ replies' = [replies EXCEPT ![v] = numReplied]
  /\ UNCHANGED <<simVars, serverVars, request, relay, pushes, vehicleVars, history>>

(* replies_ + completions_ == numCars_, with the second counter as it is   *)
(* when it is loaded.                                                      *)
(* FAULT: off by one. *)
OneShort(v) == replies[v] + numCompleted >= N - 1
RoundComplete(v) == replies[v] + numCompleted = N

(* The second load and the comparison: a call that finds everybody counted *)
(* goes on to push a tick to the simulation ...                            *)
SendUpdateFindsComplete(v) ==
  /\ serverUp
  /\ handler[v] = "loaded"
  /\ RoundComplete(v)
  /\ handler' = [handler EXCEPT ![v] = "pushing"]
  /\ relay' = [relay EXCEPT ![v] = MkTick(request[v].tick, command, request[v].dur)]
  /\ replies' = [replies EXCEPT ![v] = 0]
  /\ release' = IF release = "due" /\ v \in repliedCars THEN "found" ELSE "stray"
  /\ UNCHANGED <<simVars, serverVars, request, pushes, vehicleVars, resends>>

(* ... and the others are answered. *)
SendUpdateFindsOpen(v) ==
  /\ serverUp
  /\ handler[v] = "loaded"
  /\ ~RoundComplete(v)
  /\ handler' = [handler EXCEPT ![v] = "finished"]
  /\ replies' = [replies EXCEPT ![v] = 0]
  /\ UNCHANGED <<simVars, serverVars, request, relay, pushes, vehicleVars, history>>

(* simAPIClient_->PushTick returns when the simulation's push server has   *)
(* answered.                                                               *)
SendUpdateRelays(v) ==
  /\ serverUp
  /\ handler[v] = "pushing"
  /\ SimTakesPush
  /\ handler' = [handler EXCEPT ![v] = "finished"]
  /\ simQ' = Enqueue(simQ, simLast, relay[v])
  /\ simLast' = relay[v]
  /\ UNCHANGED <<simPc, simTick, proxy, serverVars, replies, request, relay, pushes, vehicleVars,
                 history>>

Server_EndScenario ==
  /\ simPc = "end" /\ serverUp
  /\ simPc' = "ending"
  /\ command' = "END"
  /\ UNCHANGED <<simTick, simQ, simLast, proxy, serverUp, tickId, countVars, pending, endNext,
                 handlerVars, pushes, vehicleVars, history>>

EndPing == MkTick(-1, "END", 0)

(* vehicleClients_.size() *)
(* FAULT: the loop stops before the last client. *)
OneClientShort == N - 1
NumClients == N

(* The blocking loop of Server_EndScenario, one vehicle after the other. *)
EndScenarioPushes ==
  /\ simPc = "ending" /\ endNext < NumClients
  /\ PushToVehicle(endNext, EndPing)
  /\ endNext' = endNext + 1
  /\ UNCHANGED <<simVars, serverUp, tickId, command, countVars, pending, handlerVars, pushes,
                 vPc, pong, vTick, reportedDone, history>>

(* end() returns: the simulation terminates the server process. *)
SimEnds ==
  /\ simPc = "ending" /\ endNext = NumClients
  /\ simPc' = "ended"
  /\ serverUp' = FALSE
  /\ UNCHANGED <<simTick, simQ, simLast, proxy, tickId, command, countVars, pending, endNext,
                 handlerVars, pushes, vehicleVars, history>>
-----------------------------------------------------------------------------
(* A vehicle *)

(* The first tick: neither its number is recorded nor its command converted. *)
VehicleFirstGet(v) ==
  /\ vPc[v] = "firstGet"
  /\ vQ[v] # NoTick
  /\ vQ' = [vQ EXCEPT ![v] = NoTick]
  /\ pong' = [pong EXCEPT ![v] = vQ[v]]
  /\ vPc' = [vPc EXCEPT ![v] = IF vQ[v].cmd = "END" THEN "exited" ELSE "step"]
  /\ UNCHANGED <<simVars, serverVars, handlerVars, pushes, vLast, vTick, reportedDone, history>>

(* The state and duration of the update a command produces.  TICK_DONE:    *)
(* no control, or close to the destination.                                *)
Outcome(cmd) ==
  CASE cmd = "REQUEST_DEBUG_INFO" -> {<<"DEBUG_INFO_UPDATE", 0>>}
    [] cmd = "TICK" -> {<<"TICK_DONE", 0>>} \union ({"TICK_OK"} \X Durations)
    [] OTHER -> {<<"REGISTERING", 0>>}

(* reported_done gates the update. *)
(* FAULT: the flag is not looked at. *)
StepsRegardless(v) == vPc[v] = "step"
StepsToAnswer(v) == vPc[v] = "step" /\ ~reportedDone[v]

(* One turn of the main loop, up to the call of Client_SendUpdate. *)
VehicleStepsAndSends(v) ==
  /\ StepsToAnswer(v)
  /\ \E o \in Outcome(pong[v].cmd) :
       request' = [request EXCEPT ![v] =
                     [v |-> v, tick |-> vTick[v], state |-> o[1], dur |-> o[2]]]
  /\ handler' = [handler EXCEPT ![v] = "received"]
  /\ vPc' = [vPc EXCEPT ![v] = "sending"]
  /\ UNCHANGED <<simVars, serverVars, replies, relay, pushes, vQ, vLast, pong, vTick, reportedDone,
                 history>>

(* A vehicle that reported done keeps executing ticks (CONTROL) or exits   *)
(* (DESTROY); it answers in neither case.                                  *)
VehicleStepsDone(v) ==
  /\ vPc[v] = "step" /\ reportedDone[v]
  /\ vPc' = [vPc EXCEPT ![v] = IF ~Control THEN "exited"
                               ELSE IF vQ[v] = NoTick THEN "get" ELSE "crashed"]
  /\ UNCHANGED <<simVars, serverVars, handlerVars, pushes, vQ, vLast, pong, vTick, reportedDone,
                 history>>

(* Client_SendUpdate returned: assert(push_q.empty()). *)
VehicleSent(v) ==
  /\ vPc[v] = "sending" /\ handler[v] = "finished"
  /\ handler' = [handler EXCEPT ![v] = "none"]
  /\ reportedDone' = [reportedDone EXCEPT ![v] = @ \/ request[v].state \in FinalState]
  /\ vPc' = [vPc EXCEPT ![v] = IF vQ[v] = NoTick THEN "get" ELSE "crashed"]
  /\ UNCHANGED <<simVars, serverVars, replies, request, relay, pushes, vQ, vLast, pong, vTick,
                 history>>

VehicleResend(v) ==
  /\ vPc[v] = "sending" /\ handler[v] = "finished" /\ serverUp
  /\ resends < Resends
  /\ resends' = resends + 1
  /\ handler' = [handler EXCEPT ![v] = "received"]
  /\ UNCHANGED <<simVars, serverVars, replies, request, relay, pushes, vehicleVars, release>>

(* The server is gone while a call is open. *)
VehicleCallFails(v) ==
  /\ vPc[v] = "sending" /\ ~serverUp
  /\ vPc' = [vPc EXCEPT ![v] = "crashed"]
  /\ UNCHANGED <<simVars, serverVars, handlerVars, pushes, vQ, vLast, pong, vTick, reportedDone,
                 history>>

(* pong = await push_q.get(); assert(pong.tick_id != tick_id).  A tick     *)
(* that pulls waypoints is executed as a TICK once they are fetched.       *)
VehicleGet(v) ==
  /\ vPc[v] = "get"
  /\ vQ[v] # NoTick
  /\ vQ' = [vQ EXCEPT ![v] = NoTick]
  /\ vTick' = [vTick EXCEPT ![v] = vQ[v].id]
  /\ pong' = [pong EXCEPT ![v] =
                IF vQ[v].cmd = "PULL_WAYPOINTS_AND_TICK" THEN [vQ[v] EXCEPT !.cmd = "TICK"]
                ELSE vQ[v]]
  /\ vPc' = [vPc EXCEPT ![v] = IF vQ[v].id = vTick[v] THEN "crashed"
                               ELSE IF vQ[v].cmd = "END" THEN "exited" ELSE "step"]
  /\ UNCHANGED <<simVars, serverVars, handlerVars, pushes, vLast, reportedDone, history>>
-----------------------------------------------------------------------------
Sim ==
  \/ SimBroadcast \/ SimDoTickReturns \/ SimGet \/ SimUnpackUpdates \/ SimUnpackDebug
  \/ SimCallFails \/ SimEnds

Server ==
  Server_DoTick \/ Server_DoTickAborts \/ Server_EndScenario \/ EndScenarioPushes

Handler(v) ==
  \/ SendUpdateCounts(v) \/ SendUpdateLoadsReplied(v)
  \/ SendUpdateFindsComplete(v) \/ SendUpdateFindsOpen(v) \/ SendUpdateRelays(v)

PushThread(v) == \E p \in pushes : p.to = v /\ PushTick(p)

Vehicle(v) ==
  \/ VehicleFirstGet(v) \/ VehicleStepsAndSends(v) \/ VehicleStepsDone(v)
  \/ VehicleSent(v) \/ VehicleCallFails(v) \/ VehicleGet(v)

Resend == SimResend \/ \E v \in Vehicles : VehicleResend(v)

Next ==
  \/ Sim \/ Server \/ Resend
  \/ \E v \in Vehicles : Handler(v) \/ PushThread(v) \/ Vehicle(v)

Spec == Init /\ [][Next]_vars

(* Every process and thread that can take a step is scheduled eventually:  *)
(* the operating systems' schedulers and the transport guarantee no more.  *)
Fairness ==
  /\ WF_vars(Sim) /\ WF_vars(Server)
  /\ \A v \in Vehicles : WF_vars(Handler(v)) /\ WF_vars(PushThread(v)) /\ WF_vars(Vehicle(v))

FairSpec == Spec /\ Fairness
-----------------------------------------------------------------------------
(* Properties *)

(* The vehicles whose last answer is counted in numCompletedVehicles_. *)
Completed ==
  {v \in Vehicles :
     \/ reportedDone[v]
     \/ /\ handler[v] \in {"counted", "loaded", "pushing", "finished"}
        /\ request[v].state \in FinalState}

(* The round the simulation broadcast last: open from the server's handler *)
(* to the tick the simulation takes from its queue.                        *)
RoundOpen == simPc \in {"answered", "get"}
Awaited == IF RoundOpen THEN Vehicles \ (repliedCars \union Completed) ELSE {}

(* No call was delivered twice, and no round was found complete twice or   *)
(* by a call of an earlier one.  Client_SendUpdate increments the counters *)
(* and loads them without a lock, so the code does not exclude the second  *)
(* (run ecloud_doubleRelease); it is the only thing that breaks what       *)
(* follows, and most properties say what holds until it happens.           *)
ReleasedOnce == release # "stray"
Undisturbed == ReleasedOnce /\ resends = 0

(* v has something left of the last tick: it is still to be pushed, queued,*)
(* executed, or its answer is still to be counted.                         *)
Busy(v) ==
  \/ \E p \in pushes : p.to = v
  \/ vQ[v] # NoTick
  \/ vPc[v] = "step"
  \/ handler[v] = "received"

(* The barrier: between two rounds no vehicle that still takes part has    *)
(* anything left of the last tick, so the world and the next broadcast     *)
(* never run beside a vehicle's step.  Nor does a scenario end beside one, *)
(* even if it does so because a release overtook Server_DoTick's answer.   *)
LockStep ==
  Undisturbed /\ simPc \in {"loop", "doTick", "unpack", "end"} =>
    \A v \in Vehicles \ Completed : ~Busy(v)

(* A vehicle that still takes part executes the tick the simulation        *)
(* broadcast last, never a skipped or an overtaken one.                    *)
InStep ==
  Undisturbed =>
    \A v \in Vehicles :
      vPc[v] = "step" /\ ~reportedDone[v] => pong[v].id = simTick /\ tickId = simTick

(* Server_GetVehicleUpdates pops pendingReplies_ without the lock: no      *)
(* Client_SendUpdate that has still to append to it may exist meanwhile.   *)
MailboxQuiet ==
  Undisturbed /\ simPc = "unpack" => \A v \in Vehicles : handler[v] # "received"

(* The times server_do_tick takes are "the same for ALL vehicles per tick" *)
(* because of the barrier: when it goes on, everybody who takes part has   *)
(* answered the tick.                                                      *)
EveryoneAnswered == simPc = "unpack" => Vehicles \ Completed \subseteq repliedCars

(* When an edge scenario starts its next step, the proxy of every vehicle  *)
(* that still takes part holds the transform of the tick just executed.    *)
(* Not after the second: server_do_tick does not fetch the first tick's    *)
(* updates, which then stay behind and are unpacked over the second's.     *)
ProxiesFreshFromThird ==
  Undisturbed /\ IsEdge /\ simPc = "loop" /\ simTick >= 3 =>
    \A v \in Vehicles \ Completed : proxy[v] = simTick

(* The one way a vehicle is lost while the scenario runs: the next tick    *)
(* overtook the answer to its Client_SendUpdate (or, at a vehicle that is  *)
(* done, its step), so that assert(push_q.empty()) failed.  The round then *)
(* open is the one whose tick the vehicle took with it.                    *)
CrashesOnlyOvertaken ==
  Undisturbed /\ simPc \notin {"ending", "ended"} =>
    \A v \in Vehicles :
      vPc[v] = "crashed" =>
        /\ vQ[v] # NoTick
        /\ v \notin Completed =>
             /\ v \in Awaited
             /\ vQ[v].id = simTick /\ pong[v].id = simTick - 1

(* vehiclesim.py: "assert( push_q.empty() )" once Client_SendUpdate has    *)
(* returned.                                                               *)
QueueEmptyAfterUpdate ==
  \A v \in Vehicles : vPc[v] = "sending" /\ handler[v] = "finished" => vQ[v] = NoTick

(* The assertion of Server_DoTick fails only when a call is delivered      *)
(* twice: no overlap of handlers makes ticks arrive out of sequence.       *)
AbortsOnlyIfRepeated == simPc # "ended" /\ ~serverUp => resends > 0

(* v has a step to take in the open round: it executes, its answer is to   *)
(* be counted, or the tick is on its way to it.                            *)
Working(v) ==
  \/ vPc[v] = "step"
  \/ handler[v] = "received"
  \/ /\ vPc[v] \in {"firstGet", "get", "sending"}
     /\ vQ[v] # NoTick \/ \E p \in pushes : p.to = v

(* The simulation waits in server_do_tick for something that comes: whoever *)
(* is awaited is working, or has crashed because this round's tick overtook *)
(* the answer to its last call; and once everybody has answered, the        *)
(* release is on its way or queued.  No push is dropped as a repetition of  *)
(* the last one, no answer falls out of the count.  (A round that nobody    *)
(* answers is the case of EveryRoundReleases.)                              *)
NobodyWaitsInVain ==
  Undisturbed /\ RoundOpen =>
    /\ \A v \in Awaited :
         Working(v) \/ (vPc[v] = "crashed" /\ vQ[v].id = simTick)
    /\ Awaited = {} /\ repliedCars # {} =>
         simQ # NoTick \/ \E v \in Vehicles : handler[v] \in {"counted", "loaded", "pushing"}

(* Until it is disturbed the protocol implements the barrier: every step   *)
(* is a step of the barrier or leaves it alone.                            *)
Barrier ==
  INSTANCE TickBarrier WITH
    round <- tickId, released <- ~RoundOpen, waiting <- Awaited, done <- Completed

ImplementsBarrier ==
  Barrier!BInit /\ [][Undisturbed' => [Barrier!BNext]_(Barrier!bvars)]_vars

(* What may keep a round from being released although somebody is awaited: *)
(* a second release, or a vehicle overtaken by the round's tick.           *)
Broken == ~Undisturbed \/ \E v \in Vehicles : vPc[v] = "crashed"

(* A round that some vehicle was still to answer is released. *)
RoundReleases == (RoundOpen /\ Awaited # {}) ~> (~RoundOpen \/ Broken)

(* Every round is released. *)
EveryRoundReleases == RoundOpen ~> (~RoundOpen \/ Broken)

(* END can be lost to a vehicle that reported done and drives on (CONTROL):*)
(* nobody waits for it, so its queue may still hold a tick when END comes. *)
MissesEnd(v) == Control /\ v \in Completed

(* end(): "broadcast end to all vehicles"; they all leave their loop.      *)
EveryVehicleExits ==
  simPc = "ending" ~>
    (~Undisturbed \/ \A v \in Vehicles : vPc[v] \in {"exited", "crashed"} \/ MissesEnd(v))
=============================================================================
