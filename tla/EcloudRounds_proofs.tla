------------------------ MODULE EcloudRounds_proofs -------------------------
(***************************************************************************)
(* What happens to a tick between its broadcast and the next one, for any  *)
(* number of vehicles: no push, answer or release is lost (the safety that *)
(* the liveness of the rounds rests on), the end of the scenario reaches   *)
(* every vehicle, and the proxies an edge scenario plans from hold the     *)
(* transforms of the tick just executed.                                   *)
(***************************************************************************)
EXTENDS Ecloud_proofs

(***************************************************************************)
(* 1. A vehicle sees a tick once.                                          *)
(***************************************************************************)

(* A tick is pushed to a vehicle once: what is still in a thread is none   *)
(* of the ticks the vehicle has seen, and none is ahead of the server.     *)
PushedOnce ==
  \A p \in pushes :
    /\ p.tick.id \in 1 .. tickId /\ p.tick.cmd = CommandOf(p.tick.id)
    /\ p.tick.id \notin {vLast[p.to].id, vQ[p.to].id, vTick[p.to]}
    /\ \A q \in pushes : q.to = p.to /\ q.tick.id = p.tick.id => q = p
SeenInv ==
  \A v \in Vehicles :
    /\ vLast[v].id <= tickId /\ vQ[v].id <= tickId /\ vTick[v] <= tickId
    /\ vQ[v] \in {NoTick, EndPing} \/ (vQ[v].id >= 1 /\ vQ[v].cmd = CommandOf(vQ[v].id))
    /\ vPc[v] # "exited" => vTick[v] >= 0 /\ (vQ[v] # NoTick => vQ[v].id # vTick[v])
DeliveredInv == PushedOnce /\ SeenInv

LEMMA TypesOfSeen ==
  ASSUME TypeOK
  PROVE  /\ tickId \in Nat /\ pushes \subseteq [to : Vehicles, tick : Tick]
         /\ vQ \in [Vehicles -> Tick] /\ vLast \in [Vehicles -> Tick] /\ vTick \in [Vehicles -> Int]
         /\ vPc \in [Vehicles -> VehiclePc]
         /\ \A v \in Vehicles : vQ[v].id \in Int /\ vLast[v].id \in Int /\ vTick[v] \in Int
         /\ \A p \in pushes : p.to \in Vehicles /\ p.tick \in Tick /\ p.tick.id \in Int
         /\ simTick \in Nat
<1>1. /\ tickId \in Nat /\ pushes \subseteq [to : Vehicles, tick : Tick]
      /\ vQ \in [Vehicles -> Tick] /\ vLast \in [Vehicles -> Tick] /\ vTick \in [Vehicles -> Int]
      /\ vPc \in [Vehicles -> VehiclePc]
  BY DEF TypeOK
<1>2. simTick \in Nat
  BY ConstantsAssumption DEF TypeOK, LastTick
<1>3. \A t \in Tick : t.id \in Int
  BY DEF Tick
<1> QED BY <1>1, <1>2, <1>3

LEMMA DeliveredInit == Init => DeliveredInv
BY NoTickType DEF Init, DeliveredInv, PushedOnce, SeenInv, NoTick

(* A tick with a new number goes to every vehicle. *)
LEMMA DoTickDelivered == ASSUME TypeOK, DeliveredInv, Server_DoTick PROVE DeliveredInv'
<1> USE TypesOfSeen DEF Server_DoTick, vehicleVars
<1>1. tickId' = tickId + 1 /\ simTick = tickId + 1
  BY DEF InSequence
<1>2. Ping.id = tickId + 1 /\ Ping.cmd = CommandOf(tickId + 1)
  BY <1>1 DEF Ping, MkTick
<1>3. SeenInv'
  BY <1>1 DEF DeliveredInv, SeenInv
<1>4. PushedOnce'
  <2> SUFFICES ASSUME NEW p \in pushes'
               PROVE  /\ p.tick.id \in 1 .. tickId + 1 /\ p.tick.cmd = CommandOf(p.tick.id)
                      /\ p.tick.id \notin {vLast[p.to].id, vQ[p.to].id, vTick[p.to]}
                      /\ \A q \in pushes' : q.to = p.to /\ q.tick.id = p.tick.id => q = p
    BY <1>1 DEF PushedOnce
  <2>1. \A q \in pushes' : \/ q \in pushes /\ q.tick.id \in 1 .. tickId
                           \/ q.to \in Vehicles /\ q = [to |-> q.to, tick |-> Ping]
    BY DEF DeliveredInv, PushedOnce
  <2>2. \A q \in pushes' : q \in pushes \/ q.tick.id = tickId + 1
    BY <1>2, <2>1
  <2>3. CASE p \in pushes
    BY <2>1, <2>2, <2>3 DEF DeliveredInv, PushedOnce
  <2>4. CASE p \notin pushes
    <3>1. p.to \in Vehicles /\ p.tick = Ping /\ p = [to |-> p.to, tick |-> Ping]
      BY <2>1, <2>4
    <3>2. p.tick.id \notin {vLast[p.to].id, vQ[p.to].id, vTick[p.to]}
      BY <1>2, <3>1 DEF DeliveredInv, SeenInv
    <3>3. \A q \in pushes' : q.to = p.to /\ q.tick.id = p.tick.id => q = p
      <4> SUFFICES ASSUME NEW q \in pushes', q.to = p.to, q.tick.id = p.tick.id PROVE q = p
        OBVIOUS
      <4>1. q.tick.id = tickId + 1
        BY <1>2, <3>1
      <4>2. q = [to |-> q.to, tick |-> Ping]
        BY <2>1, <4>1
      <4> QED BY <3>1, <4>2
    <3> QED BY <1>2, <3>1, <3>2, <3>3
  <2> QED BY <2>3, <2>4
<1> QED BY <1>3, <1>4 DEF DeliveredInv

(* A push leaves its thread when it reaches the vehicle. *)
LEMMA PushDelivered ==
  ASSUME TypeOK, DeliveredInv, NEW p \in pushes, PushTick(p) PROVE DeliveredInv'
<1> USE TypesOfSeen DEF DeliveredInv
<1>1. /\ UNCHANGED <<tickId, vPc, vTick>> /\ pushes' = pushes \ {p}
      /\ PushToVehicle(p.to, p.tick)
  BY DEF PushTick, serverVars
<1>2. \A v \in Vehicles :
        /\ vQ'[v] \in {vQ[v], p.tick} /\ (v # p.to => vQ'[v] = vQ[v])
        /\ vLast'[v] \in {vLast[v], p.tick} /\ (v # p.to => vLast'[v] = vLast[v])
  BY <1>1 DEF PushToVehicle, Enqueue
<1>3. SeenInv'
  BY <1>1, <1>2 DEF SeenInv, PushedOnce
<1>4. PushedOnce'
  BY <1>1, <1>2 DEF PushedOnce
<1> QED BY <1>3, <1>4

LEMMA EndDelivered ==
  ASSUME TypeOK, DeliveredInv, EndScenarioPushes PROVE DeliveredInv'
<1> USE TypesOfSeen DEF DeliveredInv
<1>1. /\ UNCHANGED <<tickId, vPc, vTick, pushes>> /\ PushToVehicle(endNext, EndPing)
  BY DEF EndScenarioPushes
<1>2. EndPing.id = -1 /\ EndPing.cmd = "END"
  BY DEF EndPing, MkTick
<1>3. \A v \in Vehicles : vQ'[v] \in {vQ[v], EndPing} /\ vLast'[v] \in {vLast[v], EndPing}
  BY <1>1 DEF PushToVehicle, Enqueue
<1>4. SeenInv' /\ PushedOnce'
  BY <1>1, <1>2, <1>3 DEF SeenInv, PushedOnce
<1> QED BY <1>4

(* A vehicle takes its tick and remembers the number, or not (the first).  *)
LEMMA TakenDelivered ==
  ASSUME TypeOK, DeliveredInv, NEW v \in Vehicles, VehicleFirstGet(v) \/ VehicleGet(v)
  PROVE  DeliveredInv'
<1> USE TypesOfSeen DEF DeliveredInv
<1>1. UNCHANGED <<tickId, pushes, vLast>> /\ vQ' = [vQ EXCEPT ![v] = NoTick] /\ vQ[v] # NoTick
  BY DEF VehicleFirstGet, VehicleGet, serverVars
<1>2. \/ UNCHANGED vTick
      \/ vTick' = [vTick EXCEPT ![v] = vQ[v].id]
  BY DEF VehicleFirstGet, VehicleGet
<1>3. \A w \in Vehicles : w # v => vPc'[w] = vPc[w]
  BY DEF VehicleFirstGet, VehicleGet
<1>4. vPc[v] # "exited"
  BY DEF VehicleFirstGet, VehicleGet
<1>5. NoTick.id = -2
  BY DEF NoTick
<1>6. PushedOnce'
  BY <1>1, <1>2, <1>5 DEF PushedOnce
<1>7. SeenInv'
  <2>1. vTick'[v] >= 0 \/ vPc'[v] = "exited"
    BY <1>2, <1>4 DEF SeenInv, EndPing, MkTick, VehicleFirstGet, VehicleGet, VehiclePc
  <2>2. vTick'[v] <= tickId /\ vQ'[v] = NoTick
    BY <1>1, <1>2 DEF SeenInv
  <2>3. ASSUME NEW w \in Vehicles, w # v
        PROVE  vTick'[w] = vTick[w] /\ vQ'[w] = vQ[w] /\ vPc'[w] = vPc[w]
    BY <1>1, <1>2, <1>3, <2>3
  <2> QED BY <1>1, <1>5, <2>1, <2>2, <2>3 DEF SeenInv
<1> QED BY <1>6, <1>7

LEMMA DeliveredNext == ASSUME TypeOK, DeliveredInv, [Next]_vars PROVE DeliveredInv'
<1>1. ASSUME UNCHANGED <<tickId, pushes, vQ, vLast, vTick>>,
             \A v \in Vehicles : vPc[v] = "exited" => vPc'[v] = "exited"
      PROVE  DeliveredInv'
  BY <1>1 DEF DeliveredInv, PushedOnce, SeenInv
<1>2. CASE Sim
  BY <1>1, <1>2 DEF Sim, SimBroadcast, SimDoTickReturns, SimGet, SimUnpackUpdates, SimUnpackDebug,
                    SimCallFails, SimEnds, serverVars, vehicleVars
<1>3. CASE Server
  <2>1. CASE Server_DoTickAborts \/ Server_EndScenario
    BY <1>1, <2>1 DEF Server_DoTickAborts, Server_EndScenario, vehicleVars
  <2> QED BY <1>3, <2>1, DoTickDelivered, EndDelivered DEF Server
<1>4. CASE Resend
  BY <1>1, <1>4 DEF Resend, SimResend, VehicleResend, serverVars, vehicleVars
<1>5. ASSUME NEW v \in Vehicles, Handler(v) PROVE DeliveredInv'
  BY <1>1, <1>5 DEF Handler, SendUpdateCounts, SendUpdateLoadsReplied, SendUpdateFindsComplete,
              SendUpdateFindsOpen, SendUpdateRelays, serverVars,
              vehicleVars
<1>6. ASSUME NEW v \in Vehicles, PushThread(v) PROVE DeliveredInv'
  BY <1>6, PushDelivered DEF PushThread
<1>7. ASSUME NEW v \in Vehicles, Vehicle(v) PROVE DeliveredInv'
  <2>1. CASE VehicleStepsAndSends(v) \/ VehicleStepsDone(v) \/ VehicleSent(v) \/ VehicleCallFails(v)
    <3>1. UNCHANGED <<tickId, pushes, vQ, vLast, vTick>> /\ vPc[v] # "exited"
      BY <2>1 DEF VehicleStepsAndSends, StepsToAnswer, VehicleStepsDone, VehicleSent,
                  VehicleCallFails, serverVars
    <3>2. \A w \in Vehicles : vPc[w] = "exited" => vPc'[w] = "exited"
      BY <2>1, <3>1, TypesOfSeen DEF VehicleStepsAndSends, VehicleStepsDone, VehicleSent,
                                     VehicleCallFails
    <3> QED BY <1>1, <3>1, <3>2
  <2> QED BY <1>7, <2>1, TakenDelivered DEF Vehicle
<1>8. CASE UNCHANGED vars
  BY <1>1, <1>8 DEF vars, serverVars, vehicleVars
<1> QED BY <1>2, <1>3, <1>4, <1>5, <1>6, <1>7, <1>8 DEF Next

(* However handlers overlap, pushes of two ticks overtake each other and   *)
(* calls are delivered twice, a vehicle never takes the tick it executed   *)
(* last a second time.                                                     *)
NeverRepeatsTick ==
  \A v \in Vehicles : vPc[v] = "get" /\ vQ[v] # NoTick => vQ[v].id # vTick[v]

(* The assertion of vehiclesim.py's loop, that a tick is not the last one  *)
(* again, never fails: with any overlap of handlers, any order of pushes   *)
(* and any number of repeated calls.                                       *)
THEOREM NeverRepeatsTickHolds == Spec => []NeverRepeatsTick
<1>1. TypeOK /\ DeliveredInv /\ [Next]_vars => DeliveredInv'
  BY DeliveredNext
<1>2. DeliveredInv => NeverRepeatsTick
  BY DEF DeliveredInv, SeenInv, NeverRepeatsTick
<1> QED BY <1>1, <1>2, DeliveredInit, TypeCorrect, PTL DEF Spec
-----------------------------------------------------------------------------
(***************************************************************************)
(* 2. What is queued at a vehicle, and what a vehicle leaves alone.        *)
(***************************************************************************)

LEMMA CommandNotEnd == ASSUME NEW t PROVE CommandOf(t) # "END"
BY DEF CommandOf

LEMMA VehicleTypes ==
  ASSUME TypeOK
  PROVE  /\ handler \in [Vehicles -> HandlerState] /\ vPc \in [Vehicles -> VehiclePc]
         /\ replies \in [Vehicles -> Nat]
         /\ request \in [Vehicles -> Update] /\ relay \in [Vehicles -> Tick]
         /\ vQ \in [Vehicles -> Tick] /\ vLast \in [Vehicles -> Tick]
         /\ pong \in [Vehicles -> Tick] /\ vTick \in [Vehicles -> Int]
         /\ reportedDone \in [Vehicles -> BOOLEAN]
         /\ simQ \in Tick /\ simLast \in Tick /\ simLast.id \in Int /\ simTick \in Nat
         /\ numReplied \in Nat /\ numCompleted \in Nat /\ repliedCars \subseteq Vehicles
BY ConstantsAssumption DEF TypeOK, Tick, LastTick

(* What is queued at a vehicle that takes part: the open round's tick, or  *)
(* the scenario's end.                                                     *)
LEMMA QueuedTick ==
  ASSUME IInv, DeliveredInv, NEW v \in Vehicles \ Completed, vQ[v] # NoTick
  PROVE  \/ vQ[v].cmd = "END" /\ simPc \in {"ending", "ended"}
         \/ /\ RoundOpen /\ v \notin repliedCars
            /\ vQ[v].id = simTick /\ simTick >= 1
            /\ vQ[v].cmd = CommandOf(simTick) /\ vQ[v].cmd # "END"
<1>1. \/ vQ[v].cmd = "END" /\ simPc \in {"ending", "ended"}
      \/ Unanswered(v) /\ vQ[v].id = simTick
  BY DEF IInv, ProtocolInv, WorkInv
<1>2. simTick \in Nat
  BY VehicleTypes DEF IInv
<1>3. vQ[v] = EndPing \/ (vQ[v].id >= 1 /\ vQ[v].cmd = CommandOf(vQ[v].id))
  BY DEF DeliveredInv, SeenInv
<1> QED BY <1>1, <1>2, <1>3, CommandNotEnd DEF EndPing, MkTick, Unanswered

(* A step of v leaves the round, its count and the other vehicles alone. *)
LEMMA VehicleKeeps ==
  ASSUME IInv, NEW v \in Vehicles, Vehicle(v)
  PROVE  /\ UNCHANGED <<simVars, serverVars, relay, pushes>>
         /\ Completed' = Completed /\ Awaited' = Awaited /\ (RoundOpen' <=> RoundOpen)
         /\ \A w \in Vehicles \ {v} :
              /\ vPc'[w] = vPc[w] /\ vQ'[w] = vQ[w] /\ vTick'[w] = vTick[w] /\ pong'[w] = pong[w]
              /\ handler'[w] = handler[w] /\ request'[w] = request[w]
              /\ reportedDone'[w] = reportedDone[w]
         /\ handler[v] \in {"counted", "loaded", "pushing"} => handler'[v] = handler[v]
         /\ UNCHANGED <<replies, release>>
<1> USE VehicleTypes DEF IInv
<1>1. UNCHANGED <<simVars, serverVars, relay, pushes, replies, release>>
  BY DEF history, Vehicle, VehicleFirstGet, VehicleGet, VehicleStepsAndSends, VehicleStepsDone,
         VehicleSent, VehicleCallFails, handlerVars
<1>2. ASSUME NEW w \in Vehicles \ {v}
      PROVE  /\ vPc'[w] = vPc[w] /\ vQ'[w] = vQ[w] /\ vTick'[w] = vTick[w] /\ pong'[w] = pong[w]
             /\ handler'[w] = handler[w] /\ request'[w] = request[w]
             /\ reportedDone'[w] = reportedDone[w]
  BY DEF Vehicle, VehicleFirstGet, VehicleGet, VehicleStepsAndSends, VehicleStepsDone,
         VehicleSent, VehicleCallFails, handlerVars
<1>3. /\ v \in Completed' <=> v \in Completed
      /\ handler[v] \in {"counted", "loaded", "pushing"} => handler'[v] = handler[v]
  <2>1. CASE VehicleStepsAndSends(v)
    <3>1. handler[v] = "none" /\ ~reportedDone[v]
      BY <2>1 DEF VehicleStepsAndSends, StepsToAnswer, ProtocolInv, CallInv
    <3> QED BY <2>1, <3>1 DEF VehicleStepsAndSends, Completed
  <2>2. CASE VehicleSent(v)
    BY <2>2 DEF VehicleSent, Completed
  <2>3. CASE VehicleFirstGet(v) \/ VehicleGet(v) \/ VehicleStepsDone(v) \/ VehicleCallFails(v)
    BY <2>3, CompletedUnchanged DEF VehicleFirstGet, VehicleGet, VehicleStepsDone,
                                    VehicleCallFails, handlerVars
  <2> QED BY <2>1, <2>2, <2>3 DEF Vehicle
<1>4. Completed' = Completed
  BY <1>2, <1>3 DEF Completed
<1> QED BY <1>1, <1>2, <1>3, <1>4 DEF Awaited, RoundOpen, simVars, serverVars, countVars

-----------------------------------------------------------------------------
(***************************************************************************)
(* 3. A vehicle is lost only to a tick that overtook its answer.           *)
(***************************************************************************)

(* The tick a vehicle that takes part executed last, seen from its call or *)
(* after it.                                                               *)
LastDone(v) ==
  IF simPc = "doTick" \/ (RoundOpen /\ v \notin repliedCars /\ handler[v] # "received")
  THEN simTick - 1 ELSE simTick

CrashInv ==
  \A v \in Vehicles :
    /\ vPc[v] = "crashed" => vQ[v] # NoTick \/ simPc = "ended"
    /\ vPc[v] \in {"sending", "crashed"} /\ v \notin Completed => pong[v].id = LastDone(v)

(* Neither the vehicles nor what they did last changes. *)
LEMMA CrashFrame ==
  ASSUME CrashInv, UNCHANGED <<vPc, pong>>,
         \A v \in Vehicles : vPc[v] = "crashed" => vQ'[v] = vQ[v],
         simPc = "ended" => simPc' = "ended",
         \A v \in Vehicles : v \notin Completed' => v \notin Completed /\ LastDone(v)' = LastDone(v)
  PROVE  CrashInv'
BY DEF CrashInv

LEMMA CrashSim == ASSUME IInv, CrashInv, Sim PROVE CrashInv'
<1> USE VehicleTypes DEF IInv, serverVars, countVars, handlerVars, vehicleVars
<1>1. /\ UNCHANGED <<repliedCars, handler, request, vPc, vQ, pong, reportedDone>>
      /\ simPc # "ended"
  BY DEF Sim, SimBroadcast, SimDoTickReturns, SimGet, SimUnpackUpdates, SimUnpackDebug,
         SimCallFails, SimEnds
<1>2. Completed' = Completed
  BY <1>1, CompletedUnchanged
<1>3. ASSUME NEW v \in Vehicles \ Completed, vPc[v] \in {"sending", "crashed"}
      PROVE  LastDone(v)' = LastDone(v)
  <2>1. CASE SimBroadcast
    BY <2>1 DEF SimBroadcast, LastDone, RoundOpen
  <2>2. CASE SimDoTickReturns \/ SimGet
    <3>1. RoundOpen /\ (simQ # NoTick => v \in repliedCars) /\ simTick' = simTick
      BY <2>2, NoWorkOnceReleased DEF SimDoTickReturns, SimGet, RoundOpen
    <3>2. simPc' # "doTick" /\ (simQ = NoTick => RoundOpen')
      BY <2>2 DEF SimDoTickReturns, SimGet, RoundOpen
    <3> QED BY <1>1, <3>1, <3>2 DEF LastDone, RoundOpen
  <2>3. CASE SimUnpackUpdates \/ SimUnpackDebug \/ SimEnds
    BY <1>1, <2>3 DEF SimUnpackUpdates, SimUnpackDebug, SimEnds, LastDone, RoundOpen
  <2>4. CASE SimCallFails
    BY <2>4 DEF SimCallFails, ProtocolInv, ServerInv
  <2> QED BY <2>1, <2>2, <2>3, <2>4 DEF Sim
<1> QED BY <1>1, <1>2, <1>3 DEF CrashInv

LEMMA CrashServer == ASSUME IInv, CrashInv, Server PROVE CrashInv'
<1> USE VehicleTypes DEF IInv, countVars, handlerVars, vehicleVars
<1>1. CASE Server_DoTick
  <2>1. Completed' = Completed /\ ~RoundOpen
    BY <1>1, CompletedUnchanged DEF Server_DoTick, RoundOpen
  <2>2. \A v \in Vehicles : handler[v] # "received"
    BY <2>1, NoWorkBetweenRounds
  <2> QED BY <1>1, <2>1, <2>2, CrashFrame DEF Server_DoTick, LastDone, RoundOpen
<1>2. CASE Server_EndScenario
  <2>1. Completed' = Completed
    BY <1>2, CompletedUnchanged DEF Server_EndScenario
  <2> QED BY <1>2, <2>1, CrashFrame DEF Server_EndScenario, LastDone, RoundOpen
<1>3. CASE Server_DoTickAborts
  BY <1>3 DEF Server_DoTickAborts, InSequence, ProtocolInv, ServerInv
<1>4. CASE EndScenarioPushes
  <2>1. /\ Completed' = Completed
        /\ UNCHANGED <<simPc, simTick, repliedCars, handler, vPc, pong>>
    BY <1>4, CompletedUnchanged DEF EndScenarioPushes, simVars
  <2>2. \A v \in Vehicles : vPc[v] = "crashed" => vQ'[v] = vQ[v]
    BY <1>4 DEF EndScenarioPushes, PushToVehicle
  <2> QED BY <2>1, <2>2, CrashFrame DEF LastDone, RoundOpen
<1> QED BY <1>1, <1>2, <1>3, <1>4 DEF Server

(* A handler's answer may turn out to be its vehicle's last. *)
LEMMA HandlerCompletes ==
  ASSUME IInv, NEW v \in Vehicles, Handler(v) PROVE Completed \subseteq Completed'
<1> USE VehicleTypes DEF IInv, vehicleVars
<1>1. /\ UNCHANGED <<request, reportedDone>>
      /\ \A w \in Vehicles \ {v} : handler'[w] = handler[w]
      /\ handler'[v] \in {"counted", "loaded", "pushing", "finished"}
  BY DEF Handler, SendUpdateCounts, SendUpdateLoadsReplied, SendUpdateFindsComplete,
         SendUpdateFindsOpen, SendUpdateRelays
<1> QED BY <1>1 DEF Completed

LEMMA CrashHandler ==
  ASSUME IInv, CrashInv, NEW v \in Vehicles, Handler(v) PROVE CrashInv'
<1> USE VehicleTypes DEF IInv, simVars, serverVars, countVars, vehicleVars
<1>1. UNCHANGED <<simPc, simTick, vPc, vQ, pong, request, reportedDone>>
  BY DEF Handler, SendUpdateCounts, SendUpdateLoadsReplied, SendUpdateFindsComplete,
         SendUpdateFindsOpen, SendUpdateRelays
<1>2. \A w \in Vehicles \ {v} : handler'[w] = handler[w] /\ (w \in repliedCars' <=> w \in repliedCars)
  BY DEF Handler, SendUpdateCounts, SendUpdateLoadsReplied, SendUpdateFindsComplete,
         SendUpdateFindsOpen, SendUpdateRelays
<1>3. \/ handler[v] = "received" /\ handler'[v] = "counted" /\ v \in repliedCars'
      \/ /\ handler[v] \in {"counted", "loaded", "pushing"} /\ repliedCars' = repliedCars
         /\ handler'[v] \in {"loaded", "pushing", "finished"}
  BY DEF Handler, SendUpdateCounts, SendUpdateLoadsReplied, SendUpdateFindsComplete,
         SendUpdateFindsOpen, SendUpdateRelays
<1>4. \A w \in Vehicles : w \notin Completed' => w \notin Completed
  BY <1>1, <1>2, <1>3 DEF Completed
<1>5. \A w \in Vehicles : LastDone(w)' = LastDone(w)
  <2>1. ASSUME NEW w \in Vehicles, w # v PROVE LastDone(w)' = LastDone(w)
    BY <1>1, <1>2, <2>1 DEF LastDone, RoundOpen
  <2>2. handler[v] = "received" => simPc # "doTick"
    BY DEF ProtocolInv, CallInv, RoundOpen
  <2>3. LastDone(v)' = LastDone(v)
    BY <1>1, <1>3, <2>2 DEF LastDone, RoundOpen
  <2> QED BY <2>1, <2>3
<1> QED BY <1>1, <1>4, <1>5, CrashFrame

LEMMA CrashPush ==
  ASSUME IInv, CrashInv, NEW p \in pushes, PushTick(p) PROVE CrashInv'
<1>1. UNCHANGED <<simPc, simTick, repliedCars, handler, request, reportedDone, vPc, pong>>
  BY DEF PushTick, simVars, serverVars, countVars, handlerVars
<1>2. Completed' = Completed
  BY <1>1, CompletedUnchanged
<1>3. \A v \in Vehicles : vPc[v] = "crashed" => vQ'[v] = vQ[v]
  BY VehicleTypes DEF IInv, PushTick, PushToVehicle
<1> QED BY <1>1, <1>2, <1>3, CrashFrame DEF LastDone, RoundOpen

LEMMA CrashVehicle ==
  ASSUME IInv, DeliveredInv, CrashInv, NEW v \in Vehicles, Vehicle(v) PROVE CrashInv'
<1> USE VehicleTypes, VehicleKeeps DEF IInv, simVars, serverVars, countVars
<1>1. \A w \in Vehicles \ {v} : LastDone(w)' = LastDone(w)
  BY DEF LastDone, RoundOpen
<1>2. vPc'[v] = "crashed" => vQ'[v] # NoTick \/ simPc = "ended"
  <2>1. CASE VehicleCallFails(v)
    BY <2>1 DEF VehicleCallFails, ProtocolInv, ServerInv
  <2>2. CASE VehicleGet(v)
    BY <2>2 DEF VehicleGet, DeliveredInv, SeenInv
  <2> QED BY <2>1, <2>2 DEF Vehicle, VehicleFirstGet, VehicleStepsAndSends, StepsToAnswer,
                            VehicleStepsDone, VehicleSent
<1>3. ASSUME vPc'[v] \in {"sending", "crashed"}, v \notin Completed
      PROVE  pong'[v].id = LastDone(v)'
  <2>1. CASE VehicleStepsAndSends(v)
    <3>1. pong[v].id = simTick /\ simPc # "doTick"
      BY <1>3, <2>1 DEF VehicleStepsAndSends, StepsToAnswer, ProtocolInv, WorkInv, RoundOpen
    <3> QED BY <2>1, <3>1 DEF VehicleStepsAndSends, StepsToAnswer, LastDone
  <2>2. CASE VehicleSent(v) \/ VehicleCallFails(v)
    <3>1. /\ vPc[v] = "sending" /\ UNCHANGED pong
          /\ handler'[v] = "received" <=> handler[v] = "received"
      BY <2>2 DEF VehicleSent, VehicleCallFails, handlerVars
    <3> QED BY <1>3, <3>1 DEF CrashInv, LastDone, RoundOpen
  <2>3. CASE VehicleGet(v)
    BY <1>3, <2>3 DEF VehicleGet, DeliveredInv, SeenInv
  <2>4. CASE VehicleStepsDone(v)
    BY <1>3, <2>4 DEF VehicleStepsDone, Completed
  <2> QED BY <1>3, <2>1, <2>2, <2>3, <2>4 DEF Vehicle, VehicleFirstGet
<1> QED BY <1>1, <1>2, <1>3 DEF CrashInv

LEMMA CrashNext ==
  ASSUME IInv, DeliveredInv, CrashInv, Undisturbed', [Next]_vars PROVE CrashInv'
<1>1. CASE Resend
  BY <1>1, NothingRepeated DEF IInv
<1>2. CASE UNCHANGED vars
  <2> USE <1>2 DEF vars, simVars, serverVars, countVars, handlerVars, vehicleVars
  <2>1. Completed' = Completed
    BY CompletedUnchanged
  <2> QED BY <2>1, CrashFrame DEF LastDone, RoundOpen
<1> QED BY <1>1, <1>2, CrashSim, CrashServer, CrashHandler, CrashPush, CrashVehicle
        DEF Next, PushThread

LEMMA CrashInductive == Spec => [](Undisturbed => IInv /\ CrashInv) /\ []DeliveredInv
<1>1. Init => CrashInv /\ DeliveredInv
  BY DeliveredInit DEF Init, CrashInv
<1>2. TypeOK /\ DeliveredInv /\ [Next]_vars => DeliveredInv'
  BY DeliveredNext
<1>3. /\ TypeOK /\ DeliveredInv /\ (Undisturbed => IInv) /\ (Undisturbed => CrashInv)
      /\ [Next]_vars
      => (Undisturbed => CrashInv)'
  <2> SUFFICES ASSUME TypeOK, DeliveredInv, Undisturbed => IInv, Undisturbed => CrashInv,
                      [Next]_vars, Undisturbed'
               PROVE  CrashInv'
    OBVIOUS
  <2>1. Undisturbed
    BY NothingRepeated
  <2> QED BY <2>1, CrashNext
<1> QED BY <1>1, <1>2, <1>3, TypeCorrect, Inductive, PTL DEF Spec

(* In vehiclesim.py no assertion but "assert(push_q.empty())" fails while  *)
(* the scenario runs, and that one only when the next tick overtook the    *)
(* answer (or the step of a vehicle that is done): whoever is lost to the  *)
(* open round holds its tick, having executed the one before.              *)
THEOREM CrashesOnlyOvertakenHolds == Spec => []CrashesOnlyOvertaken
<1>1. (Undisturbed => IInv /\ CrashInv) => CrashesOnlyOvertaken
  <2> SUFFICES ASSUME IInv, CrashInv, simPc \notin {"ending", "ended"}, NEW v \in Vehicles,
                      vPc[v] = "crashed"
               PROVE  /\ vQ[v] # NoTick
                      /\ v \notin Completed =>
                           /\ v \in Awaited
                           /\ vQ[v].id = simTick /\ pong[v].id = simTick - 1
    BY DEF CrashesOnlyOvertaken
  <2>1. vQ[v] # NoTick
    BY DEF CrashInv
  <2>2. v \notin Completed => Unanswered(v) /\ vQ[v].id = simTick
    BY <2>1 DEF IInv, ProtocolInv, WorkInv
  <2>3. v \notin Completed => pong[v].id = simTick - 1
    BY <2>2 DEF CrashInv, LastDone, Unanswered
  <2> QED BY <2>1, <2>2, <2>3 DEF Awaited, Unanswered
<1> QED BY <1>1, CrashInductive, PTL
-----------------------------------------------------------------------------
(***************************************************************************)
(* 4. The simulation waits for something that comes.                       *)
(***************************************************************************)

(* The first tick is a TICK: it does not pull waypoints. *)
FirstTickCounts == ~(IsEdge /\ PullEvery = 1)

(* The first tick's number is not recorded: its answers carry 0. *)
RoundId(t) == IF t <= 1 THEN t - 1 ELSE t

AnsweredInv ==
  \/ simPc = "loop" /\ simTick >= 1
  \/ simPc = "doTick" /\ simTick >= 2
  => Vehicles \subseteq repliedCars \union Completed

(* Until the first round opens nobody has taken a tick. *)
UntakenInv ==
  /\ simTick = 0 => simPc = "loop"
  /\ simTick = 0 \/ (simTick = 1 /\ simPc = "doTick") =>
       \A v \in Vehicles : vPc[v] = "firstGet"

(* What a vehicle that takes part has taken, executes and answers is the   *)
(* open round's, and its answer counts.                                    *)
Voice(v) ==
  /\ vPc[v] = "firstGet" =>
       v \notin repliedCars /\ simTick <= 1 /\ ~reportedDone[v] /\ vTick[v] = 0
  /\ vPc[v] = "get" \/ handler[v] \in {"counted", "loaded", "pushing", "finished"} =>
       simTick >= 2 \/ reportedDone[v] \/ v \in repliedCars
  /\ vPc[v] = "step" /\ ~reportedDone[v] =>
       vTick[v] = RoundId(simTick) /\ pong[v].cmd \in {"TICK", "REQUEST_DEBUG_INFO"}
  /\ \/ handler[v] = "received"
     \/ handler[v] \in {"counted", "loaded"} /\ RoundOpen /\ v \in repliedCars
     => request[v].tick = RoundId(simTick)
  /\ handler[v] = "received" => request[v].state \in FinalState \union {"TICK_OK"}
  /\ vPc[v] = "sending" => handler[v] # "none"
  /\ vPc[v] = "exited" => reportedDone[v] \/ simPc \in {"ending", "ended"}
VoiceInv == \A v \in Vehicles : Voice(v)

(* The release is not taken for a repetition of the last one. *)
RelayInv ==
  /\ simLast.id <= RoundId(simTick)
  /\ simPc = "doTick" \/ (RoundOpen /\ simQ = NoTick) => simLast.id < RoundId(simTick)
  /\ \A v \in Vehicles : handler[v] = "pushing" => relay[v].id = RoundId(simTick)

(* No answer falls out of the count. *)
CountedInv ==
  /\ RoundOpen => numReplied >= Cardinality(repliedCars \ Completed)
  /\ numCompleted >= Cardinality(Completed)

(* A call that is going to find a complete count complete. *)
CountFull == numReplied + numCompleted = N
Finds(v) == handler[v] = "counted" \/ (handler[v] = "loaded" /\ replies[v] = numReplied)

(* Some call finds the complete count, and then pushes the release. *)
DueInv ==
  RoundOpen =>
    /\ release = "found" => simQ # NoTick \/ \E v \in Vehicles : handler[v] = "pushing"
    /\ release = "due" /\ CountFull /\ repliedCars # {} => \E v \in repliedCars : Finds(v)

(* Whoever is awaited works, or was overtaken by the tick it should have   *)
(* answered.                                                               *)
Overtaken(v) == vPc[v] = "crashed" /\ vQ[v].id = simTick
AliveInv == \A v \in Awaited : Working(v) \/ Overtaken(v)

RoundInv == UntakenInv /\ AnsweredInv /\ VoiceInv /\ RelayInv /\ CountedInv /\ DueInv /\ AliveInv
-----------------------------------------------------------------------------
LEMMA FirstCommand == ASSUME FirstTickCounts PROVE CommandOf(1) = "TICK"
<1>1. LastTick # 1
  BY ConstantsAssumption DEF LastTick
<1>2. PullEvery \in Nat /\ (PullEvery > 1 => 1 % PullEvery = 1) /\ PullEvery >= 1
  BY ConstantsAssumption
<1>3. IsEdge => 1 % PullEvery # 0
  BY <1>2 DEF FirstTickCounts
<1> QED BY <1>1, <1>3 DEF CommandOf

LEMMA RoundIds ==
  ASSUME NEW t \in Nat
  PROVE  /\ RoundId(t) \in Int /\ RoundId(t + 1) > RoundId(t)
         /\ RoundId(t) >= -1 /\ (t >= 2 => RoundId(t) = t)
BY DEF RoundId

LEMMA PartCounts ==
  ASSUME TypeOK
  PROVE  /\ repliedCars \ Completed \in SUBSET Vehicles /\ Completed \in SUBSET Vehicles
         /\ IsFiniteSet(repliedCars \ Completed) /\ Cardinality(repliedCars \ Completed) \in Nat
         /\ IsFiniteSet(Completed) /\ Cardinality(Completed) \in Nat
<1>1. repliedCars \ Completed \in SUBSET Vehicles /\ Completed \in SUBSET Vehicles
  BY DEF TypeOK, Completed
<1> QED BY <1>1, FiniteParts

(* Everybody has answered only if the count is complete. *)
LEMMA NobodyAwaitedCounts ==
  ASSUME IInv, CountedInv, RoundOpen, Awaited = {} PROVE CountFull
<1> DEFINE R == repliedCars \ Completed
           C == Completed
<1>1. /\ R \in SUBSET Vehicles /\ C \in SUBSET Vehicles
      /\ IsFiniteSet(R) /\ IsFiniteSet(C)
      /\ Cardinality(R) \in Nat /\ Cardinality(C) \in Nat
  BY PartCounts DEF IInv
<1>2. R \union C = Vehicles /\ R \intersect C = {}
  BY <1>1 DEF Awaited, RoundOpen, IInv, TypeOK
<1>3. numReplied = Cardinality(R) /\ numCompleted = Cardinality(C)
  BY <1>1 DEF IInv, TypeOK, ProtocolInv, CountInv, CountedInv
<1> HIDE DEF R, C
<1>4. Cardinality(R \union C) = Cardinality(R) + Cardinality(C)
  <2>1. Cardinality(R \union C) = Cardinality(R) + Cardinality(C) - Cardinality(R \intersect C)
    BY <1>1, FS_Union
  <2>2. Cardinality(R \intersect C) = 0
    BY <1>2, FS_EmptySet
  <2> QED BY <1>1, <2>1, <2>2
<1> QED BY <1>2, <1>3, <1>4, FiniteVehicles DEF CountFull

LEMMA RoundInit == Init => RoundInv
<1> SUFFICES ASSUME Init PROVE RoundInv
  OBVIOUS
<1>1. Completed = {} /\ repliedCars = {} /\ ~RoundOpen /\ Awaited = {}
  BY DEF Init, Completed, RoundOpen, Awaited
<1>2. CountedInv
  BY <1>1, FS_EmptySet DEF Init, CountedInv
<1>3. RelayInv
  BY <1>1 DEF Init, RelayInv, RoundId, MkTick
<1>4. UntakenInv /\ AnsweredInv /\ DueInv /\ AliveInv
  BY <1>1 DEF Init, UntakenInv, AnsweredInv, DueInv, AliveInv
<1>5. VoiceInv
  BY <1>1 DEF Init, VoiceInv, Voice, NoTick
<1> QED BY <1>2, <1>3, <1>4, <1>5 DEF RoundInv

(* Nothing is answered, counted, released or awaited anew. *)
LEMMA RoundFrame ==
  ASSUME RoundInv, UNCHANGED <<simTick, simPc, simQ, simLast, countVars, handlerVars, pushes,
                               vehicleVars, release>>
  PROVE  RoundInv'
<1>1. Completed' = Completed
  BY CompletedUnchanged DEF handlerVars, vehicleVars
<1> USE <1>1 DEF RoundInv, countVars, handlerVars, vehicleVars, RoundOpen
<1>2. UntakenInv' /\ AnsweredInv' /\ RelayInv' /\ CountedInv' /\ DueInv'
  BY DEF UntakenInv, AnsweredInv, RelayInv, CountedInv, DueInv, CountFull, Finds
<1>3. VoiceInv'
  BY DEF VoiceInv, Voice
<1>4. AliveInv'
  BY DEF AliveInv, Awaited, Working, Overtaken
<1> QED BY <1>2, <1>3, <1>4
-----------------------------------------------------------------------------
(* The simulation *)

LEMMA BroadcastRound == ASSUME IInv, RoundInv, SimBroadcast PROVE RoundInv'
<1> USE VehicleTypes DEF SimBroadcast, serverVars, countVars, handlerVars, vehicleVars, IInv
<1>1. /\ simPc = "loop" /\ simPc' = "doTick" /\ simTick' = simTick + 1 /\ simTick \in Nat
      /\ Completed' = Completed /\ ~RoundOpen /\ ~RoundOpen'
  BY CompletedUnchanged DEF RoundOpen
<1>2. VoiceInv'
  <2> SUFFICES ASSUME NEW v \in Vehicles PROVE Voice(v)'
    BY DEF VoiceInv
  <2>1. Voice(v) /\ handler[v] \notin {"received", "pushing"}
    BY <1>1, NoWorkBetweenRounds DEF RoundInv, VoiceInv
  <2>2. vPc[v] = "step" => reportedDone[v]
    BY <1>1, NoWorkBetweenRounds DEF ProtocolInv, CallInv, Completed
  <2>3. ASSUME vPc[v] = "firstGet" PROVE simTick = 0
    <3>1. v \notin repliedCars /\ simTick <= 1 /\ v \notin Completed
      BY <2>1, <2>3 DEF Voice, Completed, ProtocolInv, CallInv
    <3> QED BY <1>1, <3>1 DEF RoundInv, AnsweredInv
  <2>4. simTick = 0 => vPc[v] = "firstGet" /\ handler[v] = "none"
    BY DEF RoundInv, UntakenInv, ProtocolInv, CallInv
  <2> QED BY <1>1, <2>1, <2>2, <2>3, <2>4 DEF Voice, RoundOpen
<1>3. RelayInv'
  BY <1>1, RoundIds, NoWorkBetweenRounds DEF RoundInv, RelayInv
<1>4. UntakenInv' /\ AnsweredInv' /\ CountedInv' /\ DueInv'
  BY <1>1 DEF RoundInv, UntakenInv, AnsweredInv, CountedInv, DueInv
<1>5. AliveInv'
  BY <1>1 DEF AliveInv, Awaited
<1> QED BY <1>2, <1>3, <1>4, <1>5 DEF RoundInv

(* The round closes, or the simulation begins to wait for its release. *)
LEMMA ReturnsRound == ASSUME IInv, RoundInv, SimDoTickReturns \/ SimGet PROVE RoundInv'
<1> USE VehicleTypes DEF IInv
<1>1. /\ UNCHANGED <<simTick, simLast, countVars, handler, replies, request, relay, pushes, vPc,
                     vQ, vTick, pong, reportedDone, release>>
      /\ RoundOpen
      /\ \/ simPc' = "get" /\ simQ = NoTick /\ simQ' = NoTick
         \/ simPc' \in {"end", "unpack"} /\ simQ # NoTick
         \/ simPc' = "loop" /\ simTick = 1 /\ simQ # NoTick
  BY DEF SimDoTickReturns, SimGet, RoundOpen, serverVars, countVars, handlerVars, vehicleVars,
         history
<1>2. Completed' = Completed
  BY <1>1, CompletedUnchanged
<1>3. UntakenInv' /\ AnsweredInv'
  <2>1. simQ # NoTick => AllAnswered
    BY <1>1, NoWorkOnceReleased
  <2> QED BY <1>1, <1>2, <2>1 DEF RoundInv, UntakenInv, AnsweredInv, AllAnswered, RoundOpen, countVars
<1>4. VoiceInv'
  <2>1. simPc \notin {"ending", "ended"}
    BY <1>1 DEF RoundOpen
  <2> QED BY <1>1, <2>1 DEF RoundInv, VoiceInv, Voice, RoundOpen, countVars
<1>5. RelayInv' /\ CountedInv' /\ DueInv'
  BY <1>1, <1>2 DEF RoundInv, RelayInv, CountedInv, DueInv, RoundOpen, CountFull, Finds, countVars
<1>6. AliveInv'
  BY <1>1, <1>2 DEF RoundInv, AliveInv, Awaited, Working, Overtaken, RoundOpen, countVars
<1> QED BY <1>3, <1>4, <1>5, <1>6 DEF RoundInv

LEMMA UnpackRound == ASSUME IInv, RoundInv, SimUnpackUpdates \/ SimUnpackDebug PROVE RoundInv'
<1> USE DEF IInv
<1>1. /\ UNCHANGED <<simTick, simQ, simLast, numCompleted, repliedCars, handler, request, relay,
                     vPc, vTick, pong, reportedDone>>
      /\ simPc = "unpack" /\ simPc' \in {"loop", "unpack", "end"}
  BY DEF SimUnpackUpdates, SimUnpackDebug, handlerVars, vehicleVars
<1>2. Completed' = Completed /\ ~RoundOpen /\ ~RoundOpen'
  BY <1>1, CompletedUnchanged DEF RoundOpen
<1>3. UntakenInv' /\ AnsweredInv'
  BY <1>1, <1>2 DEF RoundInv, UntakenInv, AnsweredInv, AllAnswered, ProtocolInv, ReleaseInv
<1>4. VoiceInv'
  BY <1>1, <1>2 DEF RoundInv, VoiceInv, Voice
<1>5. RelayInv' /\ CountedInv' /\ DueInv'
  BY <1>1, <1>2 DEF RoundInv, RelayInv, CountedInv, DueInv
<1>6. AliveInv'
  BY <1>2 DEF AliveInv, Awaited
<1> QED BY <1>3, <1>4, <1>5, <1>6 DEF RoundInv

LEMMA ClosingRound == ASSUME IInv, RoundInv, Server_EndScenario \/ SimEnds PROVE RoundInv'
<1>1. /\ UNCHANGED <<simTick, simQ, simLast, countVars, handler, request, relay, vPc, vTick, pong,
                     reportedDone>>
      /\ simPc \in {"end", "ending"} /\ simPc' \in {"ending", "ended"}
  BY DEF Server_EndScenario, SimEnds, handlerVars, vehicleVars
<1>2. Completed' = Completed /\ ~RoundOpen /\ ~RoundOpen'
  BY <1>1, CompletedUnchanged DEF RoundOpen
<1>3. UntakenInv' /\ AnsweredInv' /\ RelayInv' /\ CountedInv' /\ DueInv'
  BY <1>1, <1>2 DEF RoundInv, UntakenInv, AnsweredInv, RelayInv, CountedInv, DueInv, countVars
<1>4. VoiceInv'
  BY <1>1, <1>2 DEF RoundInv, VoiceInv, Voice, countVars
<1>5. AliveInv'
  BY <1>2 DEF AliveInv, Awaited
<1> QED BY <1>3, <1>4, <1>5 DEF RoundInv
-----------------------------------------------------------------------------
(* The server and its threads *)

LEMMA DoTickRound == ASSUME IInv, CrashInv, RoundInv, Server_DoTick PROVE RoundInv'
<1> USE VehicleTypes DEF Server_DoTick, handlerVars, vehicleVars, IInv
<1>1. /\ simPc = "doTick" /\ ~RoundOpen /\ RoundOpen' /\ Completed' = Completed
      /\ release' = "due" /\ simQ = NoTick
      /\ \A v \in Vehicles : handler[v] \notin {"received", "pushing"}
  BY NoWorkBetweenRounds, CompletedUnchanged DEF RoundOpen, ProtocolInv, ReleaseInv
<1>2. VoiceInv'
  BY <1>1 DEF RoundInv, UntakenInv, VoiceInv, Voice, ProtocolInv, CallInv
<1>3. RelayInv'
  BY <1>1 DEF RoundInv, RelayInv
<1>4. CountedInv'
  <2>1. (repliedCars \ Completed)' = {}
    OBVIOUS
  <2> QED BY <1>1, <2>1, FS_EmptySet DEF RoundInv, CountedInv
<1>5. UntakenInv' /\ AnsweredInv' /\ DueInv'
  BY <1>1 DEF RoundInv, UntakenInv, AnsweredInv, DueInv
<1>6. AliveInv'
  <2> SUFFICES ASSUME NEW v \in Vehicles \ Completed PROVE Working(v)'
    BY <1>1 DEF AliveInv, Awaited
  <2>1. \E p \in pushes' : p.to = v
    <3>1. [to |-> v, tick |-> Ping] \in pushes'
      OBVIOUS
    <3> QED BY <3>1
  <2>2. vPc[v] # "step" /\ vQ[v] = NoTick
    BY <1>1, NoWorkBetweenRounds
  <2>3. vPc[v] # "exited"
    BY <1>1 DEF RoundInv, VoiceInv, Voice, Completed
  <2>4. vPc[v] # "crashed"
    BY <1>1, <2>2 DEF CrashInv
  <2> QED BY <2>1, <2>2, <2>3, <2>4 DEF Working, VehiclePc
<1> QED BY <1>2, <1>3, <1>4, <1>5, <1>6 DEF RoundInv

(* A push that leaves its thread is queued: the vehicle's queue is empty   *)
(* and the tick is none it has seen.                                       *)
LEMMA PushRound ==
  ASSUME IInv, DeliveredInv, RoundInv, NEW p \in pushes, PushTick(p) PROVE RoundInv'
<1> USE VehicleTypes DEF IInv
<1>1. /\ UNCHANGED <<simTick, simPc, simQ, simLast, countVars, handler, replies, request, relay,
                     vPc, vTick, pong, reportedDone, release>>
      /\ pushes' = pushes \ {p} /\ PushToVehicle(p.to, p.tick)
  BY DEF PushTick, simVars, serverVars, handlerVars, history
<1>2. Completed' = Completed /\ (RoundOpen' <=> RoundOpen) /\ Awaited' = Awaited
  BY <1>1, CompletedUnchanged DEF RoundOpen, Awaited, countVars
<1>3. UntakenInv' /\ AnsweredInv' /\ RelayInv' /\ CountedInv' /\ DueInv' /\ VoiceInv'
  BY <1>1, <1>2 DEF RoundInv, UntakenInv, AnsweredInv, RelayInv, CountedInv, DueInv,
                    CountFull, Finds, VoiceInv, Voice, countVars
<1>4. AliveInv'
  <2>0. \A v \in Vehicles : Overtaken(v) => Overtaken(v)'
    BY <1>1 DEF Overtaken, PushToVehicle
  <2> SUFFICES ASSUME NEW v \in Awaited, ~Overtaken(v) PROVE Working(v)'
    BY <1>1, <1>2, <2>0 DEF AliveInv, Awaited
  <2>1. Working(v) /\ v \in Vehicles \ Completed /\ RoundOpen
    BY DEF RoundInv, AliveInv, Awaited
  <2>2. CASE v # p.to
    BY <1>1, <2>1, <2>2 DEF Working, PushToVehicle
  <2>3. CASE v = p.to
    <3>1. vQ[v] = NoTick /\ p.tick # vLast[v] /\ p.tick # NoTick
      BY <2>1, <2>3, TypesOfSeen DEF ProtocolInv, WorkInv, Pushed, DeliveredInv, PushedOnce, NoTick
    <3>2. vPc[v] \notin {"exited", "crashed"} \/ handler[v] = "received"
      BY <2>1 DEF Working
    <3>3. handler[v] = "received" => Working(v)'
      BY <1>1 DEF Working
    <3>4. vPc[v] \notin {"exited", "crashed"} => vQ'[v] # NoTick
      BY <1>1, <2>1, <2>3, <3>1 DEF PushToVehicle, Enqueue
    <3> QED BY <1>1, <2>1, <3>2, <3>3, <3>4 DEF Working
  <2> QED BY <2>2, <2>3
<1> QED BY <1>3, <1>4 DEF RoundInv

LEMMA EndPushesRound == ASSUME RoundInv, EndScenarioPushes PROVE RoundInv'
<1>1. /\ UNCHANGED <<simTick, simPc, simQ, simLast, countVars, handler, request, relay, vPc,
                     vTick, pong, reportedDone>>
      /\ simPc = "ending"
  BY DEF EndScenarioPushes, simVars, handlerVars
<1>2. Completed' = Completed /\ ~RoundOpen /\ ~RoundOpen' /\ Awaited' = {}
  BY <1>1, CompletedUnchanged DEF RoundOpen, Awaited
<1>3. UntakenInv' /\ AnsweredInv' /\ RelayInv' /\ CountedInv' /\ DueInv' /\ VoiceInv'
  BY <1>1, <1>2 DEF RoundInv, UntakenInv, AnsweredInv, RelayInv, CountedInv, DueInv,
                    VoiceInv, Voice, countVars
<1> QED BY <1>2, <1>3 DEF RoundInv, AliveInv

(* The answer is the only one of its vehicle, and one counter counts it. *)
LEMMA CountsRound ==
  ASSUME IInv, RoundInv, NEW v \in Vehicles, SendUpdateCounts(v) PROVE RoundInv'
<1> USE VehicleTypes DEF IInv
<1> DEFINE final == request[v].state \in FinalState
           R == repliedCars \ Completed
<1>1. v \notin repliedCars /\ v \notin Completed /\ RoundOpen /\ vPc[v] = "sending"
  BY CountedOnce DEF SendUpdateCounts
<1>2. /\ handler' = [handler EXCEPT ![v] = "counted"] /\ handler[v] = "received"
      /\ repliedCars' = repliedCars \union {v}
      /\ UNCHANGED <<simPc, simTick, simQ, simLast, replies, request, relay, pushes, vPc, vQ, vTick,
                     pong, reportedDone, release>>
  BY DEF SendUpdateCounts, simVars, vehicleVars, history
<1>3. Completed' = IF final THEN Completed \union {v} ELSE Completed
  BY <1>1, <1>2 DEF Completed
<1>4. UntakenInv' /\ AnsweredInv' /\ RelayInv'
  BY <1>1, <1>2 DEF RoundInv, UntakenInv, AnsweredInv, RelayInv, RoundOpen
<1>5. VoiceInv'
  BY <1>1, <1>2 DEF RoundInv, VoiceInv, Voice, RoundOpen
<1>6. CountedInv'
  <2>1. /\ IsFiniteSet(R) /\ Cardinality(R) \in Nat
        /\ IsFiniteSet(Completed) /\ Cardinality(Completed) \in Nat
    BY PartCounts
  <2>2. Cardinality(R \union {v}) = Cardinality(R) + 1
    BY <1>1, <2>1, FS_AddElement
  <2>3. Cardinality(Completed \union {v}) = Cardinality(Completed) + 1
    BY <1>1, <2>1, FS_AddElement
  <2>4. (repliedCars \ Completed)' = IF final THEN R ELSE R \union {v}
    BY <1>1, <1>2, <1>3
  <2>5. numReplied >= Cardinality(R) /\ numCompleted >= Cardinality(Completed)
    BY <1>1 DEF RoundInv, CountedInv
  <2>6. request[v].state = "TICK_OK" <=> ~final
    BY <1>2 DEF RoundInv, VoiceInv, Voice, FinalState
  <2>7. /\ numReplied' = IF final THEN numReplied ELSE numReplied + 1
        /\ numCompleted' = IF final THEN numCompleted + 1 ELSE numCompleted
    BY <2>6 DEF SendUpdateCounts, CountsReplied, CountsCompleted
  <2>8. numReplied \in Nat /\ numCompleted \in Nat
    OBVIOUS
  <2> HIDE DEF R, final
  <2>9. numReplied' >= Cardinality((repliedCars \ Completed)')
    <3>1. CASE final
      BY <2>4, <2>5, <2>7, <3>1
    <3>2. CASE ~final
      <4>1. (repliedCars \ Completed)' = R \union {v} /\ numReplied' = numReplied + 1
        BY <2>4, <2>7, <3>2
      <4>2. Cardinality((repliedCars \ Completed)') = Cardinality(R) + 1
        BY <2>2, <4>1
      <4> QED BY <2>1, <2>5, <2>8, <4>1, <4>2
    <3> QED BY <3>1, <3>2
  <2>10. numCompleted' >= Cardinality(Completed')
    BY <1>3, <2>1, <2>3, <2>5, <2>7, <2>8
  <2> QED BY <2>9, <2>10 DEF CountedInv
<1>7. DueInv'
  <2>1. release # "found"
    BY <1>1 DEF ProtocolInv, ReleaseInv, AllAnswered
  <2>2. Finds(v)' /\ v \in repliedCars'
    BY <1>2 DEF Finds
  <2> QED BY <1>2, <2>1, <2>2 DEF DueInv
<1>8. AliveInv'
  BY <1>2, <1>3 DEF RoundInv, AliveInv, Awaited, Working, Overtaken, RoundOpen
<1> QED BY <1>4, <1>5, <1>6, <1>7, <1>8 DEF RoundInv

(* A call goes on: what it does to the others and to the round.            *)
LEMMA CallRound ==
  ASSUME IInv, RoundInv, NEW v \in Vehicles, handler[v] \in {"counted", "loaded", "pushing"},
         NEW pc \in {"loaded", "pushing", "finished"}, handler[v] = "pushing" => pc = "finished",
         handler' = [handler EXCEPT ![v] = pc],
         UNCHANGED <<simPc, simTick, countVars, request, pushes, vPc, vQ, vTick, pong,
                     reportedDone>>
  PROVE  /\ Completed' = Completed /\ (RoundOpen' <=> RoundOpen)
         /\ UntakenInv' /\ AnsweredInv' /\ CountedInv' /\ VoiceInv' /\ AliveInv'
<1> USE VehicleTypes DEF IInv
<1>1. Completed' = Completed
  BY DEF Completed
<1>2. RoundOpen' <=> RoundOpen
  BY DEF RoundOpen
<1>3. UntakenInv' /\ AnsweredInv' /\ CountedInv'
  BY <1>1, <1>2 DEF RoundInv, UntakenInv, AnsweredInv, CountedInv, countVars
<1>4. VoiceInv'
  BY <1>2 DEF RoundInv, VoiceInv, Voice, countVars
<1>5. AliveInv'
  BY <1>1, <1>2 DEF RoundInv, AliveInv, Awaited, Working, Overtaken, countVars
<1> QED BY <1>1, <1>2, <1>3, <1>4, <1>5

LEMMA LoadsRepliedRound ==
  ASSUME IInv, RoundInv, NEW v \in Vehicles, SendUpdateLoadsReplied(v) PROVE RoundInv'
<1> USE VehicleTypes
        DEF IInv, SendUpdateLoadsReplied, simVars, serverVars, vehicleVars, history
<1>1. /\ Completed' = Completed /\ (RoundOpen' <=> RoundOpen)
      /\ UntakenInv' /\ AnsweredInv' /\ CountedInv' /\ VoiceInv' /\ AliveInv'
  BY CallRound
<1>2. \A w \in Vehicles : handler'[w] = "pushing" <=> handler[w] = "pushing"
  OBVIOUS
<1>3. RelayInv'
  BY <1>1, <1>2 DEF RoundInv, RelayInv
<1>4. DueInv'
  <2>1. \A w \in Vehicles : Finds(w) => Finds(w)'
    BY DEF Finds, countVars
  <2> QED BY <1>1, <1>2, <2>1 DEF RoundInv, DueInv, CountFull, countVars
<1> QED BY <1>1, <1>3, <1>4 DEF RoundInv

(* The call that finds the count complete has the release to push. *)
LEMMA FindsCompleteRound ==
  ASSUME IInv, RoundInv, Undisturbed', NEW v \in Vehicles, SendUpdateFindsComplete(v)
  PROVE  RoundInv'
<1>1. v \in repliedCars /\ release' = "found" /\ RoundOpen
  BY FoundRight
<1> USE VehicleTypes DEF IInv, SendUpdateFindsComplete, simVars, serverVars, vehicleVars
<1>2. /\ Completed' = Completed /\ (RoundOpen' <=> RoundOpen)
      /\ UntakenInv' /\ AnsweredInv' /\ CountedInv' /\ VoiceInv' /\ AliveInv'
  BY CallRound
<1>3. RelayInv'
  <2>1. request[v].tick = RoundId(simTick)
    BY <1>1 DEF RoundInv, VoiceInv, Voice
  <2>2. \A w \in Vehicles : handler'[w] = "pushing" => relay'[w].id = RoundId(simTick)
    BY <2>1 DEF RoundInv, RelayInv, MkTick
  <2> QED BY <1>2, <2>2 DEF RoundInv, RelayInv
<1>4. DueInv'
  BY <1>1 DEF DueInv
<1> QED BY <1>2, <1>3, <1>4 DEF RoundInv

(* A call that would find the count complete does not find it open. *)
LEMMA FindsOpenRound ==
  ASSUME IInv, RoundInv, NEW v \in Vehicles, SendUpdateFindsOpen(v) PROVE RoundInv'
<1> USE VehicleTypes DEF IInv, SendUpdateFindsOpen, simVars, serverVars, vehicleVars, history
<1>1. /\ Completed' = Completed /\ (RoundOpen' <=> RoundOpen)
      /\ UntakenInv' /\ AnsweredInv' /\ CountedInv' /\ VoiceInv' /\ AliveInv'
  BY CallRound
<1>2. \A w \in Vehicles : handler'[w] = "pushing" <=> handler[w] = "pushing"
  OBVIOUS
<1>3. RelayInv'
  BY <1>1, <1>2 DEF RoundInv, RelayInv
<1>4. DueInv'
  <2>1. CountFull => ~Finds(v)
    BY DEF CountFull, Finds, RoundComplete
  <2>2. \A w \in Vehicles \ {v} : Finds(w) => Finds(w)'
    BY DEF Finds, countVars
  <2> QED BY <1>1, <1>2, <2>1, <2>2 DEF RoundInv, DueInv, CountFull, countVars
<1> QED BY <1>1, <1>3, <1>4 DEF RoundInv

(* The release is queued: its number is larger than the last one's. *)
LEMMA RelaysRound ==
  ASSUME IInv, RoundInv, NEW v \in Vehicles, SendUpdateRelays(v) PROVE RoundInv'
<1> USE VehicleTypes DEF IInv, SendUpdateRelays, serverVars, vehicleVars
<1>1. /\ Completed' = Completed /\ (RoundOpen' <=> RoundOpen)
      /\ UntakenInv' /\ AnsweredInv' /\ CountedInv' /\ VoiceInv' /\ AliveInv'
  BY CallRound
<1>2. RoundOpen /\ simQ = NoTick /\ release = "found"
  BY DEF ProtocolInv, CallInv, ReleaseInv
<1>3. relay[v].id = RoundId(simTick) /\ simLast.id < relay[v].id /\ relay[v].id >= -1
  BY <1>2, RoundIds DEF RoundInv, RelayInv
<1>4. simQ' # NoTick
  BY <1>2, <1>3 DEF Enqueue, NoTick
<1>5. RelayInv'
  BY <1>1, <1>2, <1>3, <1>4, RoundIds DEF RoundInv, RelayInv, RoundOpen
<1>6. DueInv'
  BY <1>2, <1>4 DEF DueInv, history
<1> QED BY <1>1, <1>5, <1>6 DEF RoundInv
-----------------------------------------------------------------------------
(* The vehicles *)

(* It is enough that v itself still speaks for the round and works for it. *)
LEMMA VehicleRound ==
  ASSUME IInv, RoundInv, NEW v \in Vehicles, Vehicle(v), Voice(v)',
         v \in Awaited => Working(v)' \/ Overtaken(v)',
         vPc[v] = "firstGet" => simTick # 0 /\ simPc # "doTick"
  PROVE  RoundInv'
<1> USE VehicleTypes, VehicleKeeps DEF IInv, simVars, serverVars
<1>1. UntakenInv' /\ AnsweredInv'
  BY DEF RoundInv, UntakenInv, AnsweredInv, countVars
<1>2. VoiceInv'
  BY DEF RoundInv, VoiceInv, Voice, RoundOpen, countVars
<1>3. RelayInv'
  <2>1. handler'[v] = "pushing" => handler[v] = "pushing"
    BY DEF Vehicle, VehicleFirstGet, VehicleGet, VehicleStepsAndSends, VehicleStepsDone,
           VehicleSent, VehicleCallFails, handlerVars
  <2> QED BY <2>1 DEF RoundInv, RelayInv
<1>4. CountedInv' /\ DueInv'
  <2>1. \A w \in Vehicles : Finds(w) => Finds(w)'
    BY DEF Finds, countVars
  <2>2. \A w \in Vehicles : handler[w] = "pushing" => handler'[w] = "pushing"
    OBVIOUS
  <2> QED BY <2>1, <2>2 DEF RoundInv, CountedInv, DueInv, CountFull, countVars
<1>5. AliveInv'
  <2> SUFFICES ASSUME NEW w \in Awaited, w # v PROVE Working(w)' \/ Overtaken(w)'
    BY DEF AliveInv
  <2>1. w \in Vehicles \ {v} /\ (Working(w) \/ Overtaken(w))
    BY DEF RoundInv, AliveInv, Awaited
  <2> QED BY <2>1 DEF Working, Overtaken
<1> QED BY <1>1, <1>2, <1>3, <1>4, <1>5 DEF RoundInv

(* The first tick is a TICK and is answered with number 0. *)
LEMMA FirstGetRound ==
  ASSUME FirstTickCounts, IInv, DeliveredInv, RoundInv, NEW v \in Vehicles, VehicleFirstGet(v)
  PROVE  RoundInv'
<1> USE VehicleTypes DEF VehicleFirstGet, IInv
<1>1. /\ v \notin repliedCars /\ simTick <= 1 /\ ~reportedDone[v] /\ vTick[v] = 0
      /\ handler[v] = "none" /\ v \notin Completed
  BY DEF RoundInv, VoiceInv, Voice, ProtocolInv, CallInv, Completed
<1>2. \/ vPc'[v] = "exited" /\ simPc \in {"ending", "ended"}
      \/ vPc'[v] = "step" /\ simTick = 1 /\ pong'[v].cmd = "TICK" /\ RoundOpen
  BY <1>1, QueuedTick, FirstCommand
<1>3. Voice(v)'
  BY <1>1, <1>2 DEF Voice, RoundId, handlerVars, simVars, serverVars, countVars
<1>4. v \in Awaited => Working(v)'
  BY <1>2 DEF Awaited, Working, RoundOpen
<1>5. simTick # 0 /\ simPc # "doTick"
  BY <1>2 DEF RoundInv, UntakenInv, RoundOpen
<1> QED BY <1>3, <1>4, <1>5, VehicleRound DEF Vehicle

LEMMA GetRound ==
  ASSUME IInv, DeliveredInv, RoundInv, NEW v \in Vehicles, VehicleGet(v) PROVE RoundInv'
<1> USE VehicleTypes DEF VehicleGet, IInv
<1>1. handler[v] = "none"
  BY DEF ProtocolInv, CallInv
<1>2. v \in Completed <=> reportedDone[v]
  BY <1>1 DEF Completed
<1>3. ASSUME ~reportedDone[v], vPc'[v] = "step"
      PROVE  vTick'[v] = RoundId(simTick) /\ pong'[v].cmd \in {"TICK", "REQUEST_DEBUG_INFO"}
  <2>1. /\ vQ[v].cmd # "END" /\ v \notin repliedCars /\ vQ[v].id = simTick
        /\ vQ[v].cmd = CommandOf(simTick)
    BY <1>2, <1>3, QueuedTick
  <2>2. simTick >= 2
    BY <1>3, <2>1 DEF RoundInv, VoiceInv, Voice
  <2>3. vTick'[v] = simTick /\ RoundId(simTick) = simTick
    BY <2>1, <2>2, RoundIds
  <2>4. pong'[v].cmd \in {"TICK", "REQUEST_DEBUG_INFO"}
    BY <2>1 DEF CommandOf, Tick
  <2> QED BY <2>3, <2>4
<1>4. vPc'[v] = "exited" /\ ~reportedDone[v] => simPc \in {"ending", "ended"}
  BY <1>2, QueuedTick
<1>5. vPc'[v] \in {"step", "exited", "crashed"}
  OBVIOUS
<1>6. Voice(v)'
  BY <1>1, <1>3, <1>4, <1>5 DEF Voice, handlerVars, simVars, serverVars, countVars
<1>7. v \in Awaited => Working(v)'
  <2>1. vPc'[v] # "crashed"
    BY DEF DeliveredInv, SeenInv
  <2> QED BY <1>2, <1>4, <1>5, <2>1 DEF Awaited, Working, RoundOpen
<1> QED BY <1>6, <1>7, VehicleRound DEF Vehicle

(* The answer names the round and counts. *)
LEMMA StepsAndSendsRound ==
  ASSUME IInv, RoundInv, NEW v \in Vehicles, VehicleStepsAndSends(v) PROVE RoundInv'
<1> USE VehicleTypes DEF VehicleStepsAndSends, StepsToAnswer, IInv
<1>1. vTick[v] = RoundId(simTick) /\ pong[v].cmd \in {"TICK", "REQUEST_DEBUG_INFO"}
  BY DEF RoundInv, VoiceInv, Voice
<1>2. PICK o \in Outcome(pong[v].cmd) :
        request' = [request EXCEPT ![v] =
                      [v |-> v, tick |-> vTick[v], state |-> o[1], dur |-> o[2]]]
  OBVIOUS
<1>3. o[1] \in FinalState \union {"TICK_OK"}
  BY <1>1 DEF Outcome, FinalState
<1>4. handler'[v] = "received" /\ vPc'[v] = "sending" /\ request'[v].tick = RoundId(simTick)
  BY <1>1, <1>2
<1>5. request'[v].state \in FinalState \union {"TICK_OK"}
  BY <1>2, <1>3
<1>6. Voice(v)'
  BY <1>4, <1>5 DEF Voice, simVars
<1>7. Working(v)'
  BY <1>4 DEF Working
<1> QED BY <1>6, <1>7, VehicleRound DEF Vehicle

LEMMA StepsDoneRound ==
  ASSUME IInv, RoundInv, NEW v \in Vehicles, VehicleStepsDone(v) PROVE RoundInv'
<1> USE VehicleTypes DEF VehicleStepsDone, IInv
<1>1. v \in Completed /\ handler[v] = "none" /\ vPc'[v] \in {"exited", "get", "crashed"}
  BY DEF Completed, ProtocolInv, CallInv
<1>2. Voice(v)'
  BY <1>1 DEF Voice, handlerVars
<1> QED BY <1>1, <1>2, VehicleRound DEF Vehicle, Awaited

(* The call is answered; a tick that came meanwhile fails the assertion. *)
LEMMA SentRound ==
  ASSUME IInv, RoundInv, NEW v \in Vehicles, VehicleSent(v) PROVE RoundInv'
<1> USE VehicleTypes DEF VehicleSent, IInv
<1>1. /\ handler'[v] = "none" /\ vPc'[v] \in {"get", "crashed"}
      /\ reportedDone[v] => reportedDone'[v]
  OBVIOUS
<1>2. simTick >= 2 \/ reportedDone[v] \/ v \in repliedCars
  BY DEF RoundInv, VoiceInv, Voice
<1>3. Voice(v)'
  BY <1>1, <1>2 DEF Voice, simVars, serverVars, countVars
<1>4. v \in Awaited => Working(v)' \/ Overtaken(v)'
  <2>1. v \in Awaited => vQ[v] # NoTick \/ \E p \in pushes : p.to = v
    BY DEF RoundInv, AliveInv, Working, Overtaken
  <2>2. v \in Awaited /\ vQ[v] # NoTick => vQ[v].id = simTick
    BY DEF ProtocolInv, WorkInv, Awaited, RoundOpen
  <2> QED BY <2>1, <2>2 DEF Working, Overtaken, simVars
<1> QED BY <1>3, <1>4, VehicleRound DEF Vehicle

LEMMA CallFailsRound ==
  ASSUME IInv, RoundInv, NEW v \in Vehicles, VehicleCallFails(v) PROVE RoundInv'
<1> USE VehicleTypes DEF VehicleCallFails, IInv
<1>1. simPc = "ended" /\ vPc'[v] = "crashed" /\ vPc[v] = "sending"
  BY DEF ProtocolInv, ServerInv
<1>2. Voice(v)'
  BY <1>1 DEF RoundInv, VoiceInv, Voice, RoundOpen, handlerVars, simVars, serverVars, countVars
<1> QED BY <1>1, <1>2, VehicleRound DEF Vehicle, Awaited, RoundOpen
-----------------------------------------------------------------------------
LEMMA RoundNext ==
  ASSUME FirstTickCounts, IInv, DeliveredInv, CrashInv, RoundInv, Undisturbed', [Next]_vars
  PROVE  RoundInv'
<1>1. CASE Sim
  <2>1. CASE SimCallFails
    BY <2>1 DEF SimCallFails, IInv, ProtocolInv, ServerInv
  <2> QED BY <1>1, <2>1, BroadcastRound, ReturnsRound, UnpackRound, ClosingRound DEF Sim
<1>2. CASE Server
  <2>1. CASE Server_DoTickAborts
    BY <2>1 DEF Server_DoTickAborts, InSequence, IInv, ProtocolInv, ServerInv
  <2> QED BY <1>2, <2>1, DoTickRound, ClosingRound, EndPushesRound DEF Server
<1>3. CASE Resend
  BY <1>3, NothingRepeated DEF IInv
<1>4. ASSUME NEW v \in Vehicles, Handler(v) PROVE RoundInv'
  BY <1>4, CountsRound, LoadsRepliedRound, FindsCompleteRound, FindsOpenRound, RelaysRound
  DEF Handler
<1>5. ASSUME NEW v \in Vehicles, PushThread(v) PROVE RoundInv'
  BY <1>5, PushRound DEF PushThread
<1>6. ASSUME NEW v \in Vehicles, Vehicle(v) PROVE RoundInv'
  BY <1>6, FirstGetRound, GetRound, StepsAndSendsRound, StepsDoneRound, SentRound, CallFailsRound
  DEF Vehicle
<1>7. CASE UNCHANGED vars
  BY <1>7, RoundFrame DEF vars, simVars, serverVars, history
<1> QED BY <1>1, <1>2, <1>3, <1>4, <1>5, <1>6, <1>7 DEF Next

LEMMA RoundsInductive == ASSUME FirstTickCounts PROVE Spec => [](Undisturbed => IInv /\ RoundInv)
<1>1. /\ TypeOK /\ DeliveredInv /\ (Undisturbed => IInv /\ CrashInv) /\ (Undisturbed => RoundInv)
      /\ [Next]_vars
      => (Undisturbed => RoundInv)'
  <2> SUFFICES ASSUME TypeOK, DeliveredInv, Undisturbed => IInv /\ CrashInv,
                      Undisturbed => RoundInv, [Next]_vars, Undisturbed'
               PROVE  RoundInv'
    OBVIOUS
  <2>1. Undisturbed
    BY NothingRepeated
  <2> QED BY <2>1, RoundNext
<1> QED BY <1>1, RoundInit, TypeCorrect, CrashInductive, PTL DEF Spec

(* Whoever the simulation waits for has a step to take in the round, or    *)
(* was overtaken by its tick; and once everybody has answered the release  *)
(* is on its way: for any number of vehicles and any overlap of calls, no  *)
(* push, answer or release is lost on the way.                             *)
THEOREM NobodyWaitsInVainHolds ==
  ASSUME FirstTickCounts PROVE Spec => []NobodyWaitsInVain
<1>1. TypeOK /\ (Undisturbed => IInv /\ RoundInv) => NobodyWaitsInVain
  <2> SUFFICES ASSUME TypeOK, IInv, RoundInv, Undisturbed, RoundOpen
               PROVE  /\ \A v \in Awaited : Working(v) \/ Overtaken(v)
                      /\ Awaited = {} /\ repliedCars # {} =>
                           \/ simQ # NoTick
                           \/ \E v \in Vehicles : handler[v] \in {"counted", "loaded", "pushing"}
    BY DEF NobodyWaitsInVain, Overtaken
  <2>1. release \in {"due", "found"} /\ repliedCars \subseteq Vehicles
    BY DEF TypeOK, ReleaseState, Undisturbed, ReleasedOnce
  <2>2. Awaited = {} => CountFull
    BY NobodyAwaitedCounts DEF RoundInv
  <2> QED BY <2>1, <2>2 DEF RoundInv, AliveInv, DueInv, Finds
<1> QED BY <1>1, TypeCorrect, RoundsInductive, PTL
-----------------------------------------------------------------------------
(***************************************************************************)
(* 5. The end reaches everybody.                                           *)
(***************************************************************************)

(* What Server_EndScenario's loop leaves of a vehicle it has passed. *)
Leaving(v) ==
  \/ vPc[v] \in {"exited", "crashed"}
  \/ MissesEnd(v)
  \/ vPc[v] \in {"firstGet", "get", "sending"} /\ vQ[v] # NoTick
  \/ vPc[v] = "step" /\ reportedDone[v]

LeavingInv ==
  /\ endNext > 0 => simPc \in {"ending", "ended"}
  /\ simPc = "ended" => endNext = N
  /\ \A v \in Vehicles : IF v < endNext THEN Leaving(v) ELSE vLast[v] # EndPing

LEMMA LeavingTypes ==
  ASSUME TypeOK PROVE endNext \in 0 .. N /\ N \in Nat \ {0} /\ \A v \in Vehicles : v \in 0 .. N-1
BY ConstantsAssumption DEF TypeOK, Vehicles

(* Nothing a passed vehicle has left to do changes. *)
LEMMA LeavingFrame ==
  ASSUME LeavingInv, UNCHANGED <<endNext, vPc, vQ, vLast, reportedDone>>,
         Completed \subseteq Completed',
         endNext > 0 => simPc' \in {"ending", "ended"},
         simPc' = "ended" => simPc = "ended" \/ endNext = N
  PROVE  LeavingInv'
BY DEF LeavingInv, Leaving, MissesEnd

LEMMA EndPushLeaving ==
  ASSUME IInv, LeavingInv, EndScenarioPushes PROVE LeavingInv'
<1> USE TypesOfSeen, LeavingTypes DEF IInv
<1>1. /\ PushToVehicle(endNext, EndPing)
      /\ endNext' = endNext + 1 /\ endNext < N /\ simPc = "ending"
      /\ UNCHANGED <<simPc, vPc, handler, request, reportedDone>>
  BY DEF EndScenarioPushes, NumClients, simVars, handlerVars
<1>2. PICK e \in Vehicles : e = endNext
  BY <1>1 DEF Vehicles
<1>3. \A w \in Vehicles : w # e => vQ'[w] = vQ[w] /\ vLast'[w] = vLast[w]
  BY <1>1, <1>2 DEF PushToVehicle
<1>4. Completed' = Completed
  BY <1>1, CompletedUnchanged
<1>5. Leaving(e)'
  <2>1. CASE vPc[e] \in {"exited", "crashed"}
    BY <1>1, <2>1 DEF Leaving
  <2>2. CASE vPc[e] = "step"
    <3>1. handler[e] = "none" /\ ~RoundOpen
      BY <1>1, <2>2 DEF ProtocolInv, CallInv, RoundOpen
    <3>2. reportedDone[e]
      BY <2>2, <3>1, NoWorkBetweenRounds DEF Completed
    <3> QED BY <1>1, <2>2, <3>2 DEF Leaving
  <2>3. CASE vPc[e] \in {"firstGet", "get", "sending"}
    <3>1. vLast[e] # EndPing /\ EndPing # NoTick
      BY <1>2 DEF LeavingInv, EndPing, MkTick, NoTick
    <3>2. vQ'[e] # NoTick
      BY <1>1, <1>2, <2>3, <3>1 DEF PushToVehicle, Enqueue
    <3> QED BY <1>1, <2>3, <3>2 DEF Leaving
  <2> QED BY <2>1, <2>2, <2>3 DEF VehiclePc
<1>6. ASSUME NEW v \in Vehicles, v # e
      PROVE  IF v < endNext + 1 THEN Leaving(v)' ELSE vLast'[v] # EndPing
  <2>1. v \in Nat /\ endNext \in Nat /\ (v < endNext + 1 <=> v < endNext)
    BY <1>2, <1>6, ConstantsAssumption DEF Vehicles
  <2>2. Leaving(v) => Leaving(v)'
    BY <1>1, <1>3, <1>4, <1>6 DEF Leaving, MissesEnd
  <2> QED BY <1>3, <1>6, <2>1, <2>2 DEF LeavingInv
<1>7. \A v \in Vehicles : IF v < endNext' THEN Leaving(v)' ELSE vLast'[v] # EndPing
  BY <1>1, <1>2, <1>5, <1>6
<1> QED BY <1>1, <1>7 DEF LeavingInv

(* Only ticks of the rounds are in the threads. *)
LEMMA PushLeaving ==
  ASSUME TypeOK, DeliveredInv, LeavingInv, NEW p \in pushes, PushTick(p) PROVE LeavingInv'
<1> USE TypesOfSeen, LeavingTypes
<1>1. /\ PushToVehicle(p.to, p.tick)
      /\ UNCHANGED <<simPc, endNext, vPc, handler, request, reportedDone>>
  BY DEF PushTick, simVars, serverVars, handlerVars
<1>2. p.tick # EndPing /\ p.tick # NoTick
  BY DEF DeliveredInv, PushedOnce, EndPing, MkTick, NoTick
<1>3. \A v \in Vehicles : /\ vLast'[v] \in {vLast[v], p.tick}
                          /\ vQ[v] # NoTick => vQ'[v] # NoTick
  BY <1>1, <1>2 DEF PushToVehicle, Enqueue
<1>4. Completed' = Completed
  BY <1>1, CompletedUnchanged
<1> QED BY <1>1, <1>2, <1>3, <1>4 DEF LeavingInv, Leaving, MissesEnd

(* Who is passed takes the end, or one more tick and then leaves. *)
LEMMA VehicleLeaving ==
  ASSUME IInv, DeliveredInv, LeavingInv, NEW v \in Vehicles, Vehicle(v) PROVE LeavingInv'
<1> USE TypesOfSeen, LeavingTypes, VehicleTypes DEF IInv
<1>1. /\ UNCHANGED <<simPc, endNext, vLast>> /\ Completed' = Completed
      /\ \A w \in Vehicles \ {v} : /\ vPc'[w] = vPc[w] /\ vQ'[w] = vQ[w]
                                   /\ reportedDone'[w] = reportedDone[w]
  BY VehicleKeeps DEF simVars, serverVars, Vehicle, VehicleFirstGet, VehicleGet,
                      VehicleStepsAndSends, VehicleStepsDone, VehicleSent, VehicleCallFails
<1>2. ASSUME v < endNext PROVE Leaving(v)'
  <2>1. Leaving(v) /\ simPc \in {"ending", "ended"} /\ ~RoundOpen
    BY <1>2 DEF LeavingInv, RoundOpen
  <2>2. v \in Vehicles \ Completed /\ vQ[v] # NoTick => vQ[v].cmd = "END"
    BY <2>1, QueuedTick
  <2>3. handler[v] = "none" => (v \in Completed <=> reportedDone[v])
    BY DEF Completed
  <2>4. CASE VehicleFirstGet(v)
    <3>1. handler[v] = "none" /\ UNCHANGED reportedDone
      BY <2>4 DEF VehicleFirstGet, ProtocolInv, CallInv
    <3> QED BY <2>2, <2>3, <2>4, <3>1 DEF VehicleFirstGet, Leaving
  <2>5. CASE VehicleGet(v)
    <3>1. handler[v] = "none" /\ UNCHANGED reportedDone
      BY <2>5 DEF VehicleGet, ProtocolInv, CallInv
    <3>2. vQ[v].id # vTick[v]
      BY <2>5 DEF VehicleGet, DeliveredInv, SeenInv
    <3> QED BY <2>2, <2>3, <2>5, <3>1, <3>2 DEF VehicleGet, Leaving
  <2>6. CASE VehicleStepsDone(v)
    BY <1>1, <2>6 DEF VehicleStepsDone, Leaving, MissesEnd, Completed
  <2>7. CASE VehicleStepsAndSends(v)
    BY <1>1, <2>1, <2>7 DEF Leaving, MissesEnd, VehicleStepsAndSends, StepsToAnswer
  <2>8. CASE VehicleSent(v) \/ VehicleCallFails(v)
    BY <1>1, <2>1, <2>8 DEF Leaving, MissesEnd, VehicleSent, VehicleCallFails
  <2> QED BY <2>4, <2>5, <2>6, <2>7, <2>8 DEF Vehicle
<1>3. \A w \in Vehicles \ {v} : Leaving(w) => Leaving(w)'
  BY <1>1 DEF Leaving, MissesEnd
<1> QED BY <1>1, <1>2, <1>3 DEF LeavingInv

LEMMA LeavingNext ==
  ASSUME IInv, DeliveredInv, LeavingInv, Undisturbed', [Next]_vars PROVE LeavingInv'
<1> USE LeavingTypes DEF IInv
<1>1. ASSUME UNCHANGED <<endNext, vPc, vQ, vLast, handler, request, reportedDone>>,
             endNext > 0 => simPc' \in {"ending", "ended"},
             simPc' = "ended" => simPc = "ended" \/ endNext = N
      PROVE  LeavingInv'
  BY <1>1, CompletedUnchanged, LeavingFrame
<1>2. CASE Sim
  <2>1. CASE SimCallFails
    BY <2>1 DEF SimCallFails, ProtocolInv, ServerInv
  <2>2. CASE SimEnds
    BY <1>1, <2>2 DEF SimEnds, NumClients, handlerVars, vehicleVars
  <2> QED
    BY <1>1, <1>2, <2>1, <2>2
    DEF Sim, SimBroadcast, SimDoTickReturns, SimGet, SimUnpackUpdates, SimUnpackDebug, LeavingInv,
        serverVars, handlerVars, vehicleVars
<1>3. CASE Server
  <2>1. CASE Server_DoTickAborts
    BY <2>1 DEF Server_DoTickAborts, InSequence, ProtocolInv, ServerInv
  <2>2. CASE Server_DoTick \/ Server_EndScenario
    <3>1. /\ UNCHANGED <<endNext, vPc, vQ, vLast, handler, request, reportedDone>>
          /\ simPc \in {"doTick", "end"} /\ simPc' \in {"answered", "ending"}
      BY <2>2 DEF Server_DoTick, Server_EndScenario, handlerVars, vehicleVars
    <3> QED BY <1>1, <3>1 DEF LeavingInv
  <2> QED BY <1>3, <2>1, <2>2, EndPushLeaving DEF Server
<1>4. CASE Resend
  BY <1>4, NothingRepeated
<1>5. ASSUME NEW v \in Vehicles, Handler(v) PROVE LeavingInv'
  <2>1. UNCHANGED <<simPc, endNext, vPc, vQ, vLast, reportedDone>>
    BY <1>5 DEF Handler, SendUpdateCounts, SendUpdateLoadsReplied, SendUpdateFindsComplete,
                SendUpdateFindsOpen, SendUpdateRelays, simVars, serverVars, vehicleVars
  <2> QED BY <1>5, <2>1, HandlerCompletes, LeavingFrame DEF LeavingInv
<1>6. ASSUME NEW v \in Vehicles, PushThread(v) PROVE LeavingInv'
  BY <1>6, PushLeaving DEF PushThread
<1>7. ASSUME NEW v \in Vehicles, Vehicle(v) PROVE LeavingInv'
  BY <1>7, VehicleLeaving
<1>8. CASE UNCHANGED vars
  BY <1>1, <1>8 DEF vars, simVars, serverVars, handlerVars, vehicleVars, LeavingInv
<1> QED BY <1>2, <1>3, <1>4, <1>5, <1>6, <1>7, <1>8 DEF Next

(* Server_EndScenario reaches everybody who can be reached: when end() has *)
(* returned, every vehicle has left its loop, or has END queued, or has    *)
(* reported done and executes, or has queued, one more tick, upon which it *)
(* leaves; but for the vehicles that are done and drive on (MissesEnd).    *)
EndReachesEveryone ==
  Undisturbed /\ simPc = "ended" =>
    \A v \in Vehicles :
      \/ vPc[v] \in {"exited", "crashed"}
      \/ MissesEnd(v)
      \/ /\ vPc[v] \in {"firstGet", "get", "sending"} /\ vQ[v] # NoTick
         /\ vQ[v].cmd = "END" \/ v \in Completed
      \/ vPc[v] = "step" /\ reportedDone[v]

THEOREM EndReachesEveryoneHolds == Spec => []EndReachesEveryone
<1>1. Init => LeavingInv
  BY ConstantsAssumption DEF Init, LeavingInv, Vehicles, NoTick, EndPing, MkTick
<1>2. /\ TypeOK /\ DeliveredInv /\ (Undisturbed => IInv) /\ (Undisturbed => LeavingInv)
      /\ [Next]_vars
      => (Undisturbed => LeavingInv)'
  <2> SUFFICES ASSUME TypeOK, DeliveredInv, Undisturbed => IInv, Undisturbed => LeavingInv,
                      [Next]_vars, Undisturbed'
               PROVE  LeavingInv'
    OBVIOUS
  <2>1. Undisturbed
    BY NothingRepeated
  <2> QED BY <2>1, LeavingNext
<1>3. DeliveredInv /\ (Undisturbed => IInv) /\ (Undisturbed => LeavingInv) => EndReachesEveryone
  <2> SUFFICES ASSUME IInv, DeliveredInv, LeavingInv, simPc = "ended", NEW v \in Vehicles
               PROVE  /\ Leaving(v)
                      /\ vQ[v] # NoTick => vQ[v].cmd = "END" \/ v \in Completed
    BY DEF EndReachesEveryone, Leaving
  <2>1. Leaving(v)
    BY LeavingTypes DEF IInv, LeavingInv
  <2>2. v \in Vehicles \ Completed /\ vQ[v] # NoTick => vQ[v].cmd = "END"
    BY QueuedTick DEF RoundOpen
  <2> QED BY <2>1, <2>2
<1> QED BY <1>1, <1>2, <1>3, TypeCorrect, CrashInductive, PTL DEF Spec
-----------------------------------------------------------------------------
(***************************************************************************)
(* 6. The proxies: when the answers to two ticks fit into one batch of     *)
(* Server_GetVehicleUpdates.  The first tick's answers are fetched with    *)
(* the second's; were one of them left behind then, it would be unpacked   *)
(* over the third's.                                                       *)
(***************************************************************************)

(* A response holds one update more than a batch. *)
TwoTicksFit == 2 * N <= BatchSize + 1

(* A vehicle that has not taken its first tick has not answered it. *)
FirstInv ==
  \A v \in Vehicles :
    vPc[v] = "firstGet" => v \notin repliedCars /\ simTick <= 1 /\ ~reportedDone[v]

(* From the second tick on an answer names its tick and vehicle. *)
AnswerOf(v) ==
  /\ vPc[v] = "step" => vTick[v] = simTick /\ pong[v].cmd \in {"TICK", "REQUEST_DEBUG_INFO"}
  /\ handler[v] = "received" =>
       /\ request[v].v = v /\ request[v].tick = simTick
       /\ request[v].state \in FinalState \union {"TICK_OK"}
AnswerInv == simTick >= 2 => \A v \in Vehicles \ Completed : AnswerOf(v)

Collecting == simPc \in {"answered", "get", "unpack"}

(* What the mailbox holds of the round, and of the first one. *)
LengthInv ==
  /\ Collecting => Len(pending) <= Cardinality(repliedCars) + (IF simTick = 2 THEN N ELSE 0)
  /\ simPc = "doTick" => Len(pending) <= IF simTick = 2 THEN N ELSE 0
  /\ simPc = "loop" => Len(pending) <= IF simTick = 1 THEN N ELSE 0

MailboxOfRound ==
  /\ \A i \in DOMAIN pending : pending[i].v \in repliedCars /\ pending[i].tick = simTick
  /\ \A i, j \in DOMAIN pending : pending[i].v = pending[j].v => i = j
  /\ \A v \in repliedCars \ Completed :
       \E i \in DOMAIN pending : pending[i].v = v /\ pending[i].state = "TICK_OK"
MailboxInv == Collecting /\ simTick \in 3 .. LastTick - 1 => MailboxOfRound

ProxyInv == simPc = "loop" /\ simTick >= 3 => \A v \in Vehicles \ Completed : proxy[v] = simTick

FreshInv == FirstInv /\ AnsweredInv /\ AnswerInv /\ LengthInv /\ MailboxInv /\ ProxyInv
-----------------------------------------------------------------------------
LEMMA LastTickInt == LastTick \in Nat
BY ConstantsAssumption DEF LastTick

LEMMA PendingFacts ==
  ASSUME TypeOK
  PROVE  /\ pending \in Seq(Update) /\ Len(pending) \in Nat /\ DOMAIN pending = 1 .. Len(pending)
         /\ simTick \in Nat /\ repliedCars \subseteq Vehicles
         /\ Cardinality(repliedCars) \in Nat /\ Cardinality(repliedCars) <= N /\ N \in Nat
BY LenProperties, FiniteParts, LastTickInt, ConstantsAssumption DEF TypeOK

LEMMA FreshInit == ASSUME Init, TwoTicksFit PROVE FreshInv
<1>1. Leftover = 0
  BY ConstantsAssumption DEF Leftover, TwoTicksFit
<1>2. Len(pending) = 0
  <2>1. pending = [i \in 1 .. 0 |-> Registration(i-1)]
    BY <1>1 DEF Init
  <2> QED BY <2>1
<1>3. FirstInv /\ AnsweredInv /\ AnswerInv /\ MailboxInv /\ ProxyInv
  BY DEF Init, FirstInv, AnsweredInv, AnswerInv, MailboxInv, Collecting, ProxyInv
<1>4. LengthInv
  <2>1. simPc = "loop" /\ simTick = 0
    BY DEF Init
  <2> QED BY <1>2, <2>1 DEF LengthInv, Collecting
<1> QED BY <1>3, <1>4 DEF FreshInv

(* The mailbox and the proxies are untouched. *)
LEMMA MailboxFrame ==
  ASSUME TypeOK, FreshInv, Completed \subseteq Completed',
         UNCHANGED <<simPc, simTick, proxy, repliedCars, pending>>
  PROVE  AnsweredInv' /\ LengthInv' /\ MailboxInv' /\ ProxyInv'
BY DEF FreshInv, AnsweredInv, LengthInv, MailboxInv, MailboxOfRound, Collecting, ProxyInv

(* The vehicles are untouched. *)
LEMMA VehiclesFrame ==
  ASSUME TypeOK, FreshInv, Completed \subseteq Completed', repliedCars' \subseteq repliedCars,
         UNCHANGED <<simTick, handler, request, vPc, pong, vTick, reportedDone>>
  PROVE  FirstInv' /\ AnswerInv'
BY DEF FreshInv, FirstInv, AnswerInv, AnswerOf
-----------------------------------------------------------------------------
(* The simulation *)

LEMMA BroadcastFresh == ASSUME IInv, FreshInv, SimBroadcast PROVE FreshInv'
<1> USE DEF SimBroadcast, serverVars, countVars, handlerVars, vehicleVars
<1>1. /\ simPc = "loop" /\ simPc' = "doTick" /\ simTick' = simTick + 1 /\ simTick \in Nat
      /\ Completed' = Completed /\ ~RoundOpen
  BY CompletedUnchanged, PendingFacts DEF IInv, RoundOpen
<1>2. FirstInv'
  <2> SUFFICES ASSUME NEW v \in Vehicles, vPc[v] = "firstGet"
               PROVE  v \notin repliedCars /\ simTick + 1 <= 1 /\ ~reportedDone[v]
    BY <1>1 DEF FirstInv
  <2>1. v \notin repliedCars /\ simTick <= 1 /\ ~reportedDone[v]
    BY DEF FreshInv, FirstInv
  <2>2. v \notin Completed
    BY <2>1 DEF Completed, IInv, ProtocolInv, CallInv
  <2>3. simTick # 1
    BY <1>1, <2>1, <2>2 DEF FreshInv, AnsweredInv
  <2> QED BY <1>1, <2>1, <2>3
<1>3. AnswerInv'
  BY <1>1, NoWorkBetweenRounds DEF AnswerInv, AnswerOf
<1>4. AnsweredInv' /\ MailboxInv' /\ ProxyInv'
  BY <1>1 DEF FreshInv, AnsweredInv, MailboxInv, Collecting, ProxyInv
<1>5. LengthInv'
  BY <1>1, PendingFacts DEF FreshInv, LengthInv, Collecting, IInv
<1> QED BY <1>2, <1>3, <1>4, <1>5 DEF FreshInv

LEMMA ReturnsFresh == ASSUME IInv, FreshInv, SimDoTickReturns \/ SimGet PROVE FreshInv'
<1> USE DEF serverVars, countVars, handlerVars, vehicleVars
<1>1. /\ UNCHANGED <<simTick, proxy, repliedCars, pending, handler, request, vPc, pong, vTick,
                     reportedDone>>
      /\ simPc \in {"answered", "get"}
      /\ \/ simPc' \in {"get", "unpack", "end"}
         \/ simPc' = "loop" /\ simTick = 1 /\ simQ # NoTick
  BY DEF SimDoTickReturns, SimGet
<1>2. Completed' = Completed
  BY <1>1, CompletedUnchanged
<1>3. FirstInv' /\ AnswerInv'
  BY <1>1, <1>2, VehiclesFrame DEF IInv
<1>4. AnsweredInv'
  <2>1. simPc' = "loop" => Vehicles \subseteq repliedCars \union Completed
    BY <1>1, NoWorkOnceReleased DEF AllAnswered, RoundOpen
  <2> QED BY <1>1, <1>2, <2>1 DEF AnsweredInv
<1>5. LengthInv'
  BY <1>1, PendingFacts DEF FreshInv, LengthInv, Collecting, IInv
<1>6. MailboxInv' /\ ProxyInv'
  BY <1>1, <1>2 DEF FreshInv, MailboxInv, MailboxOfRound, Collecting, ProxyInv
<1> QED BY <1>3, <1>4, <1>5, <1>6 DEF FreshInv

(* The response empties the mailbox: what two ticks left fits into it. *)
LEMMA MailboxFits ==
  ASSUME TwoTicksFit, IInv, FreshInv, Collecting
  PROVE  Kept = 0 /\ SubSeq(pending, 1, Kept) = <<>>
<1>1. Len(pending) <= 2 * N
  <2>1. Len(pending) <= Cardinality(repliedCars) + (IF simTick = 2 THEN N ELSE 0)
    BY DEF FreshInv, LengthInv
  <2>2. /\ Len(pending) \in Nat /\ N \in Nat
        /\ Cardinality(repliedCars) \in Nat /\ Cardinality(repliedCars) <= N
    BY PendingFacts DEF IInv
  <2> QED BY <2>1, <2>2
<1>2. Kept = 0
  <2>1. Len(pending) \in Nat
    BY PendingFacts DEF IInv
  <2>2. BatchSize \in Nat /\ N \in Nat
    BY ConstantsAssumption
  <2> QED BY <1>1, <2>1, <2>2 DEF Kept, TwoTicksFit
<1>3. SubSeq(pending, 1, 0) = <<>>
  <2>1. 0 \in Int /\ 1 \in Int /\ 0 < 1
    OBVIOUS
  <2> QED BY <2>1, SubSeqEmpty
<1> QED BY <1>2, <1>3

(* With one update per vehicle the oldest is the only one. *)
LEMMA UnpackedOnce ==
  ASSUME IsEdge, IInv, MailboxOfRound, Kept = 0,
         NEW v \in Vehicles \ Completed, Vehicles \subseteq repliedCars \union Completed
  PROVE  UnpackedProxy(v) = simTick
<1> DEFINE Mine(i) == i > Kept /\ pending[i].v = v /\ HasTransform(pending[i])
           Oldest(i) == Mine(i) /\ \A j \in DOMAIN pending : Mine(j) => i <= j
           chosen == CHOOSE i \in DOMAIN pending : Oldest(i)
<1>1. PICK i \in DOMAIN pending : pending[i].v = v /\ pending[i].state = "TICK_OK"
  BY DEF MailboxOfRound
<1>2. DOMAIN pending = 1 .. Len(pending) /\ Len(pending) \in Nat
  BY PendingFacts DEF IInv
<1>3. Mine(i)
  BY <1>1, <1>2 DEF HasTransform
<1>4. \A j \in DOMAIN pending : Mine(j) => j = i
  BY <1>1 DEF MailboxOfRound
<1>5. Oldest(i)
  BY <1>2, <1>3, <1>4
<1>6. chosen \in DOMAIN pending
  BY <1>5
<1>7. UnpackedProxy(v) = pending[chosen].tick
  BY <1>5 DEF UnpackedProxy
<1> HIDE DEF chosen
<1> QED BY <1>6, <1>7 DEF MailboxOfRound

LEMMA UnpackUpdatesFresh ==
  ASSUME IsEdge, TwoTicksFit, IInv, FreshInv, SimUnpackUpdates PROVE FreshInv'
<1> USE DEF SimUnpackUpdates, handlerVars, vehicleVars
<1>1. Completed' = Completed
  BY CompletedUnchanged
<1>2. pending' = <<>> /\ Len(pending') = 0 /\ Kept = 0
  BY MailboxFits DEF GetVehicleUpdates, Collecting
<1>3. FirstInv' /\ AnswerInv'
  BY <1>1, VehiclesFrame DEF IInv
<1>4. Vehicles \subseteq repliedCars \union Completed
  BY DEF IInv, ProtocolInv, ReleaseInv, AllAnswered
<1>5. AnsweredInv' /\ MailboxInv'
  BY <1>1, <1>4 DEF AnsweredInv, MailboxInv, Collecting
<1>6. LengthInv'
  BY <1>2, ConstantsAssumption DEF LengthInv, Collecting
<1>7. ProxyInv'
  <2> SUFFICES ASSUME simTick >= 3, NEW v \in Vehicles \ Completed PROVE proxy'[v] = simTick
    BY <1>1 DEF ProxyInv
  <2>1. simTick \in 3 .. LastTick - 1
    BY LastTickInt DEF IInv, TypeOK, CommandOf
  <2>2. MailboxOfRound
    BY <2>1 DEF FreshInv, MailboxInv, Collecting
  <2>3. UnpackedProxy(v) = simTick
    BY <1>2, <1>4, <2>2, UnpackedOnce
  <2> QED BY <2>3
<1> QED BY <1>3, <1>5, <1>6, <1>7 DEF FreshInv

LEMMA UnpackDebugFresh ==
  ASSUME TwoTicksFit, IInv, FreshInv, SimUnpackDebug PROVE FreshInv'
<1> USE DEF SimUnpackDebug, handlerVars, vehicleVars
<1>1. Completed' = Completed
  BY CompletedUnchanged
<1>2. Len(pending') = 0
  BY MailboxFits DEF GetVehicleUpdates, Collecting
<1>3. FirstInv' /\ AnswerInv'
  BY <1>1, VehiclesFrame DEF IInv
<1>4. simTick = LastTick
  BY DEF CommandOf
<1>5. AnsweredInv' /\ MailboxInv' /\ ProxyInv'
  BY <1>4, LastTickInt DEF AnsweredInv, MailboxInv, ProxyInv, LastTick
<1>6. LengthInv'
  BY <1>2, PendingFacts DEF LengthInv, Collecting, IInv
<1> QED BY <1>3, <1>5, <1>6 DEF FreshInv

(* Once the scenario closes, nothing is said of mailbox or proxies. *)
LEMMA ClosingFresh ==
  ASSUME IInv, FreshInv, SimEnds \/ Server_EndScenario PROVE FreshInv'
<1> USE DEF SimEnds, Server_EndScenario, countVars, handlerVars, vehicleVars
<1>1. Completed' = Completed
  BY CompletedUnchanged
<1>2. FirstInv' /\ AnswerInv'
  BY <1>1, VehiclesFrame DEF IInv
<1>3. simPc' \in {"ending", "ended"}
  OBVIOUS
<1> QED BY <1>2, <1>3 DEF FreshInv, AnsweredInv, LengthInv, MailboxInv, Collecting, ProxyInv
-----------------------------------------------------------------------------
(* The server *)

LEMMA DoTickFresh == ASSUME IInv, FreshInv, Server_DoTick PROVE FreshInv'
<1> USE DEF Server_DoTick, handlerVars, vehicleVars
<1>1. Completed' = Completed
  BY CompletedUnchanged
<1>2. FirstInv' /\ AnswerInv'
  BY <1>1, VehiclesFrame DEF IInv
<1>3. AnsweredInv' /\ ProxyInv'
  BY DEF AnsweredInv, ProxyInv
<1>4. LengthInv'
  BY FS_EmptySet, PendingFacts DEF FreshInv, LengthInv, Collecting, IInv
<1>5. MailboxInv'
  <2>1. simTick >= 3 => Len(pending) = 0
    BY PendingFacts DEF FreshInv, LengthInv, IInv
  <2>2. simTick >= 3 => DOMAIN pending = {}
    BY <2>1, PendingFacts DEF IInv
  <2> QED BY <2>2, PendingFacts DEF MailboxInv, MailboxOfRound, IInv
<1> QED BY <1>2, <1>3, <1>4, <1>5 DEF FreshInv

(* Neither mailbox, proxies nor an executed tick change. *)
LEMMA PushesFresh ==
  ASSUME IInv, FreshInv, EndScenarioPushes \/ \E p \in pushes : PushTick(p) PROVE FreshInv'
<1>1. UNCHANGED <<simPc, simTick, proxy, repliedCars, pending, handler, request, vPc, pong,
                  vTick, reportedDone>>
  BY DEF EndScenarioPushes, PushTick, simVars, serverVars, countVars, handlerVars
<1>2. Completed' = Completed
  BY <1>1, CompletedUnchanged
<1> QED BY <1>1, <1>2, MailboxFrame, VehiclesFrame DEF FreshInv, IInv
-----------------------------------------------------------------------------
(* Client_SendUpdate's and the vehicles' steps *)

(* The answer that is counted is the round's only one of its vehicle. *)
LEMMA CountsFresh ==
  ASSUME IsEdge, IInv, FreshInv, NEW v \in Vehicles, SendUpdateCounts(v)
  PROVE  FreshInv'
<1> DEFINE final == request[v].state \in FinalState
<1>1. v \notin repliedCars /\ v \notin Completed /\ RoundOpen /\ vPc[v] = "sending"
  BY CountedOnce DEF SendUpdateCounts
<1>2. /\ handler' = [handler EXCEPT ![v] = "counted"] /\ handler[v] = "received"
      /\ pending' = Append(pending, request[v]) /\ repliedCars' = repliedCars \union {v}
      /\ UNCHANGED <<simPc, simTick, proxy, request, vPc, pong, vTick, reportedDone>>
  BY DEF SendUpdateCounts, simVars, vehicleVars
<1>3. handler \in [Vehicles -> HandlerState] /\ request[v] \in Update
  BY DEF IInv, TypeOK
<1>4. Completed' = IF final THEN Completed \union {v} ELSE Completed
  BY <1>1, <1>2, <1>3 DEF Completed
<1>5. simPc \in {"answered", "get"}
  BY <1>1 DEF RoundOpen
<1>6. /\ Len(pending') = Len(pending) + 1
      /\ pending'[Len(pending) + 1] = request[v]
      /\ \A i \in 1 .. Len(pending) : pending'[i] = pending[i]
  BY <1>2, <1>3, PendingFacts, AppendProperties DEF IInv
<1>7. DOMAIN pending = 1 .. Len(pending) /\ DOMAIN pending' = 1 .. Len(pending) + 1
  <2>1. pending' \in Seq(Update)
    BY <1>2, <1>3, PendingFacts, AppendProperties DEF IInv
  <2> QED BY <1>6, <2>1, PendingFacts, LenProperties DEF IInv
<1>8. FirstInv'
  BY <1>1, <1>2 DEF FreshInv, FirstInv
<1>9. AnsweredInv' /\ ProxyInv'
  BY <1>2, <1>5 DEF AnsweredInv, ProxyInv
<1>10. AnswerInv'
  BY <1>2, <1>3, <1>4 DEF FreshInv, AnswerInv, AnswerOf
<1>11. LengthInv'
  <2>1. Cardinality(repliedCars \union {v}) = Cardinality(repliedCars) + 1
    <3>1. repliedCars \in SUBSET Vehicles
      BY PendingFacts DEF IInv
    <3> QED BY <1>1, <3>1, FiniteParts, FS_AddElement
  <2>2. Len(pending) <= Cardinality(repliedCars) + (IF simTick = 2 THEN N ELSE 0)
    BY <1>5 DEF FreshInv, LengthInv, Collecting
  <2>3. Len(pending) \in Nat /\ Cardinality(repliedCars) \in Nat /\ N \in Nat
    BY PendingFacts DEF IInv
  <2>4. Len(pending') <= Cardinality(repliedCars') + (IF simTick = 2 THEN N ELSE 0)
    BY <1>2, <1>6, <2>1, <2>2, <2>3
  <2> QED BY <1>2, <1>5, <2>4 DEF LengthInv
<1>12. MailboxInv'
  <2> SUFFICES ASSUME simTick \in 3 .. LastTick - 1 PROVE MailboxOfRound'
    BY <1>2, LastTickInt DEF MailboxInv, LastTick
  <2> DEFINE n == Len(pending)
  <2>1. n \in Nat
    BY PendingFacts DEF IInv
  <2>2. MailboxOfRound
    BY <1>5 DEF FreshInv, MailboxInv, Collecting
  <2>3. /\ request[v].v = v /\ request[v].tick = simTick
        /\ request[v].state \in FinalState \union {"TICK_OK"}
    BY <1>1, <1>2, LastTickInt DEF FreshInv, AnswerInv, AnswerOf
  <2>4. /\ \A i \in 1 .. n : pending[i].v \in repliedCars /\ pending[i].tick = simTick
        /\ \A i, j \in 1 .. n : pending[i].v = pending[j].v => i = j
        /\ \A w \in repliedCars \ Completed :
             \E i \in 1 .. n : pending[i].v = w /\ pending[i].state = "TICK_OK"
    BY <1>7, <2>2 DEF MailboxOfRound
  <2>5. \A i \in 1 .. n : pending'[i].v # v
    BY <1>1, <1>6, <2>4
  <2>6. \A i \in 1 .. n + 1 : i = n + 1 \/ i \in 1 .. n
    BY <2>1
  <2>7. \A i \in DOMAIN pending' : pending'[i].v \in repliedCars' /\ pending'[i].tick = simTick
    BY <1>2, <1>6, <1>7, <2>3, <2>4, <2>6
  <2>8. \A i, j \in DOMAIN pending' : pending'[i].v = pending'[j].v => i = j
    BY <1>6, <1>7, <2>3, <2>4, <2>5, <2>6
  <2>9. ASSUME NEW w \in repliedCars' \ Completed'
        PROVE  \E i \in DOMAIN pending' : pending'[i].v = w /\ pending'[i].state = "TICK_OK"
    <3>1. CASE w = v
      <4>1. request[v].state = "TICK_OK"
        BY <1>4, <2>3, <3>1
      <4> QED BY <1>6, <1>7, <2>1, <2>3, <3>1, <4>1
    <3>2. CASE w # v
      <4>1. w \in repliedCars \ Completed
        BY <1>2, <1>4, <3>2
      <4>2. PICK i \in 1 .. n : pending[i].v = w /\ pending[i].state = "TICK_OK"
        BY <2>4, <4>1
      <4> QED BY <1>6, <1>7, <2>1, <4>2
    <3> QED BY <3>1, <3>2
  <2> QED BY <1>2, <2>7, <2>8, <2>9 DEF MailboxOfRound
<1> QED BY <1>8, <1>9, <1>10, <1>11, <1>12 DEF FreshInv

LEMMA HandlerFresh ==
  ASSUME IInv, FreshInv, NEW v \in Vehicles,
         \/ SendUpdateLoadsReplied(v) \/ SendUpdateFindsComplete(v) \/ SendUpdateFindsOpen(v)
         \/ SendUpdateRelays(v)
  PROVE  FreshInv'
<1>1. UNCHANGED <<simPc, simTick, proxy, repliedCars, pending, request, vPc, pong, vTick,
                  reportedDone>>
  BY DEF SendUpdateLoadsReplied, SendUpdateFindsComplete, SendUpdateFindsOpen, SendUpdateRelays,
         simVars, serverVars, countVars, vehicleVars
<1>2. handler \in [Vehicles -> HandlerState]
  BY DEF IInv, TypeOK
<1>3. /\ handler[v] \in {"counted", "loaded", "pushing"}
      /\ handler'[v] \in {"loaded", "pushing", "finished"}
      /\ \A w \in Vehicles \ {v} : handler'[w] = handler[w]
  BY <1>2 DEF SendUpdateLoadsReplied, SendUpdateFindsComplete, SendUpdateFindsOpen,
              SendUpdateRelays
<1>4. Completed' = Completed
  BY <1>1, <1>3 DEF Completed
<1>5. FirstInv' /\ AnswerInv'
  BY <1>1, <1>3, <1>4 DEF FreshInv, FirstInv, AnswerInv, AnswerOf
<1> QED BY <1>1, <1>4, <1>5, MailboxFrame DEF FreshInv, IInv

LEMMA VehicleFresh ==
  ASSUME IInv, FreshInv, NEW v \in Vehicles, Vehicle(v)
  PROVE  FreshInv'
<1>1. /\ UNCHANGED <<simPc, simTick, proxy, repliedCars, pending>>
      /\ Completed' = Completed
  BY VehicleKeeps DEF simVars, serverVars, countVars
<1>2. AnsweredInv' /\ LengthInv' /\ MailboxInv' /\ ProxyInv'
  BY <1>1, MailboxFrame DEF IInv
<1>3. /\ handler \in [Vehicles -> HandlerState] /\ vPc \in [Vehicles -> VehiclePc]
      /\ request \in [Vehicles -> Update] /\ pong \in [Vehicles -> Tick]
      /\ vQ \in [Vehicles -> Tick] /\ vTick \in [Vehicles -> Int]
      /\ reportedDone \in [Vehicles -> BOOLEAN]
  BY DEF IInv, TypeOK
<1>4. CASE VehicleFirstGet(v)
  <2>1. FirstInv'
    BY <1>1, <1>3, <1>4 DEF VehicleFirstGet, FreshInv, FirstInv
  <2>2. simTick <= 1 /\ simTick \in Nat
    BY <1>4, PendingFacts DEF VehicleFirstGet, FreshInv, FirstInv, IInv
  <2>3. AnswerInv'
    BY <1>1, <2>2 DEF AnswerInv
  <2> QED BY <1>2, <2>1, <2>3 DEF FreshInv
<1>5. CASE VehicleStepsAndSends(v)
  <2> USE DEF VehicleStepsAndSends, StepsToAnswer
  <2>1. FirstInv'
    BY <1>1, <1>3, <1>5 DEF FreshInv, FirstInv
  <2>2. ASSUME simTick >= 2, NEW w \in Vehicles \ Completed PROVE AnswerOf(w)'
    <3>1. AnswerOf(w)
      BY <2>2 DEF FreshInv, AnswerInv
    <3>2. CASE w = v
      <4>1. vTick[v] = simTick /\ pong[v].cmd \in {"TICK", "REQUEST_DEBUG_INFO"}
        BY <1>5, <3>1, <3>2 DEF AnswerOf
      <4>2. PICK o \in Outcome(pong[v].cmd) :
              request' = [request EXCEPT ![v] =
                            [v |-> v, tick |-> vTick[v], state |-> o[1], dur |-> o[2]]]
        BY <1>5
      <4>3. o[1] \in FinalState \union {"TICK_OK"}
        BY <4>1 DEF Outcome, FinalState
      <4>4. vPc'[v] = "sending"
        BY <1>3, <1>5
      <4> QED BY <1>1, <1>3, <3>2, <4>1, <4>2, <4>3, <4>4 DEF AnswerOf
    <3>3. CASE w # v
      BY <1>1, <1>3, <1>5, <3>1, <3>3 DEF AnswerOf
    <3> QED BY <3>2, <3>3
  <2>3. AnswerInv'
    BY <1>1, <2>2 DEF AnswerInv
  <2> QED BY <1>2, <2>1, <2>3 DEF FreshInv
<1>6. CASE VehicleGet(v)
  <2> USE DEF VehicleGet
  <2>1. FirstInv'
    BY <1>1, <1>3, <1>6 DEF FreshInv, FirstInv
  <2>2. ASSUME simTick >= 2, NEW w \in Vehicles \ Completed PROVE AnswerOf(w)'
    <3>1. AnswerOf(w) /\ handler'[w] = handler[w] /\ request'[w] = request[w]
      BY <1>6, <2>2 DEF FreshInv, AnswerInv, handlerVars
    <3>2. CASE w = v /\ vPc'[v] = "step"
      <4>1. vQ[v].cmd # "END" /\ vQ[v] # NoTick
        BY <1>3, <1>6, <3>2
      <4>2. vQ[v].id = simTick
        BY <3>2, <4>1 DEF IInv, ProtocolInv, WorkInv
      <4>3. vTick'[v] = simTick
        BY <1>3, <1>6, <4>2
      <4>4. vQ[v] \in Tick /\ vQ[v].cmd \in Command
        BY <1>3 DEF Tick
      <4>5. pong'[v] = IF vQ[v].cmd = "PULL_WAYPOINTS_AND_TICK" THEN [vQ[v] EXCEPT !.cmd = "TICK"]
                       ELSE vQ[v]
        BY <1>3, <1>6
      <4>6. pong'[v].cmd \in {"TICK", "REQUEST_DEBUG_INFO"}
        BY <4>1, <4>4, <4>5 DEF Tick, Command
      <4> QED BY <1>1, <3>1, <3>2, <4>3, <4>6 DEF AnswerOf
    <3>3. CASE w = v /\ vPc'[v] # "step"
      BY <1>1, <3>1, <3>3 DEF AnswerOf
    <3>4. CASE w # v
      BY <1>1, <1>3, <1>6, <3>1, <3>4 DEF AnswerOf
    <3> QED BY <3>2, <3>3, <3>4
  <2>3. AnswerInv'
    BY <1>1, <2>2 DEF AnswerInv
  <2> QED BY <1>2, <2>1, <2>3 DEF FreshInv
<1>7. CASE VehicleStepsDone(v) \/ VehicleSent(v) \/ VehicleCallFails(v)
  <2>1. /\ UNCHANGED <<request, pong, vTick>>
        /\ vPc[v] \in {"step", "sending"} /\ vPc'[v] \in {"get", "exited", "crashed"}
        /\ handler'[v] # "received" \/ handler'[v] = handler[v]
        /\ \A w \in Vehicles \ {v} : /\ vPc'[w] = vPc[w] /\ handler'[w] = handler[w]
                                     /\ reportedDone'[w] = reportedDone[w]
    BY <1>3, <1>7 DEF VehicleStepsDone, VehicleSent, VehicleCallFails, handlerVars
  <2>2. FirstInv'
    BY <1>1, <2>1 DEF FreshInv, FirstInv
  <2>3. AnswerInv'
    BY <1>1, <2>1 DEF FreshInv, AnswerInv, AnswerOf
  <2> QED BY <1>2, <2>2, <2>3 DEF FreshInv
<1> QED BY <1>4, <1>5, <1>6, <1>7 DEF Vehicle
-----------------------------------------------------------------------------
LEMMA FreshNext ==
  ASSUME IsEdge, TwoTicksFit, IInv, FreshInv, Undisturbed', [Next]_vars PROVE FreshInv'
<1>1. CASE Sim
  <2>1. CASE SimCallFails
    BY <2>1 DEF SimCallFails, IInv, ProtocolInv, ServerInv
  <2> QED
    BY <1>1, <2>1, BroadcastFresh, ReturnsFresh, UnpackUpdatesFresh, UnpackDebugFresh,
       ClosingFresh DEF Sim
<1>2. CASE Server
  <2>1. CASE Server_DoTickAborts
    BY <2>1 DEF Server_DoTickAborts, InSequence, IInv, ProtocolInv, ServerInv
  <2> QED BY <1>2, <2>1, DoTickFresh, ClosingFresh, PushesFresh DEF Server
<1>3. CASE Resend
  BY <1>3, NothingRepeated DEF IInv
<1>4. ASSUME NEW v \in Vehicles, Handler(v) PROVE FreshInv'
  BY <1>4, CountsFresh, HandlerFresh DEF Handler
<1>5. ASSUME NEW v \in Vehicles, PushThread(v) PROVE FreshInv'
  BY <1>5, PushesFresh DEF PushThread
<1>6. ASSUME NEW v \in Vehicles, Vehicle(v) PROVE FreshInv'
  BY <1>6, VehicleFresh
<1>7. CASE UNCHANGED vars
  <2>1. UNCHANGED <<simPc, simTick, proxy, repliedCars, pending, handler, request, vPc, pong,
                    vTick, reportedDone>>
    BY <1>7 DEF vars, simVars, serverVars, countVars, handlerVars, vehicleVars
  <2>2. Completed' = Completed
    BY <2>1, CompletedUnchanged
  <2> QED BY <2>1, <2>2, MailboxFrame, VehiclesFrame DEF FreshInv, IInv
<1> QED BY <1>1, <1>2, <1>3, <1>4, <1>5, <1>6, <1>7 DEF Next

(* From the third tick on the edge algorithm plans from the positions of   *)
(* the tick just executed: server_unpack_vehicle_updates never leaves an   *)
(* older transform in the proxy of a vehicle that takes part.              *)
THEOREM ProxiesFreshFromThirdHolds ==
  ASSUME TwoTicksFit PROVE Spec => []ProxiesFreshFromThird
<1>1. CASE IsEdge
  <2>1. Init => FreshInv
    BY FreshInit
  <2>2. /\ TypeOK /\ (Undisturbed => IInv) /\ (Undisturbed => FreshInv) /\ [Next]_vars
        => (Undisturbed => FreshInv)'
    <3> SUFFICES ASSUME TypeOK, Undisturbed => IInv, Undisturbed => FreshInv, [Next]_vars,
                        Undisturbed'
                 PROVE  FreshInv'
      OBVIOUS
    <3>1. Undisturbed
      BY NothingRepeated
    <3> QED BY <1>1, <3>1, FreshNext
  <2>3. (Undisturbed => FreshInv) => ProxiesFreshFromThird
    BY DEF FreshInv, ProxyInv, ProxiesFreshFromThird
  <2> QED BY <2>1, <2>2, <2>3, TypeCorrect, Inductive, PTL DEF Spec
<1>2. CASE ~IsEdge
  <2>1. ProxiesFreshFromThird
    BY <1>2 DEF ProxiesFreshFromThird
  <2> QED BY <2>1, PTL
<1> QED BY <1>1, <1>2
=============================================================================
