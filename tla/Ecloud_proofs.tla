--------------------------- MODULE Ecloud_proofs ---------------------------
(***************************************************************************)
(* The barrier of the eCloud tick protocol, for any number of vehicles,    *)
(* any scenario length, edge or not, DESTROY or CONTROL, any overlap of    *)
(* Client_SendUpdate handlers and pushes that arrive at any time: what     *)
(* holds as long as no round is found complete twice and gRPC delivers no  *)
(* call twice (Undisturbed), and what holds even then.                     *)
(***************************************************************************)
EXTENDS Ecloud, FiniteSetTheorems, SequenceTheorems, TLAPS
-----------------------------------------------------------------------------
(* The inductive invariant *)

ServerInv ==
  /\ tickId = IF simPc = "doTick" THEN simTick - 1 ELSE simTick
  /\ ~serverUp => simPc = "ended"

(* A call is open while its vehicle awaits it, is counted in an open round *)
(* only, and once; whoever pushes the release was counted in the round.    *)
(* (A call between its loads may be of an earlier round.)                  *)
CallInv ==
  \A v \in Vehicles :
    /\ handler[v] # "none" =>
         ~reportedDone[v] /\ (vPc[v] = "sending" \/ (vPc[v] = "crashed" /\ ~serverUp))
    /\ handler[v] \in {"received", "pushing"} => RoundOpen /\ vPc[v] = "sending"
    /\ handler[v] = "received" => v \notin repliedCars
    /\ handler[v] = "pushing" => v \in repliedCars

Pushed(v) == \E p \in pushes : p.to = v
Unanswered(v) ==
  RoundOpen /\ v \notin repliedCars /\ vPc[v] # "step" /\ handler[v] # "received"

(* A vehicle that takes part has at most one piece of work: the current    *)
(* tick, either on its way, or queued, or in execution.                    *)
WorkInv ==
  \A v \in Vehicles \ Completed :
    /\ \A p \in pushes : p.to = v =>
         p.tick.id = simTick /\ \A q \in pushes : q.to = v => q = p
    /\ Pushed(v) => Unanswered(v) /\ vQ[v] = NoTick
    /\ vQ[v] # NoTick =>
         \/ vQ[v].cmd = "END" /\ simPc \in {"ending", "ended"}
         \/ Unanswered(v) /\ vQ[v].id = simTick
    /\ vPc[v] = "step" => RoundOpen /\ v \notin repliedCars /\ pong[v].id = simTick

AllAnswered == Vehicles \subseteq repliedCars \union Completed

(* A round is found complete when everybody has answered, and its one      *)
(* release is pushed, then queued, then taken.                             *)
ReleaseInv ==
  /\ ~RoundOpen => release = "found"
  /\ RoundOpen /\ release = "found" => AllAnswered
  /\ simQ # NoTick => release = "found"
  /\ \A v \in Vehicles : handler[v] = "pushing" =>
       /\ release = "found" /\ simQ = NoTick
       /\ \A w \in Vehicles : handler[w] = "pushing" => w = v
  /\ simPc \in {"loop", "doTick", "unpack"} => simQ = NoTick
  /\ simPc = "unpack" => AllAnswered

(* In a round the counters never exceed the vehicles they stand for, nor   *)
(* does what a handler of the round has loaded.                            *)
CountInv ==
  /\ RoundOpen => numReplied <= Cardinality(repliedCars \ Completed)
  /\ numCompleted <= Cardinality(Completed)
  /\ \A v \in repliedCars : RoundOpen /\ handler[v] = "loaded" => replies[v] <= numReplied

ProtocolInv == ServerInv /\ CallInv /\ WorkInv /\ ReleaseInv /\ CountInv

(* The strengthening of LockStep that every step preserves. *)
IInv == TypeOK /\ ProtocolInv
-----------------------------------------------------------------------------
(* Types *)

LEMMA CommandOfType == ASSUME NEW t PROVE CommandOf(t) \in Command
BY DEF CommandOf, Command

LEMMA MkTickType ==
  ASSUME NEW id \in Int, NEW cmd \in Command, NEW dur \in Nat
  PROVE  /\ MkTick(id, cmd, dur) \in Tick
         /\ MkTick(id, cmd, dur).id = id
         /\ MkTick(id, cmd, dur).cmd = cmd
BY DEF MkTick, Tick

LEMMA NoTickType == NoTick \in Tick
BY DEF NoTick, Tick, Command

(* What a push leaves in a queue is what was there or the pushed tick. *)
LEMMA PushToVehicleType ==
  ASSUME TypeOK, NEW v \in Vehicles, NEW tick \in Tick, PushToVehicle(v, tick)
  PROVE  vQ' \in [Vehicles -> Tick] /\ vLast' \in [Vehicles -> Tick]
BY DEF TypeOK, PushToVehicle, Enqueue

LEMMA GetVehicleUpdatesType ==
  ASSUME TypeOK, GetVehicleUpdates
  PROVE  pending' \in Seq(Update) /\ numReplied' \in Nat
<1>1. Kept \in 0 .. Len(pending)
  BY ConstantsAssumption, LenProperties DEF TypeOK, Kept
<1>2. SubSeq(pending, 1, Kept) \in Seq(Update)
  BY <1>1, SubSeqProperties, LenProperties DEF TypeOK
<1> QED BY <1>2 DEF TypeOK, GetVehicleUpdates

LEMMA UnpackedProxyType ==
  ASSUME TypeOK, NEW v \in Vehicles
  PROVE  UnpackedProxy(v) \in Int
<1> DEFINE Mine(i) == i > Kept /\ pending[i].v = v /\ HasTransform(pending[i])
           Oldest(i) == Mine(i) /\ \A j \in DOMAIN pending : Mine(j) => i <= j
           chosen == CHOOSE i \in DOMAIN pending : Oldest(i)
<1>1. \A i \in DOMAIN pending : pending[i].tick \in Int
  <2>1. pending \in Seq(Update)
    BY DEF TypeOK
  <2>2. \A i \in DOMAIN pending : pending[i] \in Update
    BY <2>1, LenProperties
  <2> QED BY <2>2 DEF Update
<1>2. (\E i \in DOMAIN pending : Oldest(i)) => chosen \in DOMAIN pending
  OBVIOUS
<1>3. proxy[v] \in Int
  BY DEF TypeOK
<1>4. UnpackedProxy(v) = IF \E i \in DOMAIN pending : Oldest(i)
                         THEN pending[chosen].tick ELSE proxy[v]
  BY DEF UnpackedProxy
<1> HIDE DEF Oldest, chosen
<1> QED BY <1>1, <1>2, <1>3, <1>4

LEMMA OutcomeType ==
  ASSUME NEW cmd, NEW o \in Outcome(cmd)
  PROVE  o[1] \in VehicleState /\ o[2] \in Nat
BY ConstantsAssumption DEF Outcome, VehicleState

LEMMA TypeInit == Init => TypeOK
<1> SUFFICES ASSUME Init PROVE TypeOK
  OBVIOUS
<1>1. NoTick \in Tick /\ MkTick(-1, "TICK", 0) \in Tick
  BY NoTickType, MkTickType DEF Command
<1>2. pending \in Seq(Update) /\ numReplied \in Nat
  <2>1. Leftover \in Nat /\ Leftover <= N
    BY ConstantsAssumption DEF Leftover
  <2>2. \A i \in 1 .. Leftover : Registration(i-1) \in Update
    BY <2>1, ConstantsAssumption DEF Registration, Update, VehicleState, Vehicles
  <2>3. pending \in [1 .. Leftover -> Update]
    BY <2>2 DEF Init
  <2> QED BY <2>1, <2>3, SeqDef, ConstantsAssumption DEF Init
<1>3. request \in [Vehicles -> Update]
  BY DEF Init, Update, VehicleState
<1> QED
  BY <1>1, <1>2, <1>3, ConstantsAssumption
  DEF Init, TypeOK, SimState, HandlerState, VehiclePc, Command, LastTick, Vehicles, ReleaseState

LEMMA TypeNext == TypeOK /\ [Next]_vars => TypeOK'
<1> SUFFICES ASSUME TypeOK, [Next]_vars PROVE TypeOK'
  OBVIOUS
<1> USE ConstantsAssumption DEF history
<1>1. CASE SimBroadcast
  BY <1>1 DEF SimBroadcast, TypeOK, LastTick, SimState, serverVars, countVars, handlerVars,
              vehicleVars
<1>2. CASE SimDoTickReturns
  BY <1>2 DEF SimDoTickReturns, TypeOK, SimState, serverVars, countVars, handlerVars, vehicleVars
<1>3. CASE SimGet
  BY <1>3, NoTickType DEF SimGet, TypeOK, SimState, serverVars, countVars, handlerVars,
                          vehicleVars
<1>4. CASE SimUnpackUpdates
  <2>1. pending' \in Seq(Update) /\ numReplied' \in Nat
    BY <1>4, GetVehicleUpdatesType DEF SimUnpackUpdates
  <2>2. proxy' \in [Vehicles -> Int]
    BY <1>4, UnpackedProxyType DEF SimUnpackUpdates
  <2> QED
    BY <1>4, <2>1, <2>2 DEF SimUnpackUpdates, TypeOK, SimState, handlerVars, vehicleVars
<1>5. CASE SimUnpackDebug
  <2>1. pending' \in Seq(Update) /\ numReplied' \in Nat
    BY <1>5, GetVehicleUpdatesType DEF SimUnpackDebug
  <2> QED
    BY <1>5, <2>1 DEF SimUnpackDebug, TypeOK, SimState, handlerVars, vehicleVars
<1>6. CASE SimCallFails
  BY <1>6 DEF SimCallFails, TypeOK, SimState, serverVars, countVars, handlerVars, vehicleVars
<1>7. CASE SimEnds
  BY <1>7 DEF SimEnds, TypeOK, SimState, countVars, handlerVars, vehicleVars
<1>8. CASE Server_DoTick
  <2>1. Ping \in Tick /\ CommandOf(simTick) \in Command
    <3>1. simTick \in Int
      BY DEF TypeOK, LastTick
    <3> QED BY <3>1, CommandOfType, MkTickType DEF Ping
  <2>2. pushes' \subseteq [to : Vehicles, tick : Tick]
    BY <1>8, <2>1 DEF Server_DoTick, TypeOK
  <2> QED
    BY <1>8, <2>1, <2>2 DEF Server_DoTick, TypeOK, SimState, ReleaseState, handlerVars, vehicleVars
<1>9. CASE Server_DoTickAborts
  BY <1>9 DEF Server_DoTickAborts, TypeOK, simVars, handlerVars, vehicleVars
<1>10. CASE Server_EndScenario
  BY <1>10 DEF Server_EndScenario, TypeOK, SimState, Command, countVars, handlerVars, vehicleVars
<1>11. CASE EndScenarioPushes
  <2>1. endNext \in Vehicles
    BY <1>11 DEF EndScenarioPushes, NumClients, TypeOK, Vehicles
  <2>2. EndPing \in Tick
    BY MkTickType DEF Command, EndPing
  <2>3. vQ' \in [Vehicles -> Tick] /\ vLast' \in [Vehicles -> Tick]
    BY <1>11, <2>1, <2>2, PushToVehicleType DEF EndScenarioPushes
  <2>4. endNext' \in 0 .. N
    BY <1>11, <2>1, ConstantsAssumption DEF EndScenarioPushes, Vehicles
  <2> QED
    BY <1>11, <2>3, <2>4 DEF EndScenarioPushes, TypeOK, simVars, countVars, handlerVars
<1>12. CASE SimResend
  BY <1>12 DEF SimResend, TypeOK, SimState, serverVars, countVars, handlerVars, vehicleVars
<1>13. ASSUME NEW v \in Vehicles PROVE SendUpdateCounts(v) => TypeOK'
  <2> SUFFICES ASSUME SendUpdateCounts(v) PROVE TypeOK'
    OBVIOUS
  <2>1. request[v] \in Update /\ request[v].state \in VehicleState
    BY DEF TypeOK, Update
  <2>2. pending' \in Seq(Update)
    BY <2>1, AppendProperties DEF SendUpdateCounts, TypeOK
  <2>3. numReplied' \in Nat /\ numCompleted' \in Nat
    BY DEF SendUpdateCounts, TypeOK
  <2> QED
    BY <2>2, <2>3 DEF SendUpdateCounts, TypeOK, HandlerState, simVars, vehicleVars
<1>14. ASSUME NEW v \in Vehicles PROVE SendUpdateFindsComplete(v) => TypeOK'
  <2> SUFFICES ASSUME SendUpdateFindsComplete(v) PROVE TypeOK'
    OBVIOUS
  <2>1. MkTick(request[v].tick, command, request[v].dur) \in Tick
    BY MkTickType DEF TypeOK, Update
  <2>2. relay' \in [Vehicles -> Tick]
    BY <2>1 DEF SendUpdateFindsComplete, TypeOK
  <2> QED
    BY <2>2 DEF SendUpdateFindsComplete, TypeOK, HandlerState, ReleaseState, simVars, serverVars,
                countVars, vehicleVars
<1>25. ASSUME NEW v \in Vehicles
       PROVE  SendUpdateLoadsReplied(v) \/ SendUpdateFindsOpen(v) => TypeOK'
  <2>1. numReplied \in Nat /\ replies \in [Vehicles -> Nat] /\ handler \in [Vehicles -> HandlerState]
    BY DEF TypeOK
  <2>2. /\ SendUpdateLoadsReplied(v) => TypeOK'
    BY <2>1 DEF SendUpdateLoadsReplied, TypeOK, HandlerState, simVars, serverVars, countVars,
                vehicleVars
  <2>3. SendUpdateFindsOpen(v) => TypeOK'
    BY <2>1 DEF SendUpdateFindsOpen, TypeOK, HandlerState, simVars, serverVars, countVars,
                vehicleVars
  <2> QED BY <2>2, <2>3
<1>15. ASSUME NEW v \in Vehicles PROVE SendUpdateRelays(v) => TypeOK'
  BY DEF SendUpdateRelays, TypeOK, HandlerState, Enqueue, serverVars, countVars, vehicleVars
<1>16. ASSUME NEW p \in pushes PROVE PushTick(p) => TypeOK'
  <2> SUFFICES ASSUME PushTick(p) PROVE TypeOK'
    OBVIOUS
  <2>1. p.to \in Vehicles /\ p.tick \in Tick
    BY DEF TypeOK
  <2>2. vQ' \in [Vehicles -> Tick] /\ vLast' \in [Vehicles -> Tick]
    BY <2>1, PushToVehicleType DEF PushTick
  <2> QED
    BY <2>2 DEF PushTick, TypeOK, simVars, serverVars, countVars, handlerVars
<1>17. ASSUME NEW v \in Vehicles PROVE VehicleFirstGet(v) => TypeOK'
  BY NoTickType DEF VehicleFirstGet, TypeOK, VehiclePc, simVars, serverVars, countVars, handlerVars
<1>18. ASSUME NEW v \in Vehicles PROVE VehicleStepsAndSends(v) => TypeOK'
  <2> SUFFICES ASSUME VehicleStepsAndSends(v) PROVE TypeOK'
    OBVIOUS
  <2>1. PICK o \in Outcome(pong[v].cmd) :
          request' = [request EXCEPT ![v] =
                        [v |-> v, tick |-> vTick[v], state |-> o[1], dur |-> o[2]]]
    BY DEF VehicleStepsAndSends
  <2>2. [v |-> v, tick |-> vTick[v], state |-> o[1], dur |-> o[2]] \in Update
    BY OutcomeType DEF TypeOK, Update
  <2>3. request' \in [Vehicles -> Update]
    BY <2>1, <2>2 DEF TypeOK
  <2> QED
    BY <2>3 DEF VehicleStepsAndSends, TypeOK, HandlerState, VehiclePc, simVars, serverVars,
                countVars
<1>19. ASSUME NEW v \in Vehicles PROVE VehicleStepsDone(v) => TypeOK'
  BY DEF VehicleStepsDone, TypeOK, VehiclePc, simVars, serverVars, countVars, handlerVars
<1>20. ASSUME NEW v \in Vehicles PROVE VehicleSent(v) => TypeOK'
  BY DEF VehicleSent, TypeOK, VehiclePc, HandlerState, simVars, serverVars, countVars
<1>21. ASSUME NEW v \in Vehicles PROVE VehicleResend(v) => TypeOK'
  BY DEF VehicleResend, TypeOK, HandlerState, simVars, serverVars, countVars, vehicleVars
<1>22. ASSUME NEW v \in Vehicles PROVE VehicleCallFails(v) => TypeOK'
  BY DEF VehicleCallFails, TypeOK, VehiclePc, simVars, serverVars, countVars, handlerVars
<1>23. ASSUME NEW v \in Vehicles PROVE VehicleGet(v) => TypeOK'
  <2> SUFFICES ASSUME VehicleGet(v) PROVE TypeOK'
    OBVIOUS
  <2>1. vQ[v] \in Tick /\ [vQ[v] EXCEPT !.cmd = "TICK"] \in Tick /\ vQ[v].id \in Int
    BY DEF TypeOK, Tick, Command
  <2> QED
    BY <2>1, NoTickType DEF VehicleGet, TypeOK, VehiclePc, simVars, serverVars, countVars,
                            handlerVars
<1>24. CASE UNCHANGED vars
  BY <1>24 DEF vars, TypeOK, simVars, serverVars, countVars, handlerVars, vehicleVars
<1> QED
  BY <1>1, <1>2, <1>3, <1>4, <1>5, <1>6, <1>7, <1>8, <1>9, <1>10, <1>11, <1>12, <1>13, <1>14,
     <1>15, <1>16, <1>17, <1>18, <1>19, <1>20, <1>21, <1>22, <1>23, <1>24, <1>25
  DEF Next, Sim, Server, Resend, Handler, PushThread, Vehicle

(* Every variable keeps its type: in particular the counters stay natural  *)
(* numbers and Server_EndScenario's loop inside the vehicles.              *)
THEOREM TypeCorrect == Spec => []TypeOK
<1>1. Init => TypeOK
  BY TypeInit
<1>2. TypeOK /\ [Next]_vars => TypeOK'
  BY TypeNext
<1> QED BY <1>1, <1>2, PTL DEF Spec
-----------------------------------------------------------------------------
(* The inductive invariant is preserved *)

LEMMA CompletedUnchanged ==
  ASSUME UNCHANGED <<handler, request, reportedDone>> PROVE Completed' = Completed
BY DEF Completed

LEMMA FiniteVehicles == IsFiniteSet(Vehicles) /\ Cardinality(Vehicles) = N
<1>1. 0 \in Int /\ N-1 \in Int /\ 0 <= N-1 /\ (N-1) - 0 + 1 = N
  BY ConstantsAssumption
<1>2. /\ IsFiniteSet(0 .. N-1)
      /\ Cardinality(0 .. N-1) = IF 0 <= N-1 THEN (N-1) - 0 + 1 ELSE 0
  BY <1>1, FS_Interval
<1> QED BY <1>1, <1>2 DEF Vehicles

LEMMA FiniteParts ==
  ASSUME NEW S \in SUBSET Vehicles
  PROVE  IsFiniteSet(S) /\ Cardinality(S) \in Nat /\ Cardinality(S) <= N
BY FiniteVehicles, FS_Subset, FS_CardinalityType

(* Nothing that the counters count has changed. *)
LEMMA CountFrame ==
  ASSUME CountInv, RoundOpen' => RoundOpen,
         UNCHANGED <<countVars, handler, replies, request, reportedDone>>
  PROVE  CountInv'
BY CompletedUnchanged DEF CountInv, countVars

(* A complete count means that everybody has replied or is done. *)
LEMMA CountComplete ==
  ASSUME TypeOK, CountInv, RoundOpen, numReplied + numCompleted >= N
  PROVE  Vehicles \subseteq repliedCars \union Completed
<1> DEFINE R == repliedCars \ Completed
           C == Completed
<1>1. R \subseteq Vehicles /\ C \subseteq Vehicles /\ R \intersect C = {}
  BY DEF TypeOK, Completed
<1>2. /\ IsFiniteSet(R) /\ IsFiniteSet(C)
      /\ Cardinality(R) \in Nat /\ Cardinality(C) \in Nat
  BY <1>1, FiniteParts
<1>3. Cardinality(R \intersect C) = 0
  <2>1. R \intersect C = {}
    BY <1>1
  <2>2. Cardinality({}) = 0
    BY FS_EmptySet
  <2> HIDE DEF R, C
  <2> QED BY <2>1, <2>2
<1>4. Cardinality(R \union C) = Cardinality(R) + Cardinality(C)
  <2> HIDE DEF R, C
  <2>1. Cardinality(R \union C) = Cardinality(R) + Cardinality(C) - Cardinality(R \intersect C)
    BY <1>2, FS_Union
  <2> QED BY <1>2, <1>3, <2>1
<1>5. Cardinality(R \union C) >= N
  BY <1>2, <1>4, ConstantsAssumption DEF CountInv, TypeOK
<1>6. R \union C = Vehicles
  <2>1. R \union C \subseteq Vehicles
    BY <1>1
  <2>2. Cardinality(R \union C) <= N
    BY <2>1, FiniteParts
  <2>3. Cardinality(R \union C) \in Nat
    BY <2>1, FiniteParts
  <2>4. Cardinality(R \union C) = Cardinality(Vehicles)
    BY <1>5, <2>2, <2>3, FiniteVehicles, ConstantsAssumption
  <2> QED BY <2>1, <2>4, FiniteVehicles, FS_Subset
<1> QED BY <1>6

(* Outside an open round a vehicle that takes part has no work left, and   *)
(* no call is still to be counted or to push.                              *)
LEMMA NoWorkBetweenRounds ==
  ASSUME IInv, ~RoundOpen
  PROVE  /\ \A v \in Vehicles : handler[v] \notin {"received", "pushing"}
         /\ \A v \in Vehicles \ Completed :
              /\ ~Pushed(v) /\ vPc[v] # "step"
              /\ simPc \notin {"ending", "ended"} => vQ[v] = NoTick
BY DEF IInv, ProtocolInv, CallInv, WorkInv, Unanswered

(* The same once the round's release is queued at the simulation. *)
LEMMA NoWorkOnceReleased ==
  ASSUME IInv, RoundOpen, simQ # NoTick
  PROVE  /\ release = "found" /\ AllAnswered
         /\ \A v \in Vehicles : handler[v] \notin {"received", "pushing"}
         /\ \A v \in Vehicles \ Completed :
              v \in repliedCars /\ ~Pushed(v) /\ vPc[v] # "step" /\ vQ[v] = NoTick
<1>1. release = "found" /\ Vehicles \subseteq repliedCars \union Completed
  BY DEF IInv, ProtocolInv, ReleaseInv, AllAnswered
<1>2. ASSUME NEW v \in Vehicles PROVE handler[v] \notin {"received", "pushing"}
  <2>1. handler[v] # "pushing"
    BY DEF IInv, ProtocolInv, ReleaseInv
  <2>2. handler[v] # "received"
    BY <1>1 DEF IInv, ProtocolInv, CallInv, Completed
  <2> QED BY <2>1, <2>2
<1>3. ASSUME NEW v \in Vehicles \ Completed
      PROVE  v \in repliedCars /\ ~Pushed(v) /\ vPc[v] # "step" /\ vQ[v] = NoTick
  BY <1>1 DEF IInv, ProtocolInv, WorkInv, Unanswered, RoundOpen
<1> QED BY <1>1, <1>2, <1>3 DEF AllAnswered

LEMMA ProtocolInit == Init => ProtocolInv
<1> SUFFICES ASSUME Init PROVE ProtocolInv
  OBVIOUS
<1>1. Completed = {} /\ repliedCars = {}
  BY DEF Init, Completed
<1>2. CountInv
  BY <1>1, FS_EmptySet DEF Init, CountInv, RoundOpen
<1> QED
  BY <1>1, <1>2 DEF Init, ProtocolInv, ServerInv, CallInv, WorkInv, ReleaseInv, Pushed, RoundOpen

(* The simulation's steps *)

LEMMA SimBroadcastInv == ASSUME IInv, SimBroadcast PROVE ProtocolInv'
<1> USE DEF SimBroadcast, serverVars, countVars, handlerVars, vehicleVars, history, AllAnswered
<1>1. Completed' = Completed
  BY CompletedUnchanged
<1>2. ~RoundOpen /\ ~RoundOpen'
  BY DEF RoundOpen
<1>3. ServerInv'
  BY DEF IInv, ProtocolInv, ServerInv, TypeOK
<1>4. CallInv'
  BY <1>2 DEF IInv, ProtocolInv, CallInv
<1>5. WorkInv'
  BY <1>1, <1>2, NoWorkBetweenRounds DEF WorkInv, Pushed
<1>6. ReleaseInv'
  BY <1>1, <1>2 DEF IInv, ProtocolInv, ReleaseInv
<1>7. CountInv'
  BY CountFrame DEF IInv, ProtocolInv, RoundOpen
<1> QED BY <1>3, <1>4, <1>5, <1>6, <1>7 DEF ProtocolInv

(* The round closes: the simulation took its release, or failed on it. *)
LEMMA RoundCloses ==
  ASSUME IInv, RoundOpen, simQ # NoTick,
         simPc' \in {"loop", "unpack", "end"}, simPc' # "end" => simQ' = NoTick,
         UNCHANGED <<simTick, serverVars, handlerVars, pushes, vehicleVars, release>>
  PROVE  ProtocolInv'
<1> USE DEF serverVars, countVars, handlerVars, vehicleVars, AllAnswered
<1>1. Completed' = Completed
  BY CompletedUnchanged
<1>2. ~RoundOpen' /\ simPc' \notin {"doTick", "ending", "ended"}
  BY DEF RoundOpen
<1>3. ServerInv'
  BY <1>2 DEF IInv, ProtocolInv, ServerInv, RoundOpen
<1>4. CallInv'
  BY NoWorkOnceReleased DEF IInv, ProtocolInv, CallInv
<1>5. WorkInv'
  BY <1>1, NoWorkOnceReleased DEF WorkInv, Pushed
<1>6. ReleaseInv'
  BY <1>1, <1>2, NoWorkOnceReleased DEF IInv, ProtocolInv, ReleaseInv
<1>7. CountInv'
  BY CountFrame DEF IInv, ProtocolInv, RoundOpen
<1> QED BY <1>3, <1>4, <1>5, <1>6, <1>7 DEF ProtocolInv

LEMMA SimDoTickReturnsInv == ASSUME IInv, SimDoTickReturns PROVE ProtocolInv'
<1>1. CASE simQ # NoTick
  BY <1>1, RoundCloses DEF SimDoTickReturns, RoundOpen, history
<1>2. CASE simQ = NoTick
  <2> USE <1>2 DEF SimDoTickReturns, serverVars, countVars, handlerVars, vehicleVars, history,
                   AllAnswered
  <2>1. Completed' = Completed
    BY CompletedUnchanged
  <2>2. RoundOpen /\ RoundOpen'
    BY DEF RoundOpen
  <2>3. ServerInv'
    BY DEF IInv, ProtocolInv, ServerInv
  <2>4. CallInv'
    BY <2>2 DEF IInv, ProtocolInv, CallInv
  <2>5. WorkInv'
    BY <2>1, <2>2 DEF IInv, ProtocolInv, WorkInv, Pushed, Unanswered
  <2>6. ReleaseInv'
    BY <2>1, <2>2 DEF IInv, ProtocolInv, ReleaseInv
  <2>7. CountInv'
    BY CountFrame DEF IInv, ProtocolInv, RoundOpen
  <2> QED BY <2>3, <2>4, <2>5, <2>6, <2>7 DEF ProtocolInv
<1> QED BY <1>1, <1>2

LEMMA SimGetInv == ASSUME IInv, SimGet PROVE ProtocolInv'
BY RoundCloses DEF SimGet, RoundOpen, history

LEMMA GetVehicleUpdatesInv ==
  ASSUME IInv, GetVehicleUpdates, simPc = "unpack", simPc' \in {"loop", "end", "unpack"},
         UNCHANGED <<simTick, simQ, serverUp, tickId, numCompleted, repliedCars, handlerVars,
                     pushes, vehicleVars, release>>
  PROVE  ProtocolInv'
<1> USE DEF handlerVars, vehicleVars, AllAnswered
<1>1. Completed' = Completed
  BY CompletedUnchanged
<1>2. ~RoundOpen /\ ~RoundOpen' /\ simPc' \notin {"doTick", "ending", "ended"}
  BY DEF RoundOpen
<1>3. ServerInv'
  BY <1>2 DEF IInv, ProtocolInv, ServerInv
<1>4. CallInv'
  BY <1>2 DEF IInv, ProtocolInv, CallInv
<1>5. WorkInv'
  BY <1>1, <1>2, NoWorkBetweenRounds DEF WorkInv, Pushed
<1>6. ReleaseInv'
  BY <1>1, <1>2 DEF IInv, ProtocolInv, ReleaseInv
<1>7. CountInv'
  <2>1. repliedCars \ Completed \in SUBSET Vehicles
    BY DEF IInv, TypeOK
  <2>2. Cardinality(repliedCars \ Completed) \in Nat
    BY <2>1, FiniteParts
  <2>3. numReplied' = 0 \/ numReplied' = numReplied
    BY DEF GetVehicleUpdates
  <2> QED BY <1>1, <1>2, <2>2, <2>3 DEF IInv, ProtocolInv, CountInv
<1> QED BY <1>3, <1>4, <1>5, <1>6, <1>7 DEF ProtocolInv

LEMMA SimUnpackUpdatesInv == ASSUME IInv, SimUnpackUpdates PROVE ProtocolInv'
BY GetVehicleUpdatesInv DEF SimUnpackUpdates, history

LEMMA SimUnpackDebugInv == ASSUME IInv, SimUnpackDebug PROVE ProtocolInv'
BY GetVehicleUpdatesInv DEF SimUnpackDebug, history

(* The simulation's last steps: no round is open any more. *)
LEMMA ScenarioCloses ==
  ASSUME IInv,
         \/ simPc = "end" /\ simPc' = "ending"
         \/ simPc = "ending" /\ simPc' = "ended",
         serverUp' = serverUp \/ simPc' = "ended",
         UNCHANGED <<simTick, simQ, tickId, countVars, handlerVars, pushes, vehicleVars, release>>
  PROVE  ProtocolInv'
<1> USE DEF countVars, handlerVars, vehicleVars, AllAnswered
<1>1. Completed' = Completed
  BY CompletedUnchanged
<1>2. ~RoundOpen /\ ~RoundOpen'
  BY DEF RoundOpen
<1>3. ServerInv'
  BY DEF IInv, ProtocolInv, ServerInv
<1>4. CallInv'
  BY <1>2 DEF IInv, ProtocolInv, CallInv, ServerInv
<1>5. WorkInv'
  <2>1. ASSUME NEW v \in Vehicles \ Completed
        PROVE  /\ ~Pushed(v) /\ vPc[v] # "step"
               /\ vQ[v] # NoTick => vQ[v].cmd = "END" /\ simPc' \in {"ending", "ended"}
    BY <1>2, NoWorkBetweenRounds DEF IInv, ProtocolInv, WorkInv, Unanswered
  <2> QED BY <1>1, <2>1 DEF WorkInv, Pushed
<1>6. ReleaseInv'
  BY <1>1, <1>2 DEF IInv, ProtocolInv, ReleaseInv
<1>7. CountInv'
  BY CountFrame DEF IInv, ProtocolInv, RoundOpen
<1> QED BY <1>3, <1>4, <1>5, <1>6, <1>7 DEF ProtocolInv

LEMMA SimEndsInv == ASSUME IInv, SimEnds PROVE ProtocolInv'
BY ScenarioCloses DEF SimEnds, history

LEMMA Server_EndScenarioInv == ASSUME IInv, Server_EndScenario PROVE ProtocolInv'
BY ScenarioCloses DEF Server_EndScenario, history

(* The server's steps *)

LEMMA Server_DoTickInv == ASSUME IInv, Server_DoTick PROVE ProtocolInv'
<1> USE DEF Server_DoTick, handlerVars, vehicleVars, AllAnswered
<1>1. Completed' = Completed
  BY CompletedUnchanged
<1>2. ~RoundOpen /\ RoundOpen'
  BY DEF RoundOpen
<1>3. \A v \in Vehicles : handler[v] \notin {"received", "pushing"}
  BY <1>2, NoWorkBetweenRounds
<1>4. ServerInv'
  BY DEF IInv, ProtocolInv, ServerInv, TypeOK
<1>5. CallInv'
  BY <1>3 DEF IInv, ProtocolInv, CallInv
<1>6. WorkInv'
  <2> SUFFICES ASSUME NEW v \in Vehicles \ Completed
               PROVE  /\ \A p \in pushes' : p.to = v =>
                           p.tick.id = simTick /\ \A q \in pushes' : q.to = v => q = p
                      /\ Unanswered(v)' /\ vQ[v] = NoTick /\ vPc[v] # "step"
    BY <1>1 DEF WorkInv
  <2>1. ~Pushed(v) /\ vPc[v] # "step" /\ vQ[v] = NoTick
    BY <1>2, NoWorkBetweenRounds
  <2>2. \A p \in pushes' : p.to = v =>
          p = [to |-> v, tick |-> Ping]
    BY <2>1 DEF Pushed
  <2>3. Ping.id = simTick
    BY DEF Ping, MkTick
  <2>4. Unanswered(v)'
    BY <1>2, <1>3, <2>1 DEF Unanswered
  <2> QED BY <2>1, <2>2, <2>3, <2>4
<1>7. ReleaseInv'
  <2>1. release' = "due" /\ simQ = NoTick
    BY <1>2 DEF IInv, ProtocolInv, ReleaseInv, RoundOpen
  <2> QED BY <1>2, <1>3, <2>1 DEF ReleaseInv, RoundOpen
<1>8. CountInv'
  <2>1. Cardinality({}) = 0
    BY FS_EmptySet
  <2>2. (repliedCars \ Completed)' = {}
    OBVIOUS
  <2> QED BY <1>1, <2>1, <2>2 DEF IInv, ProtocolInv, CountInv
<1> QED BY <1>4, <1>5, <1>6, <1>7, <1>8 DEF ProtocolInv

(* A push that reaches its vehicle is not in a thread any more. *)
LEMMA PushTickInv == ASSUME IInv, NEW p \in pushes, PushTick(p) PROVE ProtocolInv'
<1> USE DEF PushTick, simVars, serverVars, countVars, handlerVars, history, AllAnswered
<1>1. Completed' = Completed
  BY CompletedUnchanged
<1>2. ServerInv'
  BY DEF IInv, ProtocolInv, ServerInv
<1>3. CallInv'
  BY DEF IInv, ProtocolInv, CallInv, RoundOpen
<1>4. WorkInv'
  <2> SUFFICES ASSUME NEW v \in Vehicles \ Completed
               PROVE  /\ Pushed(v)' => Pushed(v) /\ vQ'[v] = NoTick
                      /\ vQ'[v] # NoTick =>
                           vQ'[v] = vQ[v] \/ (Unanswered(v) /\ vQ'[v].id = simTick)
    BY <1>1 DEF IInv, ProtocolInv, WorkInv, Pushed, Unanswered, RoundOpen
  <2>1. Pushed(v)' => Pushed(v) /\ p.to # v
    BY DEF IInv, ProtocolInv, WorkInv, Pushed
  <2>2. Pushed(v) => vQ[v] = NoTick
    BY DEF IInv, ProtocolInv, WorkInv
  <2>3. p.to # v => vQ'[v] = vQ[v]
    BY DEF PushToVehicle, IInv, TypeOK
  <2>4. p.to = v => Unanswered(v) /\ p.tick.id = simTick /\ vQ'[v] \in {vQ[v], p.tick}
    BY DEF PushToVehicle, Enqueue, IInv, ProtocolInv, TypeOK, WorkInv, Pushed
  <2> HIDE DEF PushTick
  <2> QED BY <2>1, <2>2, <2>3, <2>4
<1>5. ReleaseInv'
  BY <1>1 DEF IInv, ProtocolInv, ReleaseInv, RoundOpen
<1>6. CountInv'
  BY CountFrame DEF IInv, ProtocolInv, RoundOpen
<1> QED BY <1>2, <1>3, <1>4, <1>5, <1>6 DEF ProtocolInv

LEMMA EndScenarioPushesInv == ASSUME IInv, EndScenarioPushes PROVE ProtocolInv'
<1> USE DEF EndScenarioPushes, simVars, countVars, handlerVars, history, AllAnswered
<1>1. Completed' = Completed
  BY CompletedUnchanged
<1>2. ServerInv'
  BY DEF IInv, ProtocolInv, ServerInv
<1>3. CallInv'
  BY DEF IInv, ProtocolInv, CallInv, RoundOpen
<1>4. WorkInv'
  <2> SUFFICES ASSUME NEW v \in Vehicles \ Completed
               PROVE  vQ'[v] # NoTick => vQ'[v] = vQ[v] \/ vQ'[v].cmd = "END"
    BY <1>1, NoWorkBetweenRounds DEF IInv, ProtocolInv, WorkInv, Pushed, Unanswered, RoundOpen
  <2>1. vQ'[v] \in {vQ[v], EndPing}
    BY DEF PushToVehicle, Enqueue, IInv, TypeOK
  <2> QED BY <2>1 DEF EndPing, MkTick
<1>5. ReleaseInv'
  BY <1>1 DEF IInv, ProtocolInv, ReleaseInv, RoundOpen
<1>6. CountInv'
  BY CountFrame DEF IInv, ProtocolInv, RoundOpen
<1> QED BY <1>2, <1>3, <1>4, <1>5, <1>6 DEF ProtocolInv

(* Client_SendUpdate's steps *)

(* The answer being counted was not counted before. *)
LEMMA CountedOnce ==
  ASSUME IInv, NEW v \in Vehicles, handler[v] = "received"
  PROVE  v \notin repliedCars /\ v \notin Completed /\ RoundOpen /\ vPc[v] = "sending"
BY DEF IInv, ProtocolInv, CallInv, Completed

LEMMA SendUpdateCountsInv ==
  ASSUME IInv, NEW v \in Vehicles, SendUpdateCounts(v)
  PROVE  ProtocolInv'
<1> DEFINE final == request[v].state \in FinalState
           driving == request[v].state = "TICK_OK"
<1>1. v \notin repliedCars /\ v \notin Completed /\ RoundOpen /\ vPc[v] = "sending"
  BY CountedOnce DEF SendUpdateCounts
<1>2. handler' = [handler EXCEPT ![v] = "counted"] /\ handler[v] = "received"
  BY DEF SendUpdateCounts
<1>3. UNCHANGED <<simPc, simTick, simQ, serverUp, tickId, replies, request, pushes, vPc, vQ, pong,
                  reportedDone, release>>
  BY DEF SendUpdateCounts, simVars, vehicleVars, history
<1>4. repliedCars' = repliedCars \union {v}
  BY DEF SendUpdateCounts
<1>5. handler \in [Vehicles -> HandlerState]
  BY DEF IInv, TypeOK
<1>6. Completed' = IF final THEN Completed \union {v} ELSE Completed
  BY <1>1, <1>2, <1>3, <1>5 DEF Completed
<1>7. ServerInv'
  BY <1>3 DEF IInv, ProtocolInv, ServerInv
<1>8. CallInv'
  BY <1>1, <1>2, <1>3, <1>4, <1>5 DEF IInv, ProtocolInv, CallInv, RoundOpen
<1>9. WorkInv'
  <2> SUFFICES ASSUME NEW w \in Vehicles \ Completed
               PROVE  /\ Pushed(w) => Unanswered(w)'
                      /\ vQ[w] # NoTick =>
                           \/ vQ[w].cmd = "END" /\ simPc \in {"ending", "ended"}
                           \/ Unanswered(w)' /\ vQ[w].id = simTick
                      /\ vPc[w] = "step" => RoundOpen /\ w \notin repliedCars' /\ pong[w].id = simTick
    BY <1>3, <1>6 DEF IInv, ProtocolInv, WorkInv, Pushed, RoundOpen
  <2>1. Unanswered(w) => Unanswered(w)' /\ w # v
    BY <1>2, <1>3, <1>4, <1>5 DEF Unanswered, RoundOpen
  <2>2. vPc[w] = "step" => w # v
    BY <1>1
  <2> QED BY <1>4, <2>1, <2>2 DEF IInv, ProtocolInv, WorkInv
<1>10. ReleaseInv'
  <2>1. release # "found"
    BY <1>1 DEF IInv, ProtocolInv, ReleaseInv, AllAnswered
  <2>2. simQ = NoTick /\ \A w \in Vehicles : handler[w] # "pushing"
    BY <2>1 DEF IInv, ProtocolInv, ReleaseInv
  <2> QED BY <1>1, <1>2, <1>3, <1>5, <2>1, <2>2 DEF ReleaseInv, RoundOpen
<1>11. CountInv'
  <2> DEFINE R == repliedCars \ Completed
  <2>1. /\ IsFiniteSet(R) /\ Cardinality(R) \in Nat
        /\ IsFiniteSet(Completed) /\ Cardinality(Completed) \in Nat
    <3>1. R \in SUBSET Vehicles /\ Completed \in SUBSET Vehicles
      BY DEF IInv, TypeOK, Completed
    <3> QED BY <3>1, FiniteParts
  <2>2. Cardinality(R \union {v}) = Cardinality(R) + 1
    BY <1>1, <2>1, FS_AddElement
  <2>3. Cardinality(Completed \union {v}) = Cardinality(Completed) + 1
    BY <1>1, <2>1, FS_AddElement
  <2>4. (repliedCars \ Completed)' = IF final THEN R ELSE R \union {v}
    BY <1>1, <1>4, <1>6
  <2>5. /\ numReplied' = IF driving THEN numReplied + 1 ELSE numReplied
        /\ numCompleted' = IF final THEN numCompleted + 1 ELSE numCompleted
    BY DEF SendUpdateCounts, CountsReplied, CountsCompleted, IInv, TypeOK
  <2>6. driving => ~final
    BY DEF FinalState
  <2>7. /\ numReplied <= Cardinality(R) /\ numCompleted <= Cardinality(Completed)
        /\ numReplied \in Nat /\ numCompleted \in Nat
    BY <1>1 DEF IInv, TypeOK, ProtocolInv, CountInv
  <2>10. ASSUME NEW w \in repliedCars', RoundOpen', handler'[w] = "loaded"
         PROVE  replies'[w] <= numReplied'
    <3>1. w \in repliedCars /\ handler[w] = "loaded"
      BY <1>2, <1>4, <1>5, <2>10
    <3>2. replies'[w] = replies[w] /\ replies[w] \in Nat /\ replies[w] <= numReplied
      BY <1>1, <1>3, <3>1 DEF IInv, TypeOK, ProtocolInv, CountInv
    <3> QED BY <2>5, <2>7, <3>2
  <2> HIDE DEF R, final, driving
  <2>8. CASE final
    <3>1. Completed' = Completed \union {v} /\ (repliedCars \ Completed)' = R
      BY <1>6, <2>4, <2>8
    <3>2. numReplied' = numReplied /\ numCompleted' = numCompleted + 1
      BY <2>5, <2>6, <2>8
    <3>3. numReplied' <= Cardinality((repliedCars \ Completed)')
      BY <2>7, <3>1, <3>2
    <3>4. numCompleted' <= Cardinality(Completed')
      BY <2>1, <2>3, <2>7, <3>1, <3>2
    <3> QED BY <2>10, <3>3, <3>4 DEF CountInv
  <2>9. CASE ~final
    <3>1. Completed' = Completed /\ (repliedCars \ Completed)' = R \union {v}
      BY <1>6, <2>4, <2>9
    <3>2. numReplied' <= numReplied + 1 /\ numReplied' \in Nat /\ numCompleted' = numCompleted
      BY <2>5, <2>7, <2>9
    <3>3. numReplied' <= Cardinality((repliedCars \ Completed)')
      BY <2>1, <2>2, <2>7, <3>1, <3>2
    <3>4. numCompleted' <= Cardinality(Completed')
      BY <2>7, <3>1, <3>2
    <3> QED BY <2>10, <3>3, <3>4 DEF CountInv
  <2> QED BY <2>8, <2>9
<1> QED BY <1>7, <1>8, <1>9, <1>10, <1>11 DEF ProtocolInv

(* A call goes on from its second increment, or from its first load. *)
LEMMA CallGoesOn ==
  ASSUME IInv, NEW v \in Vehicles, handler[v] \in {"counted", "loaded", "pushing"},
         NEW pc \in {"loaded", "pushing", "finished"}, handler' = [handler EXCEPT ![v] = pc],
         pc = "pushing" => RoundOpen /\ v \in repliedCars /\ vPc[v] = "sending",
         UNCHANGED <<simPc, simTick, serverUp, tickId, countVars, request, pushes, vPc, vQ, pong,
                     reportedDone>>
  PROVE  /\ Completed' = Completed /\ (RoundOpen' <=> RoundOpen)
         /\ ServerInv' /\ CallInv' /\ WorkInv'
<1>1. handler \in [Vehicles -> HandlerState]
  BY DEF IInv, TypeOK
<1>2. Completed' = Completed
  BY <1>1 DEF Completed
<1>3. RoundOpen' <=> RoundOpen
  BY DEF RoundOpen
<1>4. ServerInv'
  BY DEF IInv, ProtocolInv, ServerInv
<1>5. CallInv'
  BY <1>1, <1>3 DEF IInv, ProtocolInv, CallInv, countVars
<1>6. WorkInv'
  <2>1. \A w \in Vehicles : Unanswered(w) => Unanswered(w)'
    BY <1>1, <1>3 DEF Unanswered, countVars
  <2> QED BY <1>2, <1>3, <2>1 DEF IInv, ProtocolInv, WorkInv, Pushed, countVars
<1> QED BY <1>2, <1>3, <1>4, <1>5, <1>6

LEMMA SendUpdateLoadsRepliedInv ==
  ASSUME IInv, NEW v \in Vehicles, SendUpdateLoadsReplied(v)
  PROVE  ProtocolInv'
<1> USE DEF SendUpdateLoadsReplied, simVars, serverVars, vehicleVars, history
<1>1. /\ Completed' = Completed /\ (RoundOpen' <=> RoundOpen)
      /\ ServerInv' /\ CallInv' /\ WorkInv'
  BY CallGoesOn
<1>2. /\ handler \in [Vehicles -> HandlerState] /\ replies \in [Vehicles -> Nat]
      /\ numReplied \in Nat
  BY DEF IInv, TypeOK
<1>3. ReleaseInv'
  <2>1. \A w \in Vehicles : handler'[w] = "pushing" => handler[w] = "pushing"
    BY <1>2
  <2> QED BY <1>1, <2>1 DEF IInv, ProtocolInv, ReleaseInv, countVars, AllAnswered
<1>4. CountInv'
  BY <1>1, <1>2 DEF IInv, ProtocolInv, CountInv, countVars
<1> QED BY <1>1, <1>3, <1>4 DEF ProtocolInv

(* The call that finds the round complete is the first one, and everybody  *)
(* has answered: what it loaded first is not more than what is counted.    *)
LEMMA FoundRight ==
  ASSUME IInv, Undisturbed', NEW v \in Vehicles, SendUpdateFindsComplete(v)
  PROVE  /\ release = "due" /\ v \in repliedCars /\ release' = "found"
         /\ RoundOpen /\ AllAnswered /\ vPc[v] = "sending"
<1>1. release = "due" /\ v \in repliedCars /\ release' = "found"
  BY DEF Undisturbed, ReleasedOnce, SendUpdateFindsComplete
<1>2. RoundOpen
  BY <1>1 DEF IInv, ProtocolInv, ReleaseInv
<1>3. replies[v] <= numReplied
  BY <1>1, <1>2 DEF IInv, ProtocolInv, CountInv, SendUpdateFindsComplete
<1>4. numReplied + numCompleted >= N
  <2>1. /\ replies[v] \in Nat /\ numReplied \in Nat /\ numCompleted \in Nat
    BY DEF IInv, TypeOK
  <2>2. replies[v] + numCompleted = N
    BY DEF SendUpdateFindsComplete, RoundComplete
  <2> QED BY <1>3, <2>1, <2>2, ConstantsAssumption
<1>5. AllAnswered
  BY <1>2, <1>4, CountComplete DEF IInv, ProtocolInv, AllAnswered
<1>6. vPc[v] = "sending"
  <2>1. simPc # "ended" /\ serverUp
    BY <1>2 DEF SendUpdateFindsComplete, RoundOpen
  <2>2. handler[v] = "loaded"
    BY DEF SendUpdateFindsComplete
  <2> QED BY <2>1, <2>2 DEF IInv, ProtocolInv, CallInv
<1> QED BY <1>1, <1>2, <1>5, <1>6

LEMMA SendUpdateFindsCompleteInv ==
  ASSUME IInv, Undisturbed', NEW v \in Vehicles, SendUpdateFindsComplete(v)
  PROVE  ProtocolInv'
<1>1. /\ release = "due" /\ v \in repliedCars /\ release' = "found"
      /\ RoundOpen /\ AllAnswered /\ vPc[v] = "sending"
  BY FoundRight
<1> USE DEF SendUpdateFindsComplete, simVars, serverVars, vehicleVars, history
<1>2. /\ Completed' = Completed /\ (RoundOpen' <=> RoundOpen)
      /\ ServerInv' /\ CallInv' /\ WorkInv'
  BY <1>1, CallGoesOn
<1>3. handler \in [Vehicles -> HandlerState] /\ replies \in [Vehicles -> Nat]
  BY DEF IInv, TypeOK
<1>4. ReleaseInv'
  <2>1. simQ = NoTick /\ \A w \in Vehicles : handler[w] # "pushing"
    BY <1>1 DEF IInv, ProtocolInv, ReleaseInv
  <2>2. \A w \in Vehicles : handler'[w] = "pushing" => w = v
    BY <1>3, <2>1
  <2>3. AllAnswered'
    BY <1>1, <1>2 DEF countVars, AllAnswered
  <2> QED BY <1>1, <1>2, <2>1, <2>2, <2>3 DEF ReleaseInv
<1>5. CountInv'
  BY <1>2, <1>3 DEF IInv, ProtocolInv, CountInv, countVars
<1> QED BY <1>2, <1>4, <1>5 DEF ProtocolInv

LEMMA SendUpdateFindsOpenInv ==
  ASSUME IInv, NEW v \in Vehicles, SendUpdateFindsOpen(v)
  PROVE  ProtocolInv'
<1> USE DEF SendUpdateFindsOpen, simVars, serverVars, vehicleVars, history
<1>1. /\ Completed' = Completed /\ (RoundOpen' <=> RoundOpen)
      /\ ServerInv' /\ CallInv' /\ WorkInv'
  BY CallGoesOn
<1>2. handler \in [Vehicles -> HandlerState] /\ replies \in [Vehicles -> Nat]
  BY DEF IInv, TypeOK
<1>3. ReleaseInv'
  <2>1. \A w \in Vehicles : handler'[w] = "pushing" => handler[w] = "pushing"
    BY <1>2
  <2> QED BY <1>1, <2>1 DEF IInv, ProtocolInv, ReleaseInv, countVars, AllAnswered
<1>4. CountInv'
  BY <1>1, <1>2 DEF IInv, ProtocolInv, CountInv, countVars
<1> QED BY <1>1, <1>3, <1>4 DEF ProtocolInv

LEMMA SendUpdateRelaysInv ==
  ASSUME IInv, NEW v \in Vehicles, SendUpdateRelays(v)
  PROVE  ProtocolInv'
<1>1. /\ handler[v] = "pushing" /\ handler' = [handler EXCEPT ![v] = "finished"]
      /\ UNCHANGED <<simPc, simTick, serverUp, tickId, countVars, replies, request, pushes, vPc,
                     vQ, pong, reportedDone, release>>
  BY DEF SendUpdateRelays, simVars, serverVars, vehicleVars, history
<1>2. /\ Completed' = Completed /\ (RoundOpen' <=> RoundOpen)
      /\ ServerInv' /\ CallInv' /\ WorkInv'
  BY <1>1, CallGoesOn
<1>3. handler \in [Vehicles -> HandlerState]
  BY DEF IInv, TypeOK
<1>4. RoundOpen /\ release = "found" /\ AllAnswered
  BY <1>1 DEF IInv, ProtocolInv, CallInv, ReleaseInv
<1>5. ReleaseInv'
  <2>1. \A w \in Vehicles : handler'[w] # "pushing"
    BY <1>1, <1>3 DEF IInv, ProtocolInv, ReleaseInv
  <2>2. AllAnswered'
    BY <1>1, <1>2, <1>4 DEF countVars, AllAnswered
  <2> QED BY <1>1, <1>2, <1>4, <2>1, <2>2 DEF ReleaseInv, RoundOpen
<1>6. CountInv'
  BY <1>1, <1>2, <1>3 DEF IInv, ProtocolInv, CountInv, countVars
<1> QED BY <1>2, <1>5, <1>6 DEF ProtocolInv

(* A vehicle's steps *)

(* A vehicle that takes a tick from its queue. *)
LEMMA VehicleTakesTick ==
  ASSUME IInv, NEW v \in Vehicles, vPc[v] \in {"firstGet", "get"}, vQ[v] # NoTick,
         vQ' = [vQ EXCEPT ![v] = NoTick],
         pong' \in [Vehicles -> Tick], pong'[v].id = vQ[v].id,
         \A w \in Vehicles \ {v} : pong'[w] = pong[w],
         NEW pc \in {"step", "exited", "crashed"}, vPc' = [vPc EXCEPT ![v] = pc],
         vQ[v].cmd = "END" => pc # "step",
         UNCHANGED <<simVars, serverVars, handlerVars, pushes, reportedDone, release>>
  PROVE  ProtocolInv'
<1> USE DEF simVars, serverVars, countVars, handlerVars, AllAnswered
<1>1. Completed' = Completed
  BY CompletedUnchanged
<1>2. RoundOpen' <=> RoundOpen
  BY DEF RoundOpen
<1>3. handler[v] = "none"
  BY DEF IInv, ProtocolInv, CallInv
<1>4. vPc \in [Vehicles -> VehiclePc] /\ vQ \in [Vehicles -> Tick]
  BY DEF IInv, TypeOK
<1>5. ServerInv'
  BY DEF IInv, ProtocolInv, ServerInv
<1>6. CallInv'
  BY <1>2, <1>3, <1>4 DEF IInv, ProtocolInv, CallInv
<1>7. WorkInv'
  <2>1. ASSUME NEW w \in Vehicles \ Completed, w # v
        PROVE  /\ vQ'[w] = vQ[w] /\ vPc'[w] = vPc[w] /\ pong'[w] = pong[w]
               /\ Unanswered(w)' <=> Unanswered(w)
    BY <1>2, <1>4, <2>1 DEF Unanswered
  <2>2. ASSUME v \notin Completed
        PROVE  /\ ~Pushed(v) /\ vQ'[v] = NoTick
               /\ vPc'[v] = "step" => RoundOpen /\ v \notin repliedCars /\ pong'[v].id = simTick
    BY <1>4, <2>2 DEF IInv, ProtocolInv, WorkInv, Unanswered
  <2> QED BY <1>1, <1>2, <2>1, <2>2 DEF IInv, ProtocolInv, WorkInv, Pushed
<1>8. ReleaseInv'
  BY <1>1, <1>2 DEF IInv, ProtocolInv, ReleaseInv
<1>9. CountInv'
  BY CountFrame DEF IInv, ProtocolInv, RoundOpen
<1> QED BY <1>5, <1>6, <1>7, <1>8, <1>9 DEF ProtocolInv

LEMMA VehicleFirstGetInv ==
  ASSUME IInv, NEW v \in Vehicles, VehicleFirstGet(v) PROVE ProtocolInv'
<1> DEFINE pc == IF vQ[v].cmd = "END" THEN "exited" ELSE "step"
<1>1. pong' \in [Vehicles -> Tick] /\ pong'[v] = vQ[v]
  BY DEF VehicleFirstGet, IInv, TypeOK
<1>2. \A w \in Vehicles \ {v} : pong'[w] = pong[w]
  BY DEF VehicleFirstGet, IInv, TypeOK
<1>3. pc \in {"step", "exited", "crashed"} /\ (vQ[v].cmd = "END" => pc # "step")
  OBVIOUS
<1>4. vPc' = [vPc EXCEPT ![v] = pc]
  BY DEF VehicleFirstGet
<1> HIDE DEF pc
<1> QED BY <1>1, <1>2, <1>3, <1>4, VehicleTakesTick DEF VehicleFirstGet, history

LEMMA VehicleGetInv ==
  ASSUME IInv, NEW v \in Vehicles, VehicleGet(v) PROVE ProtocolInv'
<1> DEFINE pc == IF vQ[v].id = vTick[v] THEN "crashed"
                 ELSE IF vQ[v].cmd = "END" THEN "exited" ELSE "step"
           tick == IF vQ[v].cmd = "PULL_WAYPOINTS_AND_TICK" THEN [vQ[v] EXCEPT !.cmd = "TICK"]
                   ELSE vQ[v]
<1>1. tick \in Tick /\ tick.id = vQ[v].id
  <2>1. vQ[v] \in Tick
    BY DEF IInv, TypeOK
  <2> QED BY <2>1 DEF Tick, Command
<1>2. pong' = [pong EXCEPT ![v] = tick] /\ pong \in [Vehicles -> Tick]
  BY DEF VehicleGet, IInv, TypeOK
<1>3. pc \in {"step", "exited", "crashed"} /\ (vQ[v].cmd = "END" => pc # "step")
  OBVIOUS
<1>4. vPc' = [vPc EXCEPT ![v] = pc]
  BY DEF VehicleGet
<1> HIDE DEF pc, tick
<1>5. /\ pong' \in [Vehicles -> Tick] /\ pong'[v].id = vQ[v].id
      /\ \A w \in Vehicles \ {v} : pong'[w] = pong[w]
  BY <1>1, <1>2
<1> QED BY <1>3, <1>4, <1>5, VehicleTakesTick DEF VehicleGet, history

LEMMA VehicleStepsAndSendsInv ==
  ASSUME IInv, NEW v \in Vehicles, VehicleStepsAndSends(v) PROVE ProtocolInv'
<1>1. /\ vPc[v] = "step" /\ ~reportedDone[v]
      /\ handler' = [handler EXCEPT ![v] = "received"]
      /\ vPc' = [vPc EXCEPT ![v] = "sending"]
      /\ UNCHANGED <<simPc, simTick, simQ, serverVars, replies, pushes, vQ, pong, reportedDone,
                     release>>
  BY DEF VehicleStepsAndSends, StepsToAnswer, simVars, history
<1>2. /\ handler \in [Vehicles -> HandlerState] /\ vPc \in [Vehicles -> VehiclePc]
      /\ request \in [Vehicles -> Update] /\ request' \in [Vehicles -> Update]
  BY TypeNext DEF IInv, TypeOK, VehicleStepsAndSends, Next, Vehicle
<1>3. \A w \in Vehicles \ {v} : request'[w] = request[w]
  BY <1>2 DEF VehicleStepsAndSends
<1>4. handler[v] = "none"
  BY <1>1 DEF IInv, ProtocolInv, CallInv
<1>5. v \notin Completed
  BY <1>1, <1>4 DEF Completed
<1>6. Completed' = Completed
  BY <1>1, <1>2, <1>3, <1>4 DEF Completed
<1>7. RoundOpen /\ v \notin repliedCars /\ RoundOpen'
  BY <1>1, <1>5 DEF IInv, ProtocolInv, WorkInv, RoundOpen
<1>8. ServerInv'
  BY <1>1 DEF IInv, ProtocolInv, ServerInv, serverVars
<1>9. CallInv'
  BY <1>1, <1>2, <1>7 DEF IInv, ProtocolInv, CallInv, serverVars, countVars
<1>10. WorkInv'
  <2>1. ~Pushed(v) /\ vQ[v] = NoTick
    BY <1>1, <1>5, <1>7 DEF IInv, ProtocolInv, WorkInv, Unanswered, RoundOpen
  <2>2. \A w \in Vehicles \ {v} : Unanswered(w) => Unanswered(w)'
    BY <1>1, <1>2, <1>7 DEF Unanswered, serverVars, countVars
  <2>3. \A w \in Vehicles : vPc'[w] = "step" => vPc[w] = "step" /\ w # v
    BY <1>1, <1>2
  <2> QED
    BY <1>1, <1>6, <1>7, <2>1, <2>2, <2>3
    DEF IInv, ProtocolInv, WorkInv, Pushed, serverVars, countVars
<1>11. ReleaseInv'
  BY <1>1, <1>2, <1>6, <1>7 DEF IInv, ProtocolInv, ReleaseInv, AllAnswered, serverVars, countVars
<1>12. CountInv'
  BY <1>1, <1>2, <1>6, <1>7 DEF IInv, ProtocolInv, CountInv, serverVars, countVars
<1> QED BY <1>8, <1>9, <1>10, <1>11, <1>12 DEF ProtocolInv

(* A vehicle stops executing or awaiting its call, without any new work. *)
LEMMA VehicleMovesOn ==
  ASSUME IInv, NEW v \in Vehicles,
         \/ vPc[v] = "step" /\ v \in Completed /\ handler' = handler
         \/ vPc[v] = "sending" /\ handler[v] = "finished" /\ handler' = [handler EXCEPT ![v] = "none"]
         \/ vPc[v] = "sending" /\ ~serverUp /\ handler' = handler,
         NEW pc \in {"get", "exited", "crashed"}, vPc' = [vPc EXCEPT ![v] = pc],
         handler'[v] # "none" => pc = "crashed",
         Completed' = Completed,
         \A w \in Vehicles : reportedDone'[w] => reportedDone[w] \/ handler'[w] = "none",
         UNCHANGED <<simVars, serverVars, replies, pushes, vQ, pong, release>>
  PROVE  ProtocolInv'
<1> USE DEF simVars, serverVars, countVars, AllAnswered
<1>1. /\ handler \in [Vehicles -> HandlerState] /\ vPc \in [Vehicles -> VehiclePc]
  BY DEF IInv, TypeOK
<1>2. RoundOpen' <=> RoundOpen
  BY DEF RoundOpen
<1>3. ServerInv'
  BY DEF IInv, ProtocolInv, ServerInv
<1>4. CallInv'
  <2>1. ~serverUp => ~RoundOpen
    BY DEF IInv, ProtocolInv, ServerInv, RoundOpen
  <2> QED BY <1>1, <1>2, <2>1 DEF IInv, ProtocolInv, CallInv
<1>5. WorkInv'
  <2>1. \A w \in Vehicles \ Completed : Unanswered(w) => Unanswered(w)'
    BY <1>1, <1>2 DEF Unanswered
  <2>2. \A w \in Vehicles : vPc'[w] = "step" => vPc[w] = "step"
    BY <1>1
  <2> QED BY <1>2, <2>1, <2>2 DEF IInv, ProtocolInv, WorkInv, Pushed
<1>6. ReleaseInv'
  BY <1>1, <1>2 DEF IInv, ProtocolInv, ReleaseInv
<1>7. CountInv'
  <2>1. \A w \in Vehicles : handler'[w] = "loaded" => handler[w] = "loaded"
    BY <1>1
  <2>2. repliedCars \subseteq Vehicles
    BY DEF IInv, TypeOK
  <2> QED BY <1>2, <2>1, <2>2 DEF IInv, ProtocolInv, CountInv
<1> QED BY <1>3, <1>4, <1>5, <1>6, <1>7 DEF ProtocolInv

LEMMA VehicleStepsDoneInv ==
  ASSUME IInv, NEW v \in Vehicles, VehicleStepsDone(v) PROVE ProtocolInv'
<1> DEFINE pc == IF ~Control THEN "exited" ELSE IF vQ[v] = NoTick THEN "get" ELSE "crashed"
<1>1. Completed' = Completed
  BY CompletedUnchanged DEF VehicleStepsDone, handlerVars
<1>2. v \in Completed /\ handler'[v] = "none"
  BY DEF VehicleStepsDone, handlerVars, Completed, IInv, ProtocolInv, CallInv
<1>3. pc \in {"get", "exited", "crashed"} /\ vPc' = [vPc EXCEPT ![v] = pc]
  BY DEF VehicleStepsDone
<1> HIDE DEF pc
<1> QED BY <1>1, <1>2, <1>3, VehicleMovesOn DEF VehicleStepsDone, handlerVars, history

LEMMA VehicleSentInv ==
  ASSUME IInv, NEW v \in Vehicles, VehicleSent(v) PROVE ProtocolInv'
<1> DEFINE pc == IF vQ[v] = NoTick THEN "get" ELSE "crashed"
<1>1. /\ handler \in [Vehicles -> HandlerState] /\ reportedDone \in [Vehicles -> BOOLEAN]
  BY DEF IInv, TypeOK
<1>2. /\ handler[v] = "finished" /\ handler' = [handler EXCEPT ![v] = "none"]
      /\ reportedDone' = [reportedDone EXCEPT ![v] = @ \/ request[v].state \in FinalState]
      /\ UNCHANGED request
  BY DEF VehicleSent
<1>3. Completed' = Completed
  BY <1>1, <1>2 DEF Completed
<1>4. \A w \in Vehicles : reportedDone'[w] => reportedDone[w] \/ handler'[w] = "none"
  BY <1>1, <1>2
<1>5. handler'[v] = "none"
  BY <1>1, <1>2
<1>6. pc \in {"get", "exited", "crashed"} /\ vPc' = [vPc EXCEPT ![v] = pc]
  BY DEF VehicleSent
<1> HIDE DEF pc
<1> QED BY <1>3, <1>4, <1>5, <1>6, VehicleMovesOn DEF VehicleSent, history

LEMMA VehicleCallFailsInv ==
  ASSUME IInv, NEW v \in Vehicles, VehicleCallFails(v) PROVE ProtocolInv'
<1>1. Completed' = Completed
  BY CompletedUnchanged DEF VehicleCallFails, handlerVars
<1> QED BY <1>1, VehicleMovesOn DEF VehicleCallFails, handlerVars, history

(* The theorems *)

LEMMA NothingRepeated ==
  ASSUME TypeOK, Undisturbed', [Next]_vars PROVE Undisturbed /\ ~Resend
<1>1. resends' = 0 /\ resends \in Nat
  BY ConstantsAssumption DEF Undisturbed, ReleasedOnce, TypeOK
<1>2. ~Resend
  BY <1>1 DEF Resend, SimResend, VehicleResend
<1>3. release = "stray" => release' = "stray"
  BY <1>2 DEF Next, Sim, Server, Handler, PushThread, Vehicle, SimBroadcast, SimDoTickReturns,
     SimGet, SimUnpackUpdates, SimUnpackDebug, SimCallFails, SimEnds, Server_DoTick,
     Server_DoTickAborts, Server_EndScenario, EndScenarioPushes, SendUpdateCounts,
     SendUpdateLoadsReplied, SendUpdateFindsComplete, SendUpdateFindsOpen, SendUpdateRelays,
     PushTick, VehicleFirstGet, VehicleStepsAndSends, VehicleStepsDone, VehicleSent,
     VehicleCallFails, VehicleGet, vars, history
<1>4. resends = 0
  BY <1>1, <1>2 DEF Next, Sim, Server, Handler, PushThread, Vehicle, SimBroadcast,
     SimDoTickReturns, SimGet, SimUnpackUpdates, SimUnpackDebug, SimCallFails, SimEnds,
     Server_DoTick, Server_DoTickAborts, Server_EndScenario, EndScenarioPushes, SendUpdateCounts,
     SendUpdateLoadsReplied, SendUpdateFindsComplete, SendUpdateFindsOpen, SendUpdateRelays,
     PushTick, VehicleFirstGet, VehicleStepsAndSends, VehicleStepsDone, VehicleSent,
     VehicleCallFails, VehicleGet, vars, history
<1> QED BY <1>2, <1>3, <1>4 DEF Undisturbed, ReleasedOnce

LEMMA ProtocolNext == ASSUME IInv, Undisturbed', [Next]_vars PROVE ProtocolInv'
<1>1. CASE Sim
  <2>1. CASE SimCallFails
    BY <2>1 DEF SimCallFails, IInv, ProtocolInv, ServerInv
  <2> QED
    BY <1>1, <2>1, SimBroadcastInv, SimDoTickReturnsInv, SimGetInv, SimUnpackUpdatesInv,
       SimUnpackDebugInv, SimEndsInv DEF Sim
<1>2. CASE Server
  <2>1. CASE Server_DoTickAborts
    BY <2>1 DEF Server_DoTickAborts, InSequence, IInv, ProtocolInv, ServerInv
  <2> QED
    BY <1>2, <2>1, Server_DoTickInv, Server_EndScenarioInv, EndScenarioPushesInv DEF Server
<1>3. CASE Resend
  BY <1>3, NothingRepeated DEF IInv
<1>4. ASSUME NEW v \in Vehicles, Handler(v) PROVE ProtocolInv'
  BY <1>4, SendUpdateCountsInv, SendUpdateLoadsRepliedInv, SendUpdateFindsCompleteInv,
     SendUpdateFindsOpenInv, SendUpdateRelaysInv DEF Handler
<1>5. ASSUME NEW v \in Vehicles, PushThread(v) PROVE ProtocolInv'
  BY <1>5, PushTickInv DEF PushThread
<1>6. ASSUME NEW v \in Vehicles, Vehicle(v) PROVE ProtocolInv'
  BY <1>6, VehicleFirstGetInv, VehicleGetInv, VehicleStepsAndSendsInv, VehicleStepsDoneInv,
     VehicleSentInv, VehicleCallFailsInv DEF Vehicle
<1>7. CASE UNCHANGED vars
  <2> USE <1>7 DEF vars, simVars, serverVars, countVars, handlerVars, vehicleVars, history
  <2>1. Completed' = Completed
    BY CompletedUnchanged
  <2>2. ServerInv' /\ CallInv'
    BY DEF IInv, ProtocolInv, ServerInv, CallInv, RoundOpen
  <2>3. WorkInv'
    BY <2>1 DEF IInv, ProtocolInv, WorkInv, Pushed, Unanswered, RoundOpen
  <2>4. ReleaseInv'
    BY <2>1 DEF IInv, ProtocolInv, ReleaseInv, AllAnswered, RoundOpen
  <2>5. CountInv'
    BY CountFrame DEF IInv, ProtocolInv, RoundOpen
  <2> QED BY <2>2, <2>3, <2>4, <2>5 DEF ProtocolInv
<1> QED BY <1>1, <1>2, <1>3, <1>4, <1>5, <1>6, <1>7 DEF Next

(* The inductive invariant: what is queued, in a thread, in execution and  *)
(* counted always adds up to one open round, until a round is found        *)
(* complete twice or a call is repeated.                                   *)
THEOREM Inductive == Spec => [](Undisturbed => IInv)
<1>1. Init => IInv
  BY TypeInit, ProtocolInit DEF IInv
<1>2. TypeOK /\ (Undisturbed => IInv) /\ [Next]_vars => (Undisturbed => IInv)'
  <2> SUFFICES ASSUME TypeOK, Undisturbed => IInv, [Next]_vars, Undisturbed' PROVE IInv'
    OBVIOUS
  <2>1. IInv
    BY NothingRepeated
  <2> QED BY <2>1, TypeNext, ProtocolNext DEF IInv
<1> QED BY <1>1, <1>2, TypeCorrect, PTL DEF Spec

(* The barrier of server_do_tick: between two rounds no vehicle that takes *)
(* part has anything left of the last tick.                                *)
THEOREM LockStepHolds == Spec => []LockStep
<1>1. (Undisturbed => IInv) => LockStep
  BY NoWorkBetweenRounds DEF LockStep, Busy, Pushed, RoundOpen
<1> QED BY <1>1, Inductive, PTL

(* No vehicle executes a tick that the simulation or the server has left   *)
(* behind, so vehiclesim.py never steps on an old world snapshot.          *)
THEOREM InStepHolds == Spec => []InStep
<1>1. (Undisturbed => IInv) => InStep
  BY DEF IInv, ProtocolInv, WorkInv, CallInv, ServerInv, InStep, Completed, RoundOpen
<1> QED BY <1>1, Inductive, PTL

(* Server_GetVehicleUpdates, which takes no lock, never runs while a       *)
(* Client_SendUpdate has still to append to the mailbox.                   *)
THEOREM MailboxQuietHolds == Spec => []MailboxQuiet
<1>1. (Undisturbed => IInv) => MailboxQuiet
  BY DEF IInv, ProtocolInv, CallInv, MailboxQuiet, RoundOpen
<1> QED BY <1>1, Inductive, PTL

(* "barrier sync means this is the same for ALL vehicles per tick": when   *)
(* the simulation fetches the updates, whoever takes part has answered.    *)
(* With a round released twice that fails, and it is all that makes it     *)
(* fail.                                                                   *)
THEOREM EveryoneAnsweredHolds == Spec => [](Undisturbed => EveryoneAnswered)
<1>1. (Undisturbed => IInv) => (Undisturbed => EveryoneAnswered)
  BY DEF IInv, ProtocolInv, ReleaseInv, AllAnswered, EveryoneAnswered
<1> QED BY <1>1, Inductive, PTL
-----------------------------------------------------------------------------
(* However handlers overlap, a server that nobody called twice is in       *)
(* sequence with the simulation.                                           *)
SequenceInv == resends = 0 => ServerInv

LEMMA SequenceNext == ASSUME TypeOK, SequenceInv, [Next]_vars PROVE SequenceInv'
<1>1. simTick \in Int /\ resends \in Nat
  BY ConstantsAssumption DEF TypeOK, LastTick
<1> USE <1>1 DEF SequenceInv, ServerInv, history
<1>2. CASE UNCHANGED vars
  BY <1>2 DEF vars, simVars, serverVars
<1>3. CASE Sim
  <2>1. SimBroadcast => SequenceInv'
    BY DEF SimBroadcast, serverVars
  <2>2. SimDoTickReturns \/ SimGet => SequenceInv'
    BY DEF SimDoTickReturns, SimGet, serverVars
  <2>3. SimUnpackUpdates \/ SimUnpackDebug => SequenceInv'
    BY DEF SimUnpackUpdates, SimUnpackDebug
  <2>4. SimCallFails \/ SimEnds => SequenceInv'
    BY DEF SimCallFails, SimEnds, serverVars
  <2> QED BY <1>3, <2>1, <2>2, <2>3, <2>4 DEF Sim
<1>4. CASE Server
  <2>1. Server_DoTick => SequenceInv'
    BY DEF Server_DoTick, InSequence
  <2>2. Server_DoTickAborts => SequenceInv'
    BY DEF Server_DoTickAborts, InSequence
  <2>3. Server_EndScenario \/ EndScenarioPushes => SequenceInv'
    BY DEF Server_EndScenario, EndScenarioPushes, simVars
  <2> QED BY <1>4, <2>1, <2>2, <2>3 DEF Server
<1>5. CASE Resend
  BY <1>5 DEF Resend, SimResend, VehicleResend
<1>6. ASSUME NEW v \in Vehicles, Handler(v) PROVE SequenceInv'
  BY <1>6 DEF Handler, SendUpdateCounts, SendUpdateLoadsReplied, SendUpdateFindsComplete,
              SendUpdateFindsOpen, SendUpdateRelays, simVars, serverVars
<1>7. ASSUME NEW v \in Vehicles, PushThread(v) PROVE SequenceInv'
  BY <1>7 DEF PushThread, PushTick, simVars, serverVars
<1>8. ASSUME NEW v \in Vehicles, Vehicle(v) PROVE SequenceInv'
  BY <1>8 DEF Vehicle, VehicleFirstGet, VehicleStepsAndSends, VehicleStepsDone, VehicleSent,
              VehicleCallFails, VehicleGet, simVars, serverVars
<1> QED BY <1>2, <1>3, <1>4, <1>5, <1>6, <1>7, <1>8 DEF Next

(* The assertion of Server_DoTick holds as long as no call is delivered    *)
(* twice, whatever the handlers and the rounds do otherwise.               *)
THEOREM AbortsOnlyIfRepeatedHolds == Spec => []AbortsOnlyIfRepeated
<1>1. Init => SequenceInv
  BY DEF Init, SequenceInv, ServerInv
<1>2. TypeOK /\ SequenceInv /\ [Next]_vars => SequenceInv'
  BY SequenceNext
<1>3. TypeOK /\ SequenceInv => AbortsOnlyIfRepeated
  BY ConstantsAssumption DEF TypeOK, SequenceInv, ServerInv, AbortsOnlyIfRepeated
<1> QED BY <1>1, <1>2, <1>3, TypeCorrect, PTL DEF Spec
-----------------------------------------------------------------------------
(* The protocol implements the barrier: Server_DoTick opens a round, a     *)
(* counted answer answers it or leaves, the simulation's get releases it.  *)

LEMMA BarrierInit == Init => Barrier!BInit
BY DEF Init, Barrier!BInit, RoundOpen, Awaited, Completed

LEMMA BarrierStutter ==
  ASSUME TypeOK, UNCHANGED <<tickId, repliedCars>>, RoundOpen' <=> RoundOpen,
         Completed' = Completed
  PROVE  UNCHANGED Barrier!bvars
BY DEF Barrier!bvars, Awaited, RoundOpen

LEMMA BarrierOpen == ASSUME IInv, Server_DoTick PROVE Barrier!Open
<1>1. Completed' = Completed
  BY CompletedUnchanged DEF Server_DoTick, handlerVars, vehicleVars
<1> QED BY <1>1 DEF Server_DoTick, Barrier!Open, RoundOpen, Awaited

LEMMA BarrierAnswer ==
  ASSUME IInv, NEW v \in Vehicles, SendUpdateCounts(v)
  PROVE  Barrier!Answer(v) \/ Barrier!Leave(v)
<1>1. v \notin repliedCars /\ v \notin Completed /\ RoundOpen
  BY CountedOnce DEF SendUpdateCounts
<1>2. /\ handler' = [handler EXCEPT ![v] = "counted"] /\ handler[v] = "received"
      /\ repliedCars' = repliedCars \union {v}
      /\ UNCHANGED <<simPc, tickId, request, reportedDone>>
  BY DEF SendUpdateCounts, simVars, vehicleVars
<1>3. handler \in [Vehicles -> HandlerState]
  BY DEF IInv, TypeOK
<1>4. RoundOpen'
  BY <1>1, <1>2 DEF RoundOpen
<1>5. CASE request[v].state \in FinalState
  <2>1. Completed' = Completed \union {v}
    BY <1>2, <1>3, <1>5 DEF Completed
  <2> QED BY <1>1, <1>2, <1>4, <2>1 DEF Barrier!Leave, Awaited
<1>6. CASE request[v].state \notin FinalState
  <2>1. Completed' = Completed
    BY <1>1, <1>2, <1>3, <1>6 DEF Completed
  <2> QED BY <1>1, <1>2, <1>4, <2>1 DEF Barrier!Answer, Awaited
<1> QED BY <1>5, <1>6

LEMMA BarrierRelease ==
  ASSUME IInv, RoundOpen, simQ # NoTick, ~RoundOpen',
         UNCHANGED <<tickId, handler, request, reportedDone>>
  PROVE  Barrier!Release
<1>1. Completed' = Completed
  BY CompletedUnchanged
<1>2. Awaited = {} /\ Awaited' = {}
  BY DEF IInv, ProtocolInv, ReleaseInv, AllAnswered, Awaited
<1> QED BY <1>1, <1>2 DEF Barrier!Release

LEMMA BarrierStep ==
  ASSUME IInv, Undisturbed', [Next]_vars
  PROVE  [Barrier!BNext]_(Barrier!bvars)
<1> DEFINE Same == UNCHANGED <<handler, request, reportedDone>>
<1>1. ASSUME Same, UNCHANGED <<tickId, repliedCars>>, RoundOpen' <=> RoundOpen
      PROVE  UNCHANGED Barrier!bvars
  BY <1>1, CompletedUnchanged, BarrierStutter DEF IInv
<1>2. CASE Sim
  <2>1. CASE SimDoTickReturns /\ simQ # NoTick
    BY <2>1, BarrierRelease DEF SimDoTickReturns, RoundOpen, Barrier!BNext, serverVars,
                                handlerVars, vehicleVars
  <2>2. CASE SimGet
    BY <2>2, BarrierRelease DEF SimGet, RoundOpen, Barrier!BNext, serverVars, handlerVars,
                                vehicleVars
  <2>3. CASE SimDoTickReturns /\ simQ = NoTick
    BY <1>1, <2>3 DEF SimDoTickReturns, RoundOpen, serverVars, countVars, handlerVars, vehicleVars
  <2>4. CASE SimBroadcast
    BY <1>1, <2>4 DEF SimBroadcast, RoundOpen, serverVars, countVars, handlerVars, vehicleVars
  <2>5. CASE SimUnpackUpdates
    BY <1>1, <2>5 DEF SimUnpackUpdates, RoundOpen, handlerVars, vehicleVars
  <2>6. CASE SimUnpackDebug
    BY <1>1, <2>6 DEF SimUnpackDebug, RoundOpen, handlerVars, vehicleVars
  <2>7. CASE SimEnds
    BY <1>1, <2>7 DEF SimEnds, RoundOpen, countVars, handlerVars, vehicleVars
  <2>8. CASE SimCallFails
    BY <2>8 DEF SimCallFails, IInv, ProtocolInv, ServerInv
  <2> QED BY <1>2, <2>1, <2>2, <2>3, <2>4, <2>5, <2>6, <2>7, <2>8 DEF Sim
<1>3. CASE Server
  <2>1. CASE Server_DoTick
    BY <2>1, BarrierOpen DEF Barrier!BNext
  <2>2. CASE Server_DoTickAborts
    BY <2>2 DEF Server_DoTickAborts, InSequence, IInv, ProtocolInv, ServerInv
  <2>3. CASE Server_EndScenario
    BY <1>1, <2>3 DEF Server_EndScenario, RoundOpen, countVars, handlerVars, vehicleVars
  <2>4. CASE EndScenarioPushes
    BY <1>1, <2>4 DEF EndScenarioPushes, RoundOpen, simVars, countVars, handlerVars
  <2> QED BY <1>3, <2>1, <2>2, <2>3, <2>4 DEF Server
<1>4. CASE Resend
  BY <1>4, NothingRepeated DEF IInv
<1>5. ASSUME NEW v \in Vehicles, Handler(v) PROVE [Barrier!BNext]_(Barrier!bvars)
  <2>1. CASE SendUpdateCounts(v)
    BY <2>1, BarrierAnswer DEF Barrier!BNext
  <2>2. ASSUME NEW pc \in {"loaded", "pushing", "finished"},
               handler[v] \in {"counted", "loaded", "pushing"},
               handler' = [handler EXCEPT ![v] = pc],
               UNCHANGED <<simPc, tickId, repliedCars, request, reportedDone>>
        PROVE  UNCHANGED Barrier!bvars
    <3>1. handler \in [Vehicles -> HandlerState]
      BY DEF IInv, TypeOK
    <3>2. Completed' = Completed
      BY <2>2, <3>1 DEF Completed
    <3> QED BY <2>2, <3>2, BarrierStutter DEF IInv, RoundOpen
  <2> USE DEF simVars, serverVars, countVars, vehicleVars
  <2>3. CASE SendUpdateLoadsReplied(v)
    BY <2>2, <2>3 DEF SendUpdateLoadsReplied
  <2>4. CASE SendUpdateFindsComplete(v)
    BY <2>2, <2>4 DEF SendUpdateFindsComplete
  <2>5. CASE SendUpdateFindsOpen(v)
    BY <2>2, <2>5 DEF SendUpdateFindsOpen
  <2>6. CASE SendUpdateRelays(v)
    BY <2>2, <2>6 DEF SendUpdateRelays
  <2> QED BY <1>5, <2>1, <2>3, <2>4, <2>5, <2>6 DEF Handler
<1>6. ASSUME NEW v \in Vehicles, PushThread(v) PROVE [Barrier!BNext]_(Barrier!bvars)
  <2> PICK p \in pushes : PushTick(p)
    BY <1>6 DEF PushThread
  <2> QED BY <1>1 DEF PushTick, RoundOpen, simVars, serverVars, countVars, handlerVars
<1>7. ASSUME NEW v \in Vehicles, Vehicle(v) PROVE [Barrier!BNext]_(Barrier!bvars)
  <2>1. UNCHANGED <<simPc, tickId, repliedCars>>
    BY <1>7 DEF Vehicle, VehicleFirstGet, VehicleGet, VehicleStepsAndSends, VehicleStepsDone,
                VehicleSent, VehicleCallFails, simVars, serverVars, countVars
  <2>2. Completed' = Completed
    <3>1. CASE VehicleStepsAndSends(v)
      <4>1. handler[v] = "none" /\ ~reportedDone[v]
        BY <3>1 DEF VehicleStepsAndSends, StepsToAnswer, IInv, ProtocolInv, CallInv
      <4>2. /\ handler \in [Vehicles -> HandlerState] /\ request \in [Vehicles -> Update]
        BY DEF IInv, TypeOK
      <4> QED BY <3>1, <4>1, <4>2 DEF VehicleStepsAndSends, Completed
    <3>2. CASE VehicleSent(v)
      <4>1. /\ handler \in [Vehicles -> HandlerState] /\ reportedDone \in [Vehicles -> BOOLEAN]
        BY DEF IInv, TypeOK
      <4> QED BY <3>2, <4>1 DEF VehicleSent, Completed
    <3>3. CASE VehicleFirstGet(v) \/ VehicleGet(v) \/ VehicleStepsDone(v) \/ VehicleCallFails(v)
      BY <3>3, CompletedUnchanged DEF VehicleFirstGet, VehicleGet, VehicleStepsDone,
                                      VehicleCallFails, handlerVars
    <3> QED BY <1>7, <3>1, <3>2, <3>3 DEF Vehicle
  <2> QED BY <2>1, <2>2, BarrierStutter DEF IInv, RoundOpen
<1>8. CASE UNCHANGED vars
  BY <1>1, <1>8 DEF vars, RoundOpen, simVars, serverVars, countVars, handlerVars, vehicleVars
<1> QED BY <1>2, <1>3, <1>4, <1>5, <1>6, <1>7, <1>8 DEF Next

(* The tick protocol, with all its queues and threads, is a barrier, up to *)
(* the step that finds a round complete a second time or repeats a call.   *)
THEOREM BarrierImplemented == Spec => ImplementsBarrier
<1>1. Init => Barrier!BInit
  BY BarrierInit
<1>2. TypeOK /\ (Undisturbed => IInv) /\ [Next]_vars
        => [Undisturbed' => [Barrier!BNext]_(Barrier!bvars)]_vars
  BY NothingRepeated, BarrierStep
<1> QED BY <1>1, <1>2, TypeCorrect, Inductive, PTL DEF Spec, ImplementsBarrier
=============================================================================
