---------------------------- MODULE Registration ----------------------------
(***************************************************************************)
(* How an eCloud scenario starts: the simulation announces the scenario    *)
(* (Server_StartScenario), every vehicle process registers twice with      *)
(* Client_RegisterVehicle (REGISTERING, to get its index; CARLA_UPDATE,    *)
(* when its vehicle exists in CARLA), the handler that counts the last     *)
(* CARLA_UPDATE pushes the tick (-1, TICK, 0) to the simulation, which     *)
(* fetches the registrations and broadcasts the first tick.                *)
(*                                                                         *)
(* The handlers run on the threads of a gRPC callback server; the mutex    *)
(* mu_ orders only a part of them, and not Server_StartScenario, which     *)
(* publishes the scenario (configYaml_) before the number of vehicles      *)
(* (numCars_).  The simulation's push server runs PushTick, which is not a *)
(* coroutine, in a pool of threads.                                        *)
(*                                                                         *)
(* A definition marked FAULT is not the code's: it is a plausible mistake  *)
(* in the definition that follows it, to try the properties against.       *)
(***************************************************************************)
EXTENDS Integers, Sequences, FiniteSets

CONSTANTS
  Containers,  \* the vehicle processes: as many as the simulation asks for
  BatchSize,   \* VEHICLE_UPDATE_BATCH_SIZE
  Nobody       \* nobody holds mu_

ASSUME RegistrationAssumption ==
  /\ IsFiniteSet(Containers) /\ Containers # {}
  /\ BatchSize \in Nat
  /\ Nobody \notin Containers

N == Cardinality(Containers)

(* numCars_, sent as SimulationInfo.vehicle_index: "bit of a hack". *)
(* FAULT: the last index is sent, not the count. *)
LastIndexAsCount == N - 1
NumCars == N
NoIndex == -1

VARIABLES
  simPc,
  simQ,           \* how many ticks (-1, TICK, 0) are in push_q
  simLast,        \* its push server remembers that tick as the last one
  got,            \* the registrations server_start_scenario fetched
  serverUp,
  configured,     \* configYaml_ # ""
  numCars,        \* numCars_
  mu,             \* who holds mu_
  numRegistered,  \* numRegisteredVehicles_
  clients,        \* vehicleClients_
  numReplied,     \* numRepliedVehicles_
  pending,        \* pendingReplies_: the indices of the registrations
  firstPushes,    \* the PushTick threads of the first Server_DoTick
  call,           \* per vehicle, the progress of its Client_RegisterVehicle
  replies,        \* that call's replies_
  reply,          \* the vehicle_index in its answer
  dupe,           \* what is_dupe said of that call's push
  vPc,
  idx,            \* vehicle_index
  vQ,             \* its push_q holds the first tick
  (* history: no guard of the code's reads it *)
  early           \* a call was compared with numCars_ before that was set

simVars == <<simPc, simQ, simLast, got>>
serverVars ==
  <<serverUp, configured, numCars, mu, numRegistered, clients, numReplied, pending>>
callVars == <<call, replies, reply, dupe>>
vehicleVars == <<vPc, idx, vQ>>
vars == <<simVars, serverVars, firstPushes, callVars, vehicleVars, early>>

SimState == {"start", "starting", "started", "await", "fetch", "ready", "ticked", "failed"}
CallState == {"none", "received", "indexed", "counted", "loaded", "complete", "push", "judged",
              "cleared", "finished"}
VehiclePc == {"boot", "registering", "setup", "carla", "firstGet", "driving", "crashed"}

TypeOK ==
  /\ simPc \in SimState
  /\ simQ \in Nat
  /\ simLast \in BOOLEAN
  /\ got \subseteq Nat
  /\ serverUp \in BOOLEAN /\ configured \in BOOLEAN
  /\ numCars \in Nat
  /\ mu \in Containers \union {Nobody}
  /\ numRegistered \in Nat
  /\ clients \in Seq(Containers)
  /\ numReplied \in Nat
  /\ pending \in Seq(Nat)
  /\ firstPushes \subseteq Containers
  /\ call \in [Containers -> CallState]
  /\ replies \in [Containers -> Nat]
  /\ reply \in [Containers -> Int]
  /\ dupe \in [Containers -> BOOLEAN]
  /\ vPc \in [Containers -> VehiclePc]
  /\ idx \in [Containers -> Int]
  /\ vQ \in [Containers -> BOOLEAN]
  /\ early \in BOOLEAN

Init ==
  /\ simPc = "start" /\ simQ = 0 /\ simLast = FALSE /\ got = {}
  /\ serverUp = TRUE /\ configured = FALSE /\ numCars = 0 /\ mu = Nobody
  /\ numRegistered = 0 /\ clients = <<>> /\ numReplied = 0 /\ pending = <<>>
  /\ firstPushes = {}
  /\ call = [v \in Containers |-> "none"]
  /\ replies = [v \in Containers |-> 0]
  /\ reply = [v \in Containers |-> NoIndex]
  /\ dupe = [v \in Containers |-> FALSE]
  /\ vPc = [v \in Containers |-> "boot"]
  /\ idx = [v \in Containers |-> NoIndex]
  /\ vQ = [v \in Containers |-> FALSE]
  /\ early = FALSE
-----------------------------------------------------------------------------
(* The simulation *)

(* The scenario is stored in the server: from here on vehicles register ... *)
Server_StartScenario ==
  /\ simPc = "start" /\ serverUp
  /\ configured' = TRUE
  /\ simPc' = "starting"
  /\ UNCHANGED <<simQ, simLast, got, serverUp, numCars, mu, numRegistered,
                 clients, numReplied, pending, firstPushes, callVars,
                 vehicleVars, early>>

(* ... and then how many there will be; the answer is on the way back. *)
StartScenarioSetsNumCars ==
  /\ simPc = "starting" /\ serverUp
  /\ numCars' = NumCars
  /\ simPc' = "started"
  /\ UNCHANGED <<simQ, simLast, got, serverUp, configured, mu, numRegistered,
                 clients, numReplied, pending, firstPushes, callVars,
                 vehicleVars, early>>

(* server_start_scenario: assert(self.push_q.empty()). *)
SimAwaits ==
  /\ simPc = "started"
  /\ simPc' = IF simQ = 0 THEN "await" ELSE "failed"
  /\ UNCHANGED <<simQ, simLast, got, serverVars, firstPushes, callVars,
                 vehicleVars, early>>

SimGets ==
  /\ simPc = "await" /\ simQ > 0
  /\ simQ' = simQ - 1
  /\ simPc' = "fetch"
  /\ UNCHANGED <<simLast, got, serverVars, firstPushes, callVars, vehicleVars,
                 early>>

(* Server_GetVehicleUpdates takes one more than a batch, from the back. *)
Kept == IF Len(pending) <= BatchSize THEN 0 ELSE Len(pending) - (BatchSize + 1)

SimFetches ==
  /\ simPc = "fetch" /\ serverUp
  /\ got' = {pending[i] : i \in (IF Len(pending) <= BatchSize THEN 1 ELSE Len(pending) - BatchSize)
                                  .. Len(pending)}
  /\ pending' = SubSeq(pending, 1, Kept)
  /\ numReplied' = IF pending' = <<>> THEN 0 ELSE numReplied
  /\ simPc' = "ready"
  /\ UNCHANGED <<simQ, simLast, serverUp, configured, numCars, mu,
                 numRegistered, clients, firstPushes, callVars, vehicleVars,
                 early>>

(* The first Server_DoTick: one thread per client pushes tick 1. *)
Server_DoTick ==
  /\ simPc = "ready" /\ serverUp
  /\ numReplied' = 0
  /\ firstPushes' = {clients[i] : i \in DOMAIN clients}
  /\ simPc' = "ticked"
  /\ UNCHANGED <<simQ, simLast, got, serverUp, configured, numCars, mu,
                 numRegistered, clients, pending, callVars, vehicleVars,
                 early>>

SimCallFails ==
  /\ ~serverUp
  /\ simPc \in {"start", "starting", "fetch", "ready"}
  /\ simPc' = "failed"
  /\ UNCHANGED <<simQ, simLast, got, serverVars, firstPushes, callVars,
                 vehicleVars, early>>
-----------------------------------------------------------------------------
(* Client_RegisterVehicle, on a thread of its own per call *)

Registers(v) == vPc[v] = "registering"

(* FAULT: without mu_. *)
Unlocked == TRUE
LockFree == mu = Nobody

(* FAULT: the index of the last registration. *)
IndexBelow == numRegistered - 1
NextIndex == numRegistered

(* REGISTERING, in mu_: the index is the number of registrations so far... *)
RegisterIndexes(v) ==
  /\ serverUp /\ configured
  /\ call[v] = "received" /\ Registers(v)
  /\ LockFree
  /\ mu' = v
  /\ reply' = [reply EXCEPT ![v] = NextIndex]
  /\ call' = [call EXCEPT ![v] = "indexed"]
  /\ UNCHANGED <<simVars, serverUp, configured, numCars, numRegistered,
                 clients, numReplied, pending, firstPushes, replies, dupe,
                 vehicleVars, early>>

(* ... and the vehicle's push client takes the place of that index. *)
RegisterAppends(v) ==
  /\ serverUp
  /\ call[v] = "indexed"
  /\ clients' = Append(clients, v)
  /\ numRegistered' = numRegistered + 1
  /\ mu' = Nobody
  /\ call' = [call EXCEPT ![v] = "counted"]
  /\ UNCHANGED <<simVars, serverUp, configured, numCars, numReplied, pending,
                 firstPushes, replies, reply, dupe, vehicleVars, early>>

(* CARLA_UPDATE: the registration is kept and counted, in mu_. *)
(* FAULT: the counter is moved, the registration comes later. *)
CountsBeforeKeeping(v) ==
  /\ numReplied' = numReplied + 1
  /\ UNCHANGED pending
KeepsAndCounts(v) ==
  /\ pending' = Append(pending, idx[v])
  /\ numReplied' = numReplied + 1

RegisterCarlaUpdate(v) ==
  /\ serverUp /\ configured
  /\ call[v] = "received" /\ ~Registers(v)
  /\ LockFree
  /\ KeepsAndCounts(v)
  /\ reply' = [reply EXCEPT ![v] = idx[v]]
  /\ call' = [call EXCEPT ![v] = "counted"]
  /\ UNCHANGED <<simVars, serverUp, configured, numCars, mu, numRegistered,
                 clients, firstPushes, replies, dupe, vehicleVars, early>>

(* After mu_, whatever the call was: replies_ = numRepliedVehicles_.load() ... *)
RegisterLoads(v) ==
  /\ serverUp
  /\ call[v] = "counted"
  /\ replies' = [replies EXCEPT ![v] = numReplied]
  /\ call' = [call EXCEPT ![v] = "loaded"]
  /\ UNCHANGED <<simVars, serverVars, firstPushes, reply, dupe, vehicleVars,
                 early>>

(* ... and const bool complete_ = ( replies_ == numCars_ ). *)
RegistrationComplete(v) == replies[v] = numCars

(* A local variable that is not read again. *)
Forgets(v) == replies' = [replies EXCEPT ![v] = 0]

RegisterCompares(v) ==
  /\ serverUp
  /\ call[v] = "loaded"
  /\ \/ RegistrationComplete(v) /\ call' = [call EXCEPT ![v] = "complete"] /\ UNCHANGED replies
     \/ ~RegistrationComplete(v) /\ call' = [call EXCEPT ![v] = "finished"] /\ Forgets(v)
  /\ early' = (early \/ simPc \in {"start", "starting"})
  /\ UNCHANGED <<simVars, serverVars, firstPushes, reply, dupe, vehicleVars>>

(* assert( ... replies_ == pendingReplies_.size() ) *)
RegisterAsserts(v) ==
  /\ serverUp
  /\ call[v] = "complete"
  /\ Len(pending) = replies[v]
  /\ call' = [call EXCEPT ![v] = "push"]
  /\ Forgets(v)
  /\ UNCHANGED <<simVars, serverVars, firstPushes, reply, dupe, vehicleVars,
                 early>>

(* That assertion, or assert( configYaml_ != "" ), fails. *)
RegisterAborts(v) ==
  /\ serverUp
  /\ \/ call[v] = "received" /\ ~configured
     \/ call[v] = "complete" /\ Len(pending) # replies[v]
  /\ serverUp' = FALSE
  /\ UNCHANGED <<simVars, configured, numCars, mu, numRegistered, clients,
                 numReplied, pending, firstPushes, callVars, vehicleVars,
                 early>>
-----------------------------------------------------------------------------
(* EcloudPushServer.PushTick at the simulation, on a thread of its pool.   *)

(* FAULT: the tick is remembered before it is compared. *)
IsDupeOfItself == TRUE
IsDupe == simLast

PushJudges(v) ==
  /\ call[v] = "push"
  /\ dupe' = [dupe EXCEPT ![v] = IsDupe]
  /\ call' = [call EXCEPT ![v] = "judged"]
  /\ UNCHANGED <<simVars, serverVars, firstPushes, replies, reply,
                 vehicleVars, early>>

(* The tick is remembered; assert self.que.empty() fails the call, which   *)
(* the server only prints.                                                 *)
PushRecords(v) ==
  /\ call[v] = "judged"
  /\ simLast' = TRUE
  /\ call' = [call EXCEPT ![v] = IF simQ > 0 \/ dupe[v] THEN "finished" ELSE "cleared"]
  /\ UNCHANGED <<simPc, simQ, got, serverVars, firstPushes, replies, reply,
                 dupe, vehicleVars, early>>

PushPuts(v) ==
  /\ call[v] = "cleared"
  /\ simQ' = simQ + 1
  /\ call' = [call EXCEPT ![v] = "finished"]
  /\ UNCHANGED <<simPc, simLast, got, serverVars, firstPushes, replies, reply,
                 dupe, vehicleVars, early>>
-----------------------------------------------------------------------------
(* A vehicle process *)

VehicleRegisters(v) ==
  /\ vPc[v] = "boot" /\ serverUp
  /\ vPc' = [vPc EXCEPT ![v] = "registering"]
  /\ call' = [call EXCEPT ![v] = "received"]
  /\ UNCHANGED <<simVars, serverVars, firstPushes, replies, reply, dupe, idx,
                 vQ, early>>

VehicleTakesIndex(v) ==
  /\ vPc[v] = "registering" /\ call[v] = "finished"
  /\ idx' = [idx EXCEPT ![v] = reply[v]]
  /\ vPc' = [vPc EXCEPT ![v] = "setup"]
  /\ call' = [call EXCEPT ![v] = "none"]
  /\ UNCHANGED <<simVars, serverVars, firstPushes, replies, reply, dupe, vQ,
                 early>>

(* The VehicleManager is built, its actor exists: send_carla_data_to_opencda. *)
VehicleSendsCarlaData(v) ==
  /\ vPc[v] = "setup" /\ serverUp
  /\ vPc' = [vPc EXCEPT ![v] = "carla"]
  /\ call' = [call EXCEPT ![v] = "received"]
  /\ UNCHANGED <<simVars, serverVars, firstPushes, replies, reply, dupe, idx,
                 vQ, early>>

(* assert(push_q.empty()), then the first push_q.get(). *)
VehicleIsRegistered(v) ==
  /\ vPc[v] = "carla" /\ call[v] = "finished"
  /\ vPc' = [vPc EXCEPT ![v] = IF vQ[v] THEN "crashed" ELSE "firstGet"]
  /\ call' = [call EXCEPT ![v] = "none"]
  /\ UNCHANGED <<simVars, serverVars, firstPushes, replies, reply, dupe, idx,
                 vQ, early>>

VehicleFirstGet(v) ==
  /\ vPc[v] = "firstGet" /\ vQ[v]
  /\ vPc' = [vPc EXCEPT ![v] = "driving"]
  /\ vQ' = [vQ EXCEPT ![v] = FALSE]
  /\ UNCHANGED <<simVars, serverVars, firstPushes, callVars, idx, early>>

VehicleCallFails(v) ==
  /\ ~serverUp
  /\ vPc[v] \in {"boot", "registering", "setup", "carla"}
  /\ call[v] # "finished"
  /\ vPc' = [vPc EXCEPT ![v] = "crashed"]
  /\ UNCHANGED <<simVars, serverVars, firstPushes, callVars, idx, vQ, early>>

FirstPush(v) ==
  /\ v \in firstPushes /\ serverUp
  /\ firstPushes' = firstPushes \ {v}
  /\ vQ' = [vQ EXCEPT ![v] = TRUE]
  /\ UNCHANGED <<simVars, serverVars, callVars, vPc, idx, early>>
-----------------------------------------------------------------------------
Sim ==
  \/ Server_StartScenario \/ StartScenarioSetsNumCars \/ SimAwaits
  \/ SimGets \/ SimFetches \/ Server_DoTick \/ SimCallFails

Handler(v) ==
  \/ RegisterIndexes(v) \/ RegisterAppends(v) \/ RegisterCarlaUpdate(v)
  \/ RegisterLoads(v) \/ RegisterCompares(v) \/ RegisterAsserts(v) \/ RegisterAborts(v)
  \/ PushJudges(v) \/ PushRecords(v) \/ PushPuts(v)

Vehicle(v) ==
  \/ VehicleRegisters(v) \/ VehicleTakesIndex(v) \/ VehicleSendsCarlaData(v)
  \/ VehicleIsRegistered(v) \/ VehicleFirstGet(v) \/ VehicleCallFails(v)

Next == Sim \/ \E v \in Containers : Handler(v) \/ Vehicle(v) \/ FirstPush(v)

Spec == Init /\ [][Next]_vars

(* Every process and every thread that can go on does so eventually. *)
FairSpec ==
  /\ Spec /\ WF_vars(Sim)
  /\ \A v \in Containers : WF_vars(Handler(v)) /\ WF_vars(Vehicle(v)) /\ WF_vars(FirstPush(v))
-----------------------------------------------------------------------------
(* Properties, for handlers that overlap in any way *)

(* No call has been compared with numCars_ before it was set: with a start *)
(* that is early nothing is claimed of the release.                        *)
InTime == ~early

(* A vehicle's index is the place of its push client: what the server      *)
(* pushes to client i reaches the vehicle that answers as i.               *)
IndexNamesClient ==
  \A v \in Containers :
    idx[v] # NoIndex => idx[v] + 1 \in DOMAIN clients /\ clients[idx[v] + 1] = v

(* From the moment the simulation is released until it ticks, every vehicle *)
(* exists in CARLA and the indices are exactly those of the simulation's    *)
(* vehicle managers, 0 .. N-1. What a batch does not hold stays in the      *)
(* mailbox: no registration is lost between the two, and none is there      *)
(* twice.  (Unless a vehicle registered while Server_StartScenario ran.)    *)
StartsComplete ==
  InTime =>
    /\ simPc \in {"fetch", "ready", "ticked"} => {idx[v] : v \in Containers} = 0 .. N-1
    /\ simPc = "ready" =>
         /\ got \union {pending[i] : i \in DOMAIN pending} = 0 .. N-1
         /\ Cardinality(got) + Len(pending) = N

(* Two handlers may both see the last reply and the later one's assertion  *)
(* may fail, but not before the simulation has been released.  (With the   *)
(* same exception.)                                                        *)
AbortsOnlyAfterRelease ==
  InTime /\ ~serverUp /\ configured => simPc \notin {"start", "starting", "started", "await"}

(* Once it awaits the vehicles the simulation gets ready, unless the       *)
(* server dies: the last reply is seen by some handler and its push is not *)
(* taken for a repetition.  (With the same exception: a reply compared     *)
(* with an unset numCars_ releases nobody.)                                *)
SimulationStarts == simPc = "await" ~> (simPc = "ready" \/ ~serverUp \/ ~InTime)
=============================================================================
