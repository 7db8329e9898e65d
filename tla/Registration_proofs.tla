------------------------ MODULE Registration_proofs ------------------------
(***************************************************************************)
(* The indices a scenario's vehicles get, for any number of vehicles and   *)
(* any overlap of the Client_RegisterVehicle handlers.                     *)
(***************************************************************************)
EXTENDS Registration, SequenceTheorems, FiniteSetTheorems, TLAPS

(* Place i of vehicleClients_ is v's push client. *)
Names(i, v) == i \in Nat /\ i + 1 \in DOMAIN clients /\ clients[i+1] = v

(* mu_ is held exactly while a vehicle has its index and not yet its place. *)
LockInv ==
  /\ \A v \in Containers : call[v] = "indexed" => mu = v
  /\ mu # Nobody => call[mu] = "indexed"
  /\ numRegistered = Len(clients)

(* A running call belongs to the phase of its vehicle; an index that is    *)
(* assigned but not yet placed is the next place.                          *)
IndexInv ==
  \A v \in Containers :
    /\ serverUp /\ call[v] # "none" => vPc[v] \in {"registering", "carla"}
    /\ serverUp /\ call[v] = "indexed" => Registers(v) /\ reply[v] = numRegistered
    /\ Registers(v) /\ call[v] \notin {"none", "received", "indexed"} => Names(reply[v], v)
    /\ vPc[v] \in {"setup", "carla"} => Names(idx[v], v)
    /\ idx[v] # NoIndex => Names(idx[v], v)

IInv == TypeOK /\ LockInv /\ IndexInv
-----------------------------------------------------------------------------
LEMMA RegInit == Init => IInv
<1> SUFFICES ASSUME Init PROVE IInv
  OBVIOUS
<1>1. TypeOK
  <2>1. clients \in Seq(Containers) /\ pending \in Seq(Nat)
    BY DEF Init
  <2>2. /\ call \in [Containers -> CallState] /\ vPc \in [Containers -> VehiclePc]
        /\ reply \in [Containers -> Int] /\ idx \in [Containers -> Int]
        /\ dupe \in [Containers -> BOOLEAN] /\ vQ \in [Containers -> BOOLEAN]
    BY DEF Init, CallState, VehiclePc, NoIndex
  <2> QED BY <2>1, <2>2 DEF Init, TypeOK, SimState
<1>2. LockInv /\ IndexInv
  BY DEF Init, LockInv, IndexInv, NoIndex, Registers
<1> QED BY <1>1, <1>2 DEF IInv

(* A new client takes the next place and moves nobody's. *)
LEMMA NamesAppend ==
  ASSUME IInv, NEW v \in Containers, clients' = Append(clients, v)
  PROVE  /\ Len(clients') = Len(clients) + 1
         /\ \A i : i = Len(clients) => Names(i, v)'
         /\ \A i, w : Names(i, w) => Names(i, w)'
<1>1. clients \in Seq(Containers)
  BY DEF IInv, TypeOK
<1>2. /\ Append(clients, v) \in Seq(Containers)
      /\ Len(Append(clients, v)) = Len(clients) + 1
      /\ \A i \in 1 .. Len(clients) : Append(clients, v)[i] = clients[i]
      /\ Append(clients, v)[Len(clients) + 1] = v
  BY <1>1, AppendProperties
<1>3. DOMAIN clients = 1 .. Len(clients) /\ DOMAIN clients' = 1 .. Len(clients) + 1
  BY <1>1, <1>2, LenProperties
<1>4. Len(clients) \in Nat
  BY <1>1, LenProperties
<1> QED BY <1>2, <1>3, <1>4 DEF Names

(* Nothing that the invariants on locks and indices speak of has changed. *)
LEMMA RegFrame ==
  ASSUME IInv, TypeOK',
         UNCHANGED <<serverUp, mu, numRegistered, clients, call, reply, vPc, idx>>
  PROVE  IInv'
BY DEF IInv, LockInv, IndexInv, Names, Registers

(* A call that holds neither the lock nor a fresh index moves on. *)
LEMMA RegCallMoves ==
  ASSUME IInv, TypeOK', NEW v \in Containers,
         NEW from \in {"counted", "loaded", "complete", "push", "judged", "cleared"},
         NEW to \in {"loaded", "complete", "push", "judged", "cleared", "finished"},
         call[v] = from, call' = [call EXCEPT ![v] = to],
         UNCHANGED <<serverUp, mu, numRegistered, clients, reply, vPc, idx>>
  PROVE  IInv'
<1>1. call \in [Containers -> CallState]
  BY DEF IInv, TypeOK
<1>2. LockInv'
  BY <1>1, RegistrationAssumption DEF IInv, TypeOK, LockInv
<1>3. IndexInv'
  BY <1>1 DEF IInv, IndexInv, Names, Registers
<1> QED BY <1>2, <1>3 DEF IInv

LEMMA RegSim == ASSUME IInv, Sim PROVE IInv'
<1>1. CASE Server_StartScenario
  BY <1>1, RegFrame DEF Server_StartScenario, IInv, TypeOK, SimState, callVars, vehicleVars
<1>7. CASE StartScenarioSetsNumCars
  <2>1. NumCars \in Nat
    BY FS_CardinalityType, RegistrationAssumption DEF NumCars, N
  <2> QED
    BY <1>7, <2>1, RegFrame
    DEF StartScenarioSetsNumCars, IInv, TypeOK, SimState, callVars, vehicleVars
<1>2. CASE SimAwaits
  BY <1>2, RegFrame DEF SimAwaits, IInv, TypeOK, SimState, serverVars, callVars, vehicleVars
<1>3. CASE SimGets
  BY <1>3, RegFrame DEF SimGets, IInv, TypeOK, SimState, serverVars, callVars, vehicleVars
<1>4. CASE SimFetches
  <2>1. pending \in Seq(Nat) /\ Len(pending) \in Nat /\ DOMAIN pending = 1 .. Len(pending)
    BY LenProperties DEF IInv, TypeOK
  <2>2. Kept \in 0 .. Len(pending)
    BY <2>1, RegistrationAssumption DEF Kept
  <2>3. pending' \in Seq(Nat)
    BY <1>4, <2>1, <2>2, SubSeqProperties DEF SimFetches
  <2>4. got' \subseteq Nat
    <3>1. \A i \in (IF Len(pending) <= BatchSize THEN 1 ELSE Len(pending) - BatchSize)
                     .. Len(pending) : pending[i] \in Nat
      BY <2>1, RegistrationAssumption
    <3> QED BY <1>4, <3>1 DEF SimFetches
  <2>5. TypeOK'
    BY <1>4, <2>3, <2>4 DEF SimFetches, IInv, TypeOK, SimState, callVars, vehicleVars
  <2> QED BY <1>4, <2>5, RegFrame DEF SimFetches, callVars, vehicleVars
<1>5. CASE Server_DoTick
  <2>1. firstPushes' \subseteq Containers
    BY <1>5, LenProperties DEF Server_DoTick, IInv, TypeOK
  <2> QED
    BY <1>5, <2>1, RegFrame DEF Server_DoTick, IInv, TypeOK, SimState, callVars, vehicleVars
<1>6. CASE SimCallFails
  BY <1>6, RegFrame DEF SimCallFails, IInv, TypeOK, SimState, serverVars, callVars, vehicleVars
<1> QED BY <1>1, <1>2, <1>3, <1>4, <1>5, <1>6, <1>7 DEF Sim

LEMMA RegHandler == ASSUME IInv, NEW v \in Containers, Handler(v) PROVE IInv'
<1> USE DEF simVars, vehicleVars
<1>0. /\ call \in [Containers -> CallState] /\ reply \in [Containers -> Int]
      /\ v # Nobody /\ numRegistered \in Nat
  BY RegistrationAssumption DEF IInv, TypeOK
<1>1. CASE RegisterIndexes(v)
  <2>1. TypeOK'
    BY <1>0, <1>1 DEF RegisterIndexes, NextIndex, IInv, TypeOK, CallState
  <2>2. LockInv'
    BY <1>0, <1>1, RegistrationAssumption DEF RegisterIndexes, LockFree, IInv, LockInv
  <2>3. IndexInv'
    BY <1>0, <1>1 DEF RegisterIndexes, NextIndex, IInv, IndexInv, Names, Registers
  <2> QED BY <2>1, <2>2, <2>3 DEF IInv
<1>2. CASE RegisterAppends(v)
  <2>1. /\ clients' = Append(clients, v) /\ clients \in Seq(Containers)
        /\ clients' \in Seq(Containers)
    BY <1>2, AppendProperties DEF RegisterAppends, IInv, TypeOK
  <2>2. /\ Len(clients') = Len(clients) + 1
        /\ \A i : i = Len(clients) => Names(i, v)'
        /\ \A i, w : Names(i, w) => Names(i, w)'
    BY <2>1, NamesAppend
  <2>3. mu = v /\ reply[v] = Len(clients) /\ numRegistered = Len(clients)
    BY <1>2 DEF RegisterAppends, IInv, LockInv, IndexInv
  <2>4. TypeOK'
    BY <1>0, <1>2, <2>1 DEF RegisterAppends, IInv, TypeOK, CallState
  <2>5. LockInv'
    BY <1>0, <1>2, <2>2, <2>3 DEF RegisterAppends, IInv, LockInv
  <2>6. \A w \in Containers \ {v} : call[w] # "indexed" /\ call'[w] = call[w]
    BY <1>0, <1>2, <2>3 DEF RegisterAppends, IInv, LockInv
  <2>7. call'[v] = "counted" /\ call[v] = "indexed"
    BY <1>0, <1>2 DEF RegisterAppends
  <2>8. Names(reply[v], v)'
    <3>1. reply' = reply
      BY <1>2 DEF RegisterAppends
    <3> QED BY <2>2, <2>3, <3>1 DEF Names
  <2>9. UNCHANGED <<serverUp, reply, vPc, idx>>
    BY <1>2 DEF RegisterAppends
  <2>10. IndexInv'
    <3> SUFFICES ASSUME NEW w \in Containers
                 PROVE  /\ serverUp /\ call'[w] # "none" => vPc[w] \in {"registering", "carla"}
                        /\ call'[w] # "indexed"
                        /\ vPc[w] = "registering" /\ call'[w] \notin {"none", "received", "indexed"}
                             => Names(reply[w], w)'
                        /\ vPc[w] \in {"setup", "carla"} => Names(idx[w], w)'
                        /\ idx[w] # NoIndex => Names(idx[w], w)'
      BY <2>9 DEF IndexInv, Registers
    <3>1. \A i : Names(i, w) => Names(i, w)'
      BY <2>2
    <3>2. vPc[w] \in {"setup", "carla"} \/ idx[w] # NoIndex => Names(idx[w], w)'
      <4>1. vPc[w] \in {"setup", "carla"} \/ idx[w] # NoIndex => Names(idx[w], w)
        BY DEF IInv, IndexInv
      <4> QED BY <2>9, <3>1, <4>1 DEF Names
    <3>3. CASE w = v
      BY <2>7, <2>8, <2>9, <3>2, <3>3 DEF IInv, IndexInv
    <3>4. CASE w # v
      <4>1. vPc[w] = "registering" /\ call[w] \notin {"none", "received", "indexed"}
              => Names(reply[w], w)
        BY DEF IInv, IndexInv, Registers
      <4>2. Names(reply[w], w) => Names(reply[w], w)'
        BY <2>9, <3>1 DEF Names
      <4> QED BY <2>6, <2>9, <3>2, <3>4, <4>1, <4>2 DEF IInv, IndexInv
    <3> QED BY <3>3, <3>4
  <2> QED BY <2>4, <2>5, <2>10 DEF IInv
<1>3. CASE RegisterCarlaUpdate(v)
  <2>1. vPc[v] = "carla" /\ idx[v] \in Nat
    BY <1>3 DEF RegisterCarlaUpdate, Registers, IInv, IndexInv, Names
  <2>2. pending' \in Seq(Nat)
    BY <1>3, <2>1, AppendProperties DEF RegisterCarlaUpdate, KeepsAndCounts, IInv, TypeOK
  <2>3. TypeOK'
    BY <1>0, <1>3, <2>1, <2>2
    DEF RegisterCarlaUpdate, KeepsAndCounts, IInv, TypeOK, CallState
  <2>4. LockInv'
    BY <1>0, <1>3 DEF RegisterCarlaUpdate, LockFree, IInv, LockInv
  <2>5. IndexInv'
    BY <1>0, <1>3, <2>1 DEF RegisterCarlaUpdate, IInv, IndexInv, Names, Registers
  <2> QED BY <2>3, <2>4, <2>5 DEF IInv
<1>4. CASE RegisterLoads(v)
  <2>1. TypeOK'
    BY <1>4 DEF RegisterLoads, IInv, TypeOK, CallState, serverVars
  <2> QED BY <1>4, <2>1, RegCallMoves DEF RegisterLoads, serverVars
<1>10. CASE RegisterCompares(v)
  <2>1. TypeOK'
    <3>1. call' \in [Containers -> CallState] /\ replies' \in [Containers -> Nat]
      <4>1. /\ \/ call' = [call EXCEPT ![v] = "complete"]
               \/ call' = [call EXCEPT ![v] = "finished"]
            /\ \/ replies' = replies
               \/ replies' = [replies EXCEPT ![v] = 0]
        BY <1>10, Zenon DEF RegisterCompares, Forgets
      <4>2. replies \in [Containers -> Nat]
        BY DEF IInv, TypeOK
      <4> QED BY <1>0, <4>1, <4>2 DEF CallState
    <3>2. early' \in BOOLEAN
      <4>1. early' = (early \/ simPc \in {"start", "starting"})
        BY <1>10 DEF RegisterCompares
      <4> QED BY <4>1, Zenon
    <3> QED BY <1>10, <3>1, <3>2 DEF RegisterCompares, IInv, TypeOK, serverVars
  <2>2. PICK to \in {"complete", "finished"} : call' = [call EXCEPT ![v] = to]
    BY <1>10 DEF RegisterCompares
  <2> QED BY <1>10, <2>1, <2>2, RegCallMoves DEF RegisterCompares, serverVars
<1>5. CASE RegisterAsserts(v)
  <2>1. TypeOK'
    BY <1>5 DEF RegisterAsserts, Forgets, IInv, TypeOK, CallState, serverVars
  <2> QED BY <1>5, <2>1, RegCallMoves DEF RegisterAsserts, serverVars
<1>6. CASE RegisterAborts(v)
  <2>1. TypeOK'
    BY <1>6 DEF RegisterAborts, IInv, TypeOK, callVars
  <2>2. LockInv' /\ IndexInv'
    BY <1>6 DEF RegisterAborts, IInv, LockInv, IndexInv, Names, Registers, callVars
  <2> QED BY <2>1, <2>2 DEF IInv
<1>7. CASE PushJudges(v)
  <2>1. TypeOK'
    BY <1>7 DEF PushJudges, IsDupe, IInv, TypeOK, CallState, serverVars
  <2> QED BY <1>7, <2>1, RegCallMoves DEF PushJudges, serverVars
<1>8. CASE PushRecords(v)
  <2>1. TypeOK'
    BY <1>8 DEF PushRecords, IInv, TypeOK, CallState, serverVars
  <2> QED BY <1>8, <2>1, RegCallMoves DEF PushRecords, serverVars
<1>9. CASE PushPuts(v)
  <2>1. TypeOK'
    BY <1>9 DEF PushPuts, IInv, TypeOK, CallState, serverVars
  <2> QED BY <1>9, <2>1, RegCallMoves DEF PushPuts, serverVars
<1> QED BY <1>1, <1>2, <1>3, <1>4, <1>5, <1>6, <1>7, <1>8, <1>9, <1>10 DEF Handler

LEMMA RegVehicle == ASSUME IInv, NEW v \in Containers, Vehicle(v) \/ FirstPush(v) PROVE IInv'
<1> USE DEF simVars, serverVars
<1>0. /\ call \in [Containers -> CallState] /\ vPc \in [Containers -> VehiclePc]
      /\ idx \in [Containers -> Int] /\ v # Nobody
  BY RegistrationAssumption DEF IInv, TypeOK
<1>1. TypeOK'
  BY <1>0 DEF Vehicle, VehicleRegisters, VehicleTakesIndex, VehicleSendsCarlaData,
              VehicleIsRegistered, VehicleFirstGet, VehicleCallFails, FirstPush, IInv, TypeOK,
              CallState, VehiclePc, callVars
<1>2. LockInv'
  <2>1. /\ UNCHANGED <<mu, numRegistered, clients>>
        /\ \/ UNCHANGED call
           \/ /\ call[v] # "indexed"
              /\ \E c \in {"none", "received"} : call' = [call EXCEPT ![v] = c]
    BY <1>0 DEF Vehicle, VehicleRegisters, VehicleTakesIndex, VehicleSendsCarlaData,
                VehicleIsRegistered, VehicleFirstGet, VehicleCallFails, FirstPush, callVars,
                IInv, IndexInv
  <2>2. mu \in Containers \union {Nobody}
    BY DEF IInv, TypeOK
  <2> QED BY <1>0, <2>1, <2>2 DEF IInv, LockInv
<1>3. IndexInv'
  <2> USE DEF IInv, IndexInv, Names, Registers
  <2>1. CASE VehicleRegisters(v)
    BY <1>0, <2>1 DEF VehicleRegisters
  <2>2. CASE VehicleTakesIndex(v)
    BY <1>0, <2>2 DEF VehicleTakesIndex
  <2>3. CASE VehicleSendsCarlaData(v)
    BY <1>0, <2>3 DEF VehicleSendsCarlaData
  <2>4. CASE VehicleIsRegistered(v)
    BY <1>0, <2>4 DEF VehicleIsRegistered
  <2>5. CASE VehicleFirstGet(v)
    BY <1>0, <2>5 DEF VehicleFirstGet, callVars
  <2>6. CASE VehicleCallFails(v)
    BY <1>0, <2>6 DEF VehicleCallFails, callVars
  <2>7. CASE FirstPush(v)
    BY <1>0, <2>7 DEF FirstPush, callVars
  <2> QED BY <2>1, <2>2, <2>3, <2>4, <2>5, <2>6, <2>7 DEF Vehicle
<1> QED BY <1>1, <1>2, <1>3 DEF IInv

(* The lock, the calls and the indices stay consistent, whatever overlaps. *)
THEOREM RegistrationInductive == Spec => []IInv
<1>1. Init => IInv
  BY RegInit
<1>2. IInv /\ [Next]_vars => IInv'
  <2> SUFFICES ASSUME IInv, [Next]_vars PROVE IInv'
    OBVIOUS
  <2>1. CASE UNCHANGED vars
    <3>1. TypeOK'
      BY <2>1 DEF vars, simVars, serverVars, callVars, vehicleVars, IInv, TypeOK
    <3> QED BY <2>1, <3>1, RegFrame DEF vars, serverVars, callVars, vehicleVars
  <2> QED BY <2>1, RegSim, RegHandler, RegVehicle DEF Next
<1> QED BY <1>1, <1>2, PTL DEF Spec

(* Client_RegisterVehicle's index is the place of the vehicle's own push   *)
(* client in vehicleClients_, however the registrations interleave.        *)
THEOREM IndexNamesClientHolds == Spec => []IndexNamesClient
<1>1. IInv => IndexNamesClient
  BY DEF IInv, IndexInv, IndexNamesClient, Names
<1> QED BY <1>1, RegistrationInductive, PTL
(* Type correctness, for any number of vehicles and any overlap. *)
THEOREM RegistrationTypes == Spec => []TypeOK
<1>1. IInv => TypeOK
  BY DEF IInv
<1> QED BY <1>1, RegistrationInductive, PTL
-----------------------------------------------------------------------------
(* How the scenario starts: what the counter, the mailbox and the clients  *)
(* hold until the simulation has fetched the registrations.                *)

(* v's CARLA_UPDATE has been counted. *)
Present(v) ==
  /\ vPc[v] \in {"carla", "firstGet", "driving", "crashed"}
  /\ ~(vPc[v] = "carla" /\ call[v] = "received")
Counted == {v \in Containers : Present(v)}
Mailbox == {pending[i] : i \in DOMAIN pending}
PastCount == {"complete", "push", "judged", "cleared"}

(* A call in one of these steps, with its local variable, moves on alone. *)
Busy == PastCount \union {"loaded"}
KeepsBusy ==
  \A v \in Containers :
    call'[v] \in Busy => call'[v] = call[v] /\ replies'[v] = replies[v]

(* What v's call loaded was no more than there is; the call that found all *)
(* of them knows that nobody else will come.                               *)
CallKnows(v) ==
  /\ call[v] = "loaded" => replies[v] <= numReplied
  /\ call[v] = "complete" => replies[v] = N
  /\ call[v] \in PastCount => numReplied = N
Starting == serverUp /\ simPc \notin {"ready", "ticked", "failed"}

(* A server that dies early was called before it had the scenario. *)
PhaseInv ==
  /\ simPc = "start" => ~configured
  /\ simPc \notin {"start", "failed"} => configured
  /\ simPc \notin {"start", "starting", "failed"} => numCars = N
  /\ ~serverUp => simPc \in {"start", "ready", "ticked", "failed"}

(* No vehicle has two places. *)
PlaceInv ==
  /\ \A i, j \in DOMAIN clients : clients[i] = clients[j] => i = j
  /\ \A i \in DOMAIN clients :
       /\ vPc[clients[i]] # "boot"
       /\ Registers(clients[i]) => call[clients[i]] \notin {"received", "indexed"}
  /\ \A v \in Containers :
       serverUp /\ vPc[v] \in {"setup", "carla", "firstGet", "driving", "crashed"}
         => Names(idx[v], v)

(* Until the fetch the mailbox holds, once, whom the counter counts; who   *)
(* saw the last reply, and the released simulation, know that nobody else  *)
(* will come.                                                              *)
CountInv ==
  Starting =>
    /\ numReplied = Len(pending) /\ numReplied = Cardinality(Counted)
    /\ \A v \in Containers : CallKnows(v)
    /\ simQ > 0 \/ simPc = "fetch" => numReplied = N
    /\ Mailbox = {idx[v] : v \in Counted}
    /\ \A i, j \in DOMAIN pending : pending[i] = pending[j] => i = j

ReadyInv ==
  simPc \in {"fetch", "ready", "ticked"} => \A v \in Containers : Present(v) /\ Names(idx[v], v)

FetchedInv ==
  simPc = "ready" => got \union Mailbox = 0 .. N-1 /\ Cardinality(got) + Len(pending) = N

StartInv == PhaseInv /\ PlaceInv /\ CountInv /\ ReadyInv /\ FetchedInv
-----------------------------------------------------------------------------
LEMMA StartInit == Init => StartInv
<1> SUFFICES ASSUME Init PROVE StartInv
  OBVIOUS
<1>1. PhaseInv /\ PlaceInv /\ ReadyInv /\ FetchedInv
  BY DEF Init, PhaseInv, PlaceInv, ReadyInv, FetchedInv
<1>2. Counted = {} /\ Mailbox = {}
  BY DEF Init, Counted, Present, Mailbox
<1>3. CountInv
  BY <1>2, FS_EmptySet DEF Init, CountInv, CallKnows, PastCount
<1> QED BY <1>1, <1>3 DEF StartInv

(* Who is counted depends on the phases and on the calls just received. *)
LEMMA CountedSame ==
  ASSUME \A v \in Containers : Present(v)' <=> Present(v)
  PROVE  Counted' = Counted
BY DEF Counted

LEMMA EverybodyCounted ==
  ASSUME CountInv, Starting, numReplied = N
  PROVE  Counted = Containers
<1>1. Cardinality(Counted) = Cardinality(Containers) /\ Counted \subseteq Containers
  BY DEF CountInv, N, Counted
<1> QED BY <1>1, FS_Subset, RegistrationAssumption

LEMMA RepliedBounded ==
  ASSUME CountInv, Starting
  PROVE  numReplied <= N
<1>1. numReplied = Cardinality(Counted) /\ Counted \subseteq Containers
  BY DEF CountInv, Counted
<1> QED BY <1>1, FS_Subset, RegistrationAssumption DEF N

(* The indices of vehicles that all have their places are 0 .. N-1. *)
LEMMA IndicesComplete ==
  ASSUME IInv, PlaceInv, \A v \in Containers : Names(idx[v], v)
  PROVE  {idx[v] : v \in Containers} = 0 .. N-1
<1> DEFINE n == Len(clients)
<1>1. n \in Nat /\ clients \in [1 .. n -> Containers] /\ DOMAIN clients = 1 .. n
  BY LenProperties DEF IInv, TypeOK
<1>2. \A v \in Containers : idx[v] \in 0 .. n-1 /\ clients[idx[v] + 1] = v
  BY <1>1 DEF Names
<1>3. \A i \in 0 .. n-1 : i + 1 \in 1 .. n /\ clients[i+1] \in Containers /\ idx[clients[i+1]] = i
  <2> SUFFICES ASSUME NEW i \in 0 .. n-1
               PROVE  i + 1 \in 1 .. n /\ clients[i+1] \in Containers /\ idx[clients[i+1]] = i
    OBVIOUS
  <2>1. i + 1 \in 1 .. n /\ clients[i+1] \in Containers
    BY <1>1
  <2>2. idx[clients[i+1]] + 1 \in 1 .. n /\ clients[idx[clients[i+1]] + 1] = clients[i+1]
    BY <1>1, <1>2, <2>1
  <2>3. idx[clients[i+1]] + 1 = i + 1
    BY <1>1, <2>1, <2>2 DEF PlaceInv
  <2> QED BY <1>1, <1>2, <2>1, <2>3
<1>4. {idx[v] : v \in Containers} = 0 .. n-1
  BY <1>2, <1>3
<1>5. n = N
  <2>1. clients \in Bijection(1 .. n, Containers)
    <3>1. \A v \in Containers : \E i \in 1 .. n : clients[i] = v
      BY <1>1, <1>2
    <3>2. clients \in Injection(1 .. n, Containers)
      BY <1>1 DEF PlaceInv, Injection, IsInjective
    <3> QED BY <1>1, <3>1, <3>2 DEF Bijection, Surjection
  <2>2. IsFiniteSet(1 .. n) /\ Cardinality(1 .. n) = n
    BY <1>1, FS_Interval
  <2>3. ExistsBijection(1 .. n, Containers)
    BY <2>1 DEF ExistsBijection
  <2>4. Cardinality(Containers) = Cardinality(1 .. n)
    BY <2>2, <2>3, FS_Bijection
  <2> QED BY <2>2, <2>4 DEF N
<1> QED BY <1>4, <1>5
-----------------------------------------------------------------------------
(* A step that moves calls only. *)
LEMMA StartFrame ==
  ASSUME IInv, StartInv,
         UNCHANGED <<simPc, simQ, got, serverUp, configured, numCars, clients, numReplied,
                     pending, vPc, idx>>,
         \A v \in Containers : call'[v] = "received" <=> call[v] = "received",
         \A v \in Containers : call'[v] = "indexed" => call[v] \in {"indexed", "received"},
         \A v \in Containers : CountInv /\ Starting => CallKnows(v)'
  PROVE  StartInv'
<1>1. \A v \in Containers : Present(v)' <=> Present(v)
  BY DEF Present
<1>2. Counted' = Counted
  BY <1>1, CountedSame
<1>3. PhaseInv'
  BY DEF StartInv, PhaseInv
<1>4. PlaceInv'
  <2>1. \A i \in DOMAIN clients : clients[i] \in Containers
    BY LenProperties DEF IInv, TypeOK
  <2> QED BY <2>1 DEF StartInv, PlaceInv, Names, Registers
<1>5. CountInv'
  BY <1>2 DEF StartInv, CountInv, Starting, Mailbox, Counted
<1>6. ReadyInv' /\ FetchedInv'
  BY <1>1 DEF StartInv, ReadyInv, FetchedInv, Mailbox, Names
<1> QED BY <1>3, <1>4, <1>5, <1>6 DEF StartInv

(* What a call knows is kept while the counter stands and it moves on alone. *)
LEMMA KnowsKept ==
  ASSUME CountInv, Starting, KeepsBusy, numReplied' = numReplied
  PROVE  \A v \in Containers : CallKnows(v)'
BY DEF CountInv, KeepsBusy, Busy, CallKnows, PastCount

LEMMA StartIndexes ==
  ASSUME IInv, StartInv, NEW v \in Containers, RegisterIndexes(v)
  PROVE  StartInv'
<1>1. call \in [Containers -> CallState]
  BY DEF IInv, TypeOK
<1>2. call' = [call EXCEPT ![v] = "indexed"] /\ call[v] = "received" /\ vPc[v] = "registering"
  BY DEF RegisterIndexes, Registers
<1>3. \A w \in Containers : Present(w)' <=> Present(w)
  BY <1>1, <1>2 DEF RegisterIndexes, vehicleVars, Present
<1>4. Counted' = Counted
  BY <1>3, CountedSame
<1>5. PhaseInv'
  BY DEF StartInv, PhaseInv, RegisterIndexes, simVars
<1>6. PlaceInv'
  <2>1. \A i \in DOMAIN clients : clients[i] \in Containers /\ clients[i] # v
    BY <1>2, LenProperties DEF IInv, TypeOK, StartInv, PlaceInv, Registers
  <2> QED BY <1>1, <1>2, <2>1 DEF StartInv, PlaceInv, Names, Registers, RegisterIndexes, vehicleVars
<1>7. CountInv'
  <2>1. KeepsBusy
    BY <1>1, <1>2 DEF KeepsBusy, Busy, PastCount, RegisterIndexes
  <2> QED BY <1>4, <2>1, KnowsKept
          DEF StartInv, CountInv, Starting, Mailbox, Counted, RegisterIndexes, simVars, vehicleVars
<1>8. ReadyInv' /\ FetchedInv'
  BY <1>3 DEF StartInv, ReadyInv, FetchedInv, Mailbox, Names, RegisterIndexes, simVars, vehicleVars
<1> QED BY <1>5, <1>6, <1>7, <1>8 DEF StartInv

LEMMA StartAppends ==
  ASSUME IInv, StartInv, NEW v \in Containers, RegisterAppends(v)
  PROVE  StartInv'
<1> DEFINE n == Len(clients)
<1>1. call \in [Containers -> CallState]
  BY DEF IInv, TypeOK
<1>2. call' = [call EXCEPT ![v] = "counted"] /\ call[v] = "indexed" /\ vPc[v] = "registering"
  BY DEF RegisterAppends, Registers, IInv, IndexInv
<1>3. \A w \in Containers : Present(w)' <=> Present(w)
  BY <1>1, <1>2 DEF RegisterAppends, vehicleVars, Present
<1>4. Counted' = Counted
  BY <1>3, CountedSame
<1>5. PhaseInv'
  BY DEF StartInv, PhaseInv, RegisterAppends, simVars
<1>6. \A i, w : Names(i, w) => Names(i, w)'
  BY NamesAppend DEF RegisterAppends
<1>7. PlaceInv'
  <2>1. clients \in Seq(Containers) /\ n \in Nat /\ DOMAIN clients = 1 .. n
    BY LenProperties DEF IInv, TypeOK
  <2>2. /\ DOMAIN clients' = 1 .. n + 1 /\ clients'[n + 1] = v
        /\ \A i \in 1 .. n : clients'[i] = clients[i]
    <3>1. clients' = Append(clients, v)
      BY DEF RegisterAppends
    <3> QED BY <2>1, <3>1, AppendProperties, LenProperties
  <2>3. \A i \in 1 .. n : clients[i] \in Containers /\ clients[i] # v
    BY <1>2, <2>1 DEF StartInv, PlaceInv, Registers
  <2>4. \A i, j \in DOMAIN clients' : clients'[i] = clients'[j] => i = j
    <3>1. \A i \in DOMAIN clients' : i \in 1 .. n \/ i = n + 1
      BY <2>1, <2>2
    <3>2. \A i, j \in 1 .. n : clients[i] = clients[j] => i = j
      BY <2>1 DEF StartInv, PlaceInv
    <3> QED BY <2>2, <2>3, <3>1, <3>2
  <2>5. \A i \in DOMAIN clients' :
          /\ vPc'[clients'[i]] # "boot"
          /\ vPc'[clients'[i]] = "registering" => call'[clients'[i]] \notin {"received", "indexed"}
    <3> SUFFICES ASSUME NEW i \in 1 .. n + 1
                 PROVE  /\ vPc'[clients'[i]] # "boot"
                        /\ vPc'[clients'[i]] = "registering" => call'[clients'[i]] \notin {"received", "indexed"}
      BY <2>2
    <3>1. vPc' = vPc
      BY DEF RegisterAppends, vehicleVars
    <3>2. CASE i = n + 1
      BY <1>1, <1>2, <2>2, <3>1, <3>2
    <3>3. CASE i \in 1 .. n
      <4>1. clients'[i] = clients[i] /\ clients[i] # v /\ clients[i] \in Containers
        BY <2>2, <2>3, <3>3
      <4>2. call'[clients[i]] = call[clients[i]]
        BY <1>1, <1>2, <4>1
      <4>3. /\ vPc[clients[i]] # "boot"
            /\ vPc[clients[i]] = "registering" => call[clients[i]] \notin {"received", "indexed"}
        BY <2>1, <3>3 DEF StartInv, PlaceInv, Registers
      <4> QED BY <3>1, <4>1, <4>2, <4>3 DEF Registers
    <3> QED BY <2>1, <3>2, <3>3
  <2>6. \A w \in Containers :
          serverUp' /\ vPc'[w] \in {"setup", "carla", "firstGet", "driving", "crashed"}
            => Names(idx[w], w)'
    <3> SUFFICES ASSUME NEW w \in Containers,
                        vPc[w] \in {"setup", "carla", "firstGet", "driving", "crashed"}
                 PROVE  Names(idx[w], w)'
      BY DEF RegisterAppends, vehicleVars
    <3>1. Names(idx[w], w)
      BY DEF StartInv, PlaceInv, RegisterAppends
    <3>2. idx' = idx
      BY DEF RegisterAppends, vehicleVars
    <3> QED BY <1>6, <3>1, <3>2 DEF Names
  <2> QED BY <2>4, <2>5, <2>6 DEF PlaceInv, Registers, Names
<1>8. CountInv'
  <2>1. KeepsBusy
    BY <1>1, <1>2 DEF KeepsBusy, Busy, PastCount, RegisterAppends
  <2> QED BY <1>4, <2>1, KnowsKept
          DEF StartInv, CountInv, Starting, Mailbox, Counted, RegisterAppends, simVars, vehicleVars
<1>9. ReadyInv' /\ FetchedInv'
  <2>1. ~Present(v)
    BY <1>2 DEF Present
  <2>2. simPc \notin {"fetch", "ready", "ticked"}
    BY <2>1 DEF StartInv, ReadyInv
  <2> QED BY <2>2 DEF ReadyInv, FetchedInv, RegisterAppends, simVars
<1> QED BY <1>5, <1>7, <1>8, <1>9 DEF StartInv
(* One more is counted, and its index is not yet in the mailbox. *)
LEMMA StartCarlaUpdate ==
  ASSUME IInv, StartInv, NEW v \in Containers, RegisterCarlaUpdate(v)
  PROVE  StartInv'
<1> DEFINE n == Len(pending)
<1>1. call \in [Containers -> CallState] /\ pending \in Seq(Nat) /\ n \in Nat
  BY LenProperties DEF IInv, TypeOK
<1>2. /\ call' = [call EXCEPT ![v] = "counted"] /\ call[v] = "received" /\ vPc[v] = "carla"
      /\ Names(idx[v], v) /\ idx[v] \in Nat
  BY DEF RegisterCarlaUpdate, Registers, IInv, IndexInv, Names
<1>3. \A w \in Containers \ {v} : Present(w)' <=> Present(w)
  BY <1>1, <1>2 DEF RegisterCarlaUpdate, vehicleVars, Present
<1>4. ~Present(v) /\ Present(v)'
  BY <1>1, <1>2 DEF RegisterCarlaUpdate, vehicleVars, Present
<1>5. Counted' = Counted \union {v} /\ v \notin Counted
  BY <1>3, <1>4 DEF Counted
<1>6. simPc \notin {"fetch", "ready", "ticked"}
  BY <1>4 DEF StartInv, ReadyInv
<1>7. PhaseInv'
  BY DEF StartInv, PhaseInv, RegisterCarlaUpdate, simVars
<1>8. PlaceInv'
  <2>1. \A i \in DOMAIN clients : clients[i] \in Containers
    BY LenProperties DEF IInv, TypeOK
  <2> QED BY <1>1, <1>2, <2>1 DEF StartInv, PlaceInv, Names, Registers, RegisterCarlaUpdate,
                                  vehicleVars
<1>9. CountInv'
  <2> SUFFICES ASSUME Starting PROVE CountInv'
    BY DEF CountInv, Starting, RegisterCarlaUpdate, simVars
  <2>1. /\ numReplied = n /\ n = Cardinality(Counted)
        /\ \A w \in Containers : CallKnows(w)
        /\ simQ > 0 => numReplied = N
        /\ Mailbox = {idx[w] : w \in Counted}
        /\ \A i, j \in DOMAIN pending : pending[i] = pending[j] => i = j
    BY DEF StartInv, CountInv
  <2>2. numReplied # N
    BY <1>5, EverybodyCounted DEF StartInv
  <2>3. /\ pending' = Append(pending, idx[v]) /\ numReplied' = numReplied + 1
        /\ UNCHANGED <<simQ, simPc, idx>>
    BY DEF RegisterCarlaUpdate, KeepsAndCounts, simVars, vehicleVars
  <2>4. /\ Len(pending') = n + 1 /\ DOMAIN pending = 1 .. n /\ DOMAIN pending' = 1 .. n + 1
        /\ pending'[n + 1] = idx[v] /\ \A i \in 1 .. n : pending'[i] = pending[i]
    BY <1>1, <1>2, <2>3, AppendProperties, LenProperties
  <2>5. Cardinality(Counted') = n + 1
    <3>1. IsFiniteSet(Counted)
      BY FS_Subset, RegistrationAssumption DEF Counted
    <3> QED BY <1>5, <2>1, <3>1, FS_AddElement
  <2>6. Mailbox' = {idx[w] : w \in Counted}'
    <3>1. \A i \in DOMAIN pending' : i \in 1 .. n \/ i = n + 1
      BY <1>1, <2>4
    <3>2. Mailbox' = Mailbox \union {idx[v]}
      BY <1>1, <2>4, <3>1 DEF Mailbox
    <3> QED BY <1>5, <2>1, <2>3, <3>2
  <2>7. \A i \in 1 .. n : pending[i] # idx[v]
    <3> SUFFICES ASSUME NEW i \in 1 .. n, pending[i] = idx[v] PROVE FALSE
      OBVIOUS
    <3> pending[i] \in Mailbox
      BY <2>4 DEF Mailbox
    <3>1. PICK w \in Counted : pending[i] = idx[w]
      BY <2>1
    <3>2. w \in Containers /\ Names(idx[w], w)
      BY <3>1 DEF Counted, Present, StartInv, PlaceInv, Starting
    <3>3. w = v
      BY <1>2, <3>1, <3>2 DEF Names
    <3> QED BY <1>5, <3>1, <3>3
  <2>8. \A i, j \in DOMAIN pending' : pending'[i] = pending'[j] => i = j
    <3>1. \A i \in DOMAIN pending' : i \in 1 .. n \/ i = n + 1
      BY <1>1, <2>4
    <3> QED BY <2>1, <2>4, <2>7, <3>1
  <2>9. ~(simQ' > 0 \/ simPc' = "fetch")
    BY <1>6, <2>1, <2>2, <2>3
  <2>10. \A w \in Containers : CallKnows(w)'
    <3>1. \A w \in Containers : call'[w] \notin PastCount
      BY <1>1, <1>2, <2>1, <2>2 DEF CallKnows, PastCount
    <3>2. /\ \A w \in Containers : call'[w] = "loaded" => call[w] = "loaded"
          /\ replies' = replies /\ replies \in [Containers -> Nat] /\ numReplied \in Nat
      BY <1>1, <1>2 DEF RegisterCarlaUpdate, IInv, TypeOK
    <3>3. \A w \in Containers : call'[w] = "loaded" => replies'[w] <= numReplied'
      BY <2>1, <2>3, <3>2 DEF CallKnows
    <3> QED BY <3>1, <3>3 DEF CallKnows, PastCount
  <2> QED BY <2>1, <2>3, <2>4, <2>5, <2>6, <2>8, <2>9, <2>10 DEF CountInv
<1>10. ReadyInv' /\ FetchedInv'
  BY <1>6 DEF ReadyInv, FetchedInv, RegisterCarlaUpdate, simVars
<1> QED BY <1>7, <1>8, <1>9, <1>10 DEF StartInv

(* Before the simulation is released there is nothing to abort for. *)
LEMMA StartAborts ==
  ASSUME IInv, StartInv, NEW v \in Containers, RegisterAborts(v)
  PROVE  StartInv'
<1>1. simPc \in {"start", "ready", "ticked", "failed"}
  <2>1. CASE ~configured
    BY <2>1 DEF StartInv, PhaseInv
  <2>2. CASE Starting /\ configured
    BY <2>2 DEF StartInv, CountInv, CallKnows, PastCount, RegisterAborts
  <2> QED BY <2>1, <2>2 DEF Starting, RegisterAborts
<1>2. /\ ~serverUp'
      /\ UNCHANGED <<simPc, got, configured, numCars, clients, pending, call, vPc, idx>>
  BY DEF RegisterAborts, simVars, callVars, vehicleVars
<1>3. PhaseInv' /\ PlaceInv' /\ CountInv'
  BY <1>1, <1>2 DEF StartInv, PhaseInv, PlaceInv, CountInv, Starting, Registers
<1>4. ReadyInv' /\ FetchedInv'
  BY <1>2 DEF StartInv, ReadyInv, FetchedInv, Present, Names, Mailbox
<1> QED BY <1>3, <1>4 DEF StartInv

LEMMA StartPuts ==
  ASSUME IInv, StartInv, NEW v \in Containers, PushPuts(v)
  PROVE  StartInv'
<1>1. /\ call \in [Containers -> CallState] /\ call[v] = "cleared"
      /\ call' = [call EXCEPT ![v] = "finished"]
      /\ UNCHANGED <<simPc, got, serverUp, configured, numCars, clients, numReplied, pending,
                     replies, vPc, idx>>
  BY DEF PushPuts, IInv, TypeOK, serverVars, vehicleVars
<1>2. \A w \in Containers : Present(w)' <=> Present(w)
  BY <1>1 DEF Present
<1>3. Counted' = Counted
  BY <1>2, CountedSame
<1>4. PhaseInv' /\ ReadyInv' /\ FetchedInv'
  BY <1>1, <1>2 DEF StartInv, PhaseInv, ReadyInv, FetchedInv, Names, Mailbox
<1>5. PlaceInv'
  <2>1. \A i \in DOMAIN clients : clients[i] \in Containers
    BY LenProperties DEF IInv, TypeOK
  <2> QED BY <1>1, <2>1 DEF StartInv, PlaceInv, Names, Registers
<1>6. CountInv'
  <2> SUFFICES ASSUME Starting PROVE CountInv'
    BY <1>1 DEF CountInv, Starting
  <2>1. KeepsBusy
    BY <1>1 DEF KeepsBusy, Busy, PastCount
  <2>2. \A w \in Containers : CallKnows(w)'
    BY <1>1, <2>1, KnowsKept DEF StartInv
  <2>3. numReplied = N
    BY <1>1 DEF StartInv, CountInv, CallKnows, PastCount
  <2> QED BY <1>1, <1>3, <2>2, <2>3 DEF StartInv, CountInv, Starting, Mailbox, Counted
<1> QED BY <1>4, <1>5, <1>6 DEF StartInv

(* A call that is compared in time is compared with the number of vehicles. *)
LEMMA StartCompares ==
  ASSUME IInv, StartInv, NEW v \in Containers, RegisterCompares(v), ~early'
  PROVE  StartInv'
<1>1. /\ call \in [Containers -> CallState] /\ replies \in [Containers -> Nat] /\ call[v] = "loaded"
      /\ \/ replies[v] = numCars /\ call' = [call EXCEPT ![v] = "complete"] /\ replies' = replies
         \/ call' = [call EXCEPT ![v] = "finished"] /\ replies' = [replies EXCEPT ![v] = 0]
      /\ UNCHANGED <<simVars, serverVars, vehicleVars>>
  BY DEF RegisterCompares, RegistrationComplete, Forgets, IInv, TypeOK
<1>2. simPc \notin {"start", "starting"}
  BY DEF RegisterCompares
<1>3. ASSUME CountInv, Starting PROVE \A w \in Containers : CallKnows(w)'
  <2>1. numCars = N /\ numReplied \in Nat /\ N \in Nat
    BY <1>2, <1>3, FS_CardinalityType, RegistrationAssumption
    DEF StartInv, PhaseInv, Starting, IInv, TypeOK, N
  <2>2. replies[v] <= numReplied /\ numReplied <= N
    BY <1>1, <1>3, RepliedBounded DEF CountInv, CallKnows
  <2>3. call'[v] = "complete" => replies'[v] = N /\ numReplied = N
    BY <1>1, <2>1, <2>2
  <2>4. CallKnows(v)'
    BY <1>1, <2>3 DEF CallKnows, PastCount, serverVars
  <2>5. \A w \in Containers \ {v} : CallKnows(w)'
    BY <1>1, <1>3 DEF CountInv, CallKnows, serverVars
  <2> QED BY <2>4, <2>5
<1> QED BY <1>1, <1>3, StartFrame DEF simVars, serverVars, vehicleVars

LEMMA StartHandler ==
  ASSUME IInv, StartInv, NEW v \in Containers, Handler(v), ~early'
  PROVE  StartInv'
<1> USE DEF simVars, serverVars, vehicleVars, CallKnows, CountInv, PastCount
<1>0. /\ call \in [Containers -> CallState] /\ replies \in [Containers -> Nat]
      /\ numReplied \in Nat
  BY DEF IInv, TypeOK
<1>1. CASE RegisterLoads(v)
  BY <1>0, <1>1, StartFrame DEF RegisterLoads
<1>2. CASE RegisterAsserts(v)
  BY <1>0, <1>2, StartFrame DEF RegisterAsserts, Forgets
<1>3. CASE PushJudges(v)
  BY <1>0, <1>3, StartFrame DEF PushJudges
<1>4. CASE PushRecords(v)
  BY <1>0, <1>4, StartFrame DEF PushRecords
<1> QED BY <1>1, <1>2, <1>3, <1>4, StartCompares, StartIndexes, StartAppends, StartCarlaUpdate,
           StartAborts, StartPuts DEF Handler
-----------------------------------------------------------------------------
(* The simulation releases itself with a full house ... *)
LEMMA StartGets == ASSUME IInv, StartInv, SimGets PROVE StartInv'
<1>1. /\ simPc = "await" /\ simPc' = "fetch" /\ simQ > 0
      /\ UNCHANGED <<serverUp, configured, numCars, clients, numReplied, pending, call, replies,
                     vPc, idx>>
  BY DEF SimGets, serverVars, callVars, vehicleVars
<1>2. Starting
  BY <1>1 DEF StartInv, PhaseInv, Starting
<1>3. numReplied = N /\ Counted = Containers
  BY <1>1, <1>2, EverybodyCounted DEF StartInv, CountInv
<1>4. \A v \in Containers : Present(v) /\ Names(idx[v], v)
  BY <1>2, <1>3 DEF Counted, Present, StartInv, PlaceInv, Starting
<1>5. ReadyInv' /\ FetchedInv'
  BY <1>1, <1>4 DEF ReadyInv, FetchedInv, Present, Names
<1>6. PhaseInv' /\ PlaceInv'
  BY <1>1, <1>2 DEF StartInv, PhaseInv, PlaceInv, Names, Registers, Starting
<1>7. CountInv'
  <2>1. KeepsBusy
    BY <1>1 DEF KeepsBusy
  <2>2. \A v \in Containers : CallKnows(v)'
    BY <1>1, <1>2, <2>1, KnowsKept DEF StartInv
  <2>3. Counted' = Counted
    BY <1>1 DEF Counted, Present
  <2> QED BY <1>1, <1>2, <1>3, <2>2, <2>3 DEF StartInv, CountInv, Mailbox
<1> QED BY <1>5, <1>6, <1>7 DEF StartInv

(* ... and what it does not fetch stays in the mailbox. *)
LEMMA StartFetches == ASSUME IInv, StartInv, SimFetches PROVE StartInv'
<1> DEFINE n == Len(pending)  a == IF n <= BatchSize THEN 1 ELSE n - BatchSize
<1>1. /\ simPc = "fetch" /\ simPc' = "ready" /\ serverUp
      /\ got' = {pending[i] : i \in a .. n} /\ pending' = SubSeq(pending, 1, Kept)
      /\ UNCHANGED <<serverUp, configured, numCars, clients, call, vPc, idx>>
  BY DEF SimFetches, callVars, vehicleVars
<1>2. pending \in Seq(Nat) /\ n \in Nat /\ DOMAIN pending = 1 .. n /\ BatchSize \in Nat
  BY LenProperties, RegistrationAssumption DEF IInv, TypeOK
<1>3. /\ n = N /\ Counted = Containers /\ Mailbox = {idx[v] : v \in Containers}
      /\ \A i, j \in DOMAIN pending : pending[i] = pending[j] => i = j
  <2>1. Starting
    BY <1>1 DEF Starting
  <2>2. numReplied = N /\ numReplied = n
    BY <1>1, <2>1 DEF StartInv, CountInv
  <2> QED BY <2>1, <2>2, EverybodyCounted DEF StartInv, CountInv
<1>4. Mailbox = 0 .. N-1
  BY <1>1, <1>3, IndicesComplete DEF StartInv, ReadyInv
<1>5. a \in 1 .. n + 1 /\ Kept = a - 1
  <2>1. n # 0
    BY <1>3, FS_EmptySet, RegistrationAssumption DEF N
  <2> QED BY <1>2, <2>1 DEF Kept
<1>6. /\ Len(pending') = a - 1 /\ DOMAIN pending' = 1 .. a - 1
      /\ \A i \in 1 .. a - 1 : pending'[i] = pending[i]
  BY <1>1, <1>2, <1>5, SubSeqProperties, LenProperties
<1>7. got' \union Mailbox' = Mailbox
  <2>1. Mailbox' = {pending[i] : i \in 1 .. a - 1}
    BY <1>6 DEF Mailbox
  <2>2. \A i : i \in 1 .. n <=> i \in 1 .. a - 1 \/ i \in a .. n
    BY <1>2, <1>5
  <2> HIDE DEF a, n
  <2> QED BY <1>1, <1>2, <2>1, <2>2 DEF Mailbox
<1>8. Cardinality(got') = n - a + 1
  <2> DEFINE f == [i \in a .. n |-> pending[i]]
  <2>1. \A i \in a .. n : i \in DOMAIN pending
    BY <1>2, <1>5
  <2>2. f \in Injection(a .. n, got')
    BY <1>1, <1>3, <2>1 DEF Injection, IsInjective
  <2>3. f \in Bijection(a .. n, got')
    BY <1>1, <2>2 DEF Bijection, Surjection
  <2>4. ExistsBijection(a .. n, got')
    BY <2>3 DEF ExistsBijection
  <2>5. a \in Int /\ n \in Int /\ (a > n => n - a + 1 = 0)
    BY <1>2, <1>5
  <2>6. IsFiniteSet(a .. n) /\ Cardinality(a .. n) = n - a + 1
    BY <2>5, FS_Interval
  <2> QED BY <2>4, <2>6, FS_Bijection
<1>9. FetchedInv'
  <2> HIDE DEF a, n
  <2>1. got' \union Mailbox' = 0 .. N-1
    BY <1>4, <1>7
  <2>2. Cardinality(got') + Len(pending') = N
    BY <1>2, <1>3, <1>5, <1>6, <1>8
  <2>3. N' = N
    BY DEF N
  <2> QED BY <2>1, <2>2, <2>3 DEF FetchedInv
<1>10. PhaseInv' /\ PlaceInv' /\ CountInv' /\ ReadyInv'
  BY <1>1 DEF StartInv, PhaseInv, PlaceInv, CountInv, Starting, ReadyInv, Present, Names, Registers
<1> QED BY <1>9, <1>10 DEF StartInv

LEMMA StartSim == ASSUME IInv, StartInv, Sim PROVE StartInv'
<1> DEFINE Same == UNCHANGED <<serverUp, clients, numReplied, pending, call, replies, vPc, idx>>
<1>1. ASSUME Same, simPc' \notin {"fetch", "ready", "ticked"}, PhaseInv',
             simQ' = simQ, simPc \in {"ready", "ticked", "failed"} => simPc' = "failed"
      PROVE  StartInv'
  <2>1. PlaceInv' /\ ReadyInv' /\ FetchedInv'
    BY <1>1 DEF StartInv, PlaceInv, ReadyInv, FetchedInv, Present, Names, Registers
  <2>2. CountInv'
    BY <1>1 DEF StartInv, CountInv, CallKnows, Starting, Counted, Present, Mailbox, PastCount
  <2> QED BY <1>1, <2>1, <2>2 DEF StartInv
<1>2. CASE Server_StartScenario
  BY <1>1, <1>2 DEF Server_StartScenario, PhaseInv, callVars, vehicleVars
<1>6. CASE StartScenarioSetsNumCars
  BY <1>1, <1>6
  DEF StartScenarioSetsNumCars, NumCars, StartInv, PhaseInv, callVars, vehicleVars
<1>3. CASE SimAwaits
  BY <1>1, <1>3 DEF SimAwaits, StartInv, PhaseInv, serverVars, callVars, vehicleVars
<1>4. CASE Server_DoTick
  <2>1. PhaseInv' /\ PlaceInv' /\ CountInv' /\ ReadyInv' /\ FetchedInv'
    BY <1>4 DEF Server_DoTick, StartInv, PhaseInv, PlaceInv, CountInv, Starting, ReadyInv,
                FetchedInv, Present, Names, Registers, callVars, vehicleVars
  <2> QED BY <2>1 DEF StartInv
<1>5. CASE SimCallFails
  BY <1>1, <1>5 DEF SimCallFails, StartInv, PhaseInv, serverVars, callVars, vehicleVars
<1> QED BY <1>2, <1>3, <1>4, <1>5, <1>6, StartGets, StartFetches DEF Sim
-----------------------------------------------------------------------------
LEMMA CountFrame ==
  ASSUME StartInv, UNCHANGED <<simPc, simQ, serverUp, numReplied, pending, idx>>,
         Counted' = Counted, KeepsBusy
  PROVE  CountInv'
<1> SUFFICES ASSUME Starting PROVE CountInv'
  BY DEF CountInv, Starting
<1>1. /\ numReplied = Len(pending) /\ numReplied = Cardinality(Counted)
      /\ simQ > 0 \/ simPc = "fetch" => numReplied = N
      /\ Mailbox = {idx[v] : v \in Counted}
      /\ \A i, j \in DOMAIN pending : pending[i] = pending[j] => i = j
  BY DEF StartInv, CountInv
<1>2. Mailbox' = {idx[v] : v \in Counted}'
  BY <1>1 DEF Mailbox
<1>3. \A v \in Containers : CallKnows(v)'
  BY KnowsKept DEF StartInv
<1> QED BY <1>1, <1>2, <1>3 DEF CountInv

LEMMA StartVehicle ==
  ASSUME IInv, StartInv, NEW v \in Containers, Vehicle(v) \/ FirstPush(v)
  PROVE  StartInv'
<1>0. /\ call \in [Containers -> CallState] /\ vPc \in [Containers -> VehiclePc]
      /\ idx \in [Containers -> Int]
      /\ \A i \in DOMAIN clients : clients[i] \in Containers
  BY LenProperties DEF IInv, TypeOK
<1> USE DEF simVars, serverVars, callVars
<1>1. CASE FirstPush(v)
  BY <1>1, StartFrame DEF FirstPush, CountInv, CallKnows, PastCount
<1>2. CASE VehicleFirstGet(v)
  <2>1. /\ vPc[v] = "firstGet" /\ vPc' = [vPc EXCEPT ![v] = "driving"]
        /\ UNCHANGED <<simVars, serverVars, call, replies, idx>>
    BY <1>2 DEF VehicleFirstGet
  <2>2. \A w \in Containers : Present(w)' <=> Present(w)
    BY <1>0, <2>1 DEF Present
  <2>3. PlaceInv'
    BY <1>0, <2>1 DEF StartInv, PlaceInv, Names, Registers
  <2>4. CountInv'
    <3>1. Counted' = Counted
      BY <2>2, CountedSame
    <3> QED BY <2>1, <3>1 DEF StartInv, CountInv, CallKnows, Starting, Mailbox, PastCount
  <2>5. PhaseInv' /\ ReadyInv' /\ FetchedInv'
    BY <2>1, <2>2 DEF StartInv, PhaseInv, ReadyInv, FetchedInv, Names, Mailbox
  <2> QED BY <2>3, <2>4, <2>5 DEF StartInv
<1>3. CASE VehicleIsRegistered(v)
  <2>1. /\ vPc[v] = "carla" /\ call[v] = "finished" /\ call' = [call EXCEPT ![v] = "none"]
        /\ \E to \in {"crashed", "firstGet"} : vPc' = [vPc EXCEPT ![v] = to]
        /\ UNCHANGED <<simVars, serverVars, replies, idx>>
    BY <1>3 DEF VehicleIsRegistered
  <2>2. \A w \in Containers : Present(w)' <=> Present(w)
    BY <1>0, <2>1 DEF Present
  <2>3. PlaceInv'
    BY <1>0, <2>1 DEF StartInv, PlaceInv, Names, Registers
  <2>4. KeepsBusy
    BY <1>0, <2>1 DEF KeepsBusy, Busy, PastCount
  <2>5. CountInv'
    BY <2>1, <2>2, <2>4, CountedSame, CountFrame
  <2>6. PhaseInv' /\ ReadyInv' /\ FetchedInv'
    BY <2>1, <2>2 DEF StartInv, PhaseInv, ReadyInv, FetchedInv, Names, Mailbox
  <2> QED BY <2>3, <2>5, <2>6 DEF StartInv
<1>4. CASE VehicleRegisters(v) \/ VehicleSendsCarlaData(v)
  <2>1. /\ call' = [call EXCEPT ![v] = "received"] /\ UNCHANGED <<simVars, serverVars, replies, idx>>
        /\ \/ vPc[v] = "boot" /\ vPc' = [vPc EXCEPT ![v] = "registering"]
           \/ vPc[v] = "setup" /\ vPc' = [vPc EXCEPT ![v] = "carla"]
    BY <1>4 DEF VehicleRegisters, VehicleSendsCarlaData
  <2>2. \A w \in Containers : Present(w)' <=> Present(w)
    BY <1>0, <2>1 DEF Present
  <2>3. PlaceInv'
    BY <1>0, <2>1 DEF StartInv, PlaceInv, Names, Registers
  <2>4. KeepsBusy
    BY <1>0, <2>1 DEF KeepsBusy, Busy, PastCount
  <2>5. CountInv'
    BY <2>1, <2>2, <2>4, CountedSame, CountFrame
  <2>6. PhaseInv' /\ ReadyInv' /\ FetchedInv'
    BY <2>1, <2>2 DEF StartInv, PhaseInv, ReadyInv, FetchedInv, Names, Mailbox
  <2> QED BY <2>3, <2>5, <2>6 DEF StartInv
<1>5. CASE VehicleTakesIndex(v)
  <2>1. /\ vPc[v] = "registering" /\ vPc' = [vPc EXCEPT ![v] = "setup"]
        /\ call[v] = "finished" /\ call' = [call EXCEPT ![v] = "none"]
        /\ idx' = [idx EXCEPT ![v] = reply[v]] /\ Names(reply[v], v)
        /\ UNCHANGED <<simVars, serverVars, replies>>
    BY <1>5 DEF VehicleTakesIndex, IInv, IndexInv, Registers
  <2>2. \A w \in Containers : Present(w)' <=> Present(w)
    BY <1>0, <2>1 DEF Present
  <2>3. ~Present(v) /\ simPc \notin {"fetch", "ready", "ticked"}
    BY <2>1 DEF Present, StartInv, ReadyInv
  <2>4. PlaceInv'
    BY <1>0, <2>1 DEF StartInv, PlaceInv, Names, Registers
  <2>5. KeepsBusy
    BY <1>0, <2>1 DEF KeepsBusy, Busy, PastCount
  <2>6. Counted' = Counted /\ \A w \in Counted : idx'[w] = idx[w]
    BY <1>0, <2>1, <2>2, <2>3, CountedSame DEF Counted
  <2>7. CountInv'
    <3>1. {idx'[w] : w \in Counted'} = {idx[w] : w \in Counted}
      BY <2>6
    <3> QED BY <2>1, <2>5, <2>6, <3>1, KnowsKept DEF StartInv, CountInv, Starting, Mailbox
  <2>8. PhaseInv' /\ ReadyInv' /\ FetchedInv'
    BY <2>1, <2>3 DEF StartInv, PhaseInv, ReadyInv, FetchedInv
  <2> QED BY <2>4, <2>7, <2>8 DEF StartInv
<1>6. CASE VehicleCallFails(v)
  <2>1. /\ ~serverUp /\ vPc' = [vPc EXCEPT ![v] = "crashed"]
        /\ UNCHANGED <<simVars, serverVars, call, replies, idx>>
    BY <1>6 DEF VehicleCallFails
  <2>2. \A w \in Containers : Present(w) => Present(w)'
    BY <1>0, <2>1 DEF Present
  <2>3. PlaceInv' /\ CountInv'
    BY <1>0, <2>1 DEF StartInv, PlaceInv, CountInv, Starting, Registers
  <2>4. PhaseInv' /\ ReadyInv' /\ FetchedInv'
    BY <2>1, <2>2 DEF StartInv, PhaseInv, ReadyInv, FetchedInv, Names, Mailbox
  <2> QED BY <2>3, <2>4 DEF StartInv
<1> QED BY <1>1, <1>2, <1>3, <1>4, <1>5, <1>6 DEF Vehicle

(* What was early stays early. *)
LEMMA EarlyStays == ASSUME [Next]_vars PROVE early => early'
BY DEF Next, Sim, Handler, Vehicle, FirstPush, Server_StartScenario, StartScenarioSetsNumCars,
       SimAwaits, SimGets, SimFetches, Server_DoTick, SimCallFails, RegisterIndexes,
       RegisterAppends, RegisterCarlaUpdate, RegisterLoads, RegisterCompares, RegisterAsserts,
       RegisterAborts, PushJudges, PushRecords, PushPuts, VehicleRegisters, VehicleTakesIndex,
       VehicleSendsCarlaData, VehicleIsRegistered, VehicleFirstGet, VehicleCallFails, vars

(* The counter, the mailbox and the places agree until the first tick,     *)
(* unless a call was compared with numCars_ before that was set.           *)
THEOREM StartInductive == Spec => [](IInv /\ (InTime => StartInv))
<1>1. IInv /\ (InTime => StartInv) /\ [Next]_vars => (InTime => StartInv)'
  <2> SUFFICES ASSUME IInv, InTime => StartInv, [Next]_vars, ~early' PROVE StartInv'
    BY DEF InTime
  <2>1. StartInv
    BY EarlyStays DEF InTime
  <2>2. CASE UNCHANGED vars
    BY <2>1, <2>2, StartFrame
    DEF vars, simVars, serverVars, callVars, vehicleVars, CountInv, CallKnows, PastCount
  <2> QED BY <2>1, <2>2, StartSim, StartHandler, StartVehicle DEF Next
<1> QED BY <1>1, StartInit, RegistrationInductive, PTL DEF Spec

(* When the simulation is released every vehicle is there, with the index  *)
(* of its place, and what the fetch leaves out is still in the mailbox,    *)
(* unless a call was compared with numCars_ before that was set.           *)
THEOREM StartsCompleteHolds == Spec => []StartsComplete
<1>1. IInv /\ (InTime => StartInv) => StartsComplete
  <2> SUFFICES ASSUME IInv, StartInv PROVE StartsComplete
    BY DEF StartsComplete
  <2>1. simPc \in {"fetch", "ready", "ticked"} => {idx[v] : v \in Containers} = 0 .. N-1
    BY IndicesComplete DEF StartInv, ReadyInv
  <2> QED BY <2>1 DEF StartInv, FetchedInv, Mailbox, StartsComplete
<1> QED BY <1>1, StartInductive, PTL

(* No assertion of the server fails before the simulation is released,     *)
(* with the same exception.                                                *)
THEOREM AbortsOnlyAfterReleaseHolds == Spec => []AbortsOnlyAfterRelease
<1>1. (InTime => StartInv) => AbortsOnlyAfterRelease
  BY DEF StartInv, PhaseInv, AbortsOnlyAfterRelease
<1> QED BY <1>1, StartInductive, PTL
-----------------------------------------------------------------------------
(* The start of the scenario never stands still: the safety core of        *)
(* SimulationStarts.                                                       *)

Awaiting == serverUp /\ simPc \in {"start", "starting", "started", "await"}

(* v's call ends in a release: it loads or has loaded the last reply, or   *)
(* its push was not taken for a repetition.                                *)
Wakes(v) ==
  \/ call[v] = "loaded" /\ replies[v] = N
  \/ call[v] \in {"counted", "complete", "push", "cleared"}
  \/ call[v] = "judged" /\ ~dupe[v]

(* The first release that is remembered is also queued: whoever finds it   *)
(* repeated was overtaken by it.                                           *)
WakeInv ==
  Awaiting =>
    /\ numReplied = N => simQ > 0 \/ \E v \in Containers : Wakes(v)
    /\ simLast => simQ > 0 \/ \E v \in Containers : call[v] = "cleared"
    /\ \A v \in Containers : call[v] = "judged" /\ dupe[v] => simLast

(* Nobody is pushed to, or lost, before the first tick. *)
AliveInv ==
  Awaiting =>
    /\ firstPushes = {}
    /\ \A v \in Containers :
         /\ ~vQ[v] /\ vPc[v] \notin {"driving", "crashed"}
         /\ Registers(v) => call[v] # "none"

(* v, or its call at the server, has a step to take. *)
Moves(v) ==
  \/ vPc[v] \in {"boot", "setup"}
  \/ call[v] = "received" /\ mu = Nobody
  \/ call[v] \in {"indexed", "counted", "loaded", "complete", "push", "judged", "cleared"}
  \/ vPc[v] = "registering" /\ call[v] = "finished"

StartNeverStuck ==
  InTime /\ simPc = "await" /\ serverUp =>
    /\ simQ > 0 \/ \E v \in Containers : Moves(v)
    /\ numReplied = N => simQ > 0 \/ \E v \in Containers : Wakes(v)
-----------------------------------------------------------------------------
LEMMA AwaitTypes ==
  ASSUME IInv
  PROVE  /\ call \in [Containers -> CallState] /\ vPc \in [Containers -> VehiclePc]
         /\ vQ \in [Containers -> BOOLEAN] /\ dupe \in [Containers -> BOOLEAN]
         /\ simLast \in BOOLEAN /\ simQ \in Nat /\ replies \in [Containers -> Nat]
BY DEF IInv, TypeOK

LEMMA WakeInit == Init => WakeInv /\ AliveInv
<1>1. Init => N # 0
  BY RegistrationAssumption, FS_EmptySet DEF N
<1> QED BY <1>1 DEF Init, WakeInv, AliveInv, Registers

LEMMA WakeSim == ASSUME WakeInv, AliveInv, Sim PROVE WakeInv' /\ AliveInv'
<1>1. CASE Server_StartScenario \/ StartScenarioSetsNumCars \/ SimAwaits
  <2>1. Awaiting' => Awaiting
    BY <1>1 DEF Server_StartScenario, StartScenarioSetsNumCars, SimAwaits, Awaiting, serverVars
  <2>2. UNCHANGED <<simQ, simLast, numReplied, firstPushes, callVars, vehicleVars>>
    BY <1>1 DEF Server_StartScenario, StartScenarioSetsNumCars, SimAwaits, serverVars
  <2> QED BY <2>1, <2>2 DEF WakeInv, AliveInv, Wakes, Registers, callVars, vehicleVars
<1>2. CASE SimGets \/ SimFetches \/ Server_DoTick \/ SimCallFails
  <2>1. ~Awaiting'
    BY <1>2 DEF SimGets, SimFetches, Server_DoTick, SimCallFails, Awaiting, serverVars
  <2> QED BY <2>1 DEF WakeInv, AliveInv
<1> QED BY <1>1, <1>2 DEF Sim

(* A call that moves on, by which nobody is pushed to or leaves. *)
LEMMA AliveHandler ==
  ASSUME IInv, AliveInv, NEW v \in Containers, Handler(v) PROVE AliveInv'
<1> USE AwaitTypes
<1>1. UNCHANGED <<simPc, firstPushes, vPc, vQ>> /\ (serverUp' => serverUp)
  BY DEF Handler, RegisterIndexes, RegisterAppends, RegisterCarlaUpdate, RegisterLoads,
         RegisterCompares, RegisterAsserts, RegisterAborts, PushJudges, PushRecords, PushPuts, simVars, serverVars,
         vehicleVars
<1>2. \A w \in Containers : call[w] # "none" => call'[w] # "none"
  BY DEF Handler, RegisterIndexes, RegisterAppends, RegisterCarlaUpdate, RegisterLoads,
         RegisterCompares, RegisterAsserts, RegisterAborts, PushJudges, PushRecords, PushPuts, callVars
<1> QED BY <1>1, <1>2 DEF AliveInv, Awaiting, Registers

LEMMA WakeHandler ==
  ASSUME IInv, StartInv, WakeInv, NEW v \in Containers, Handler(v), ~early'
  PROVE  WakeInv'
<1> USE AwaitTypes DEF WakeInv, Awaiting, Wakes
<1> SUFFICES ASSUME Awaiting' PROVE WakeInv'
  OBVIOUS
<1>1. Awaiting /\ UNCHANGED simPc
  BY DEF Handler, RegisterIndexes, RegisterAppends, RegisterCarlaUpdate, RegisterLoads,
         RegisterCompares, RegisterAsserts, RegisterAborts, PushJudges, PushRecords, PushPuts, simVars, serverVars
<1>2. CASE RegisterIndexes(v) \/ RegisterAppends(v) \/ RegisterCarlaUpdate(v)
  <2>1. /\ call[v] \in {"received", "indexed"} /\ UNCHANGED <<simQ, simLast, dupe, replies>>
        /\ \/ call' = [call EXCEPT ![v] = "indexed"] /\ UNCHANGED numReplied
           \/ call' = [call EXCEPT ![v] = "counted"]
    BY <1>2 DEF RegisterIndexes, RegisterAppends, RegisterCarlaUpdate, simVars
  <2>2. \A w \in Containers :
          /\ call[w] \in {"counted", "loaded", "complete", "push", "cleared", "judged"}
               => call'[w] = call[w]
          /\ call'[w] = "judged" => call[w] = "judged"
    BY <2>1
  <2>3. numReplied' = N => \/ numReplied = N
                           \/ call'[v] = "counted"
    BY <2>1
  <2> QED BY <1>1, <2>1, <2>2, <2>3
<1>3. CASE RegisterLoads(v)
  <2>1. /\ call' = [call EXCEPT ![v] = "loaded"] /\ replies' = [replies EXCEPT ![v] = numReplied]
        /\ call[v] = "counted" /\ UNCHANGED <<simQ, simLast, dupe, numReplied>>
    BY <1>3 DEF RegisterLoads, simVars, serverVars
  <2> QED BY <1>1, <2>1
<1>9. CASE RegisterCompares(v)
  <2>1. simPc \notin {"start", "starting"} /\ numCars = N
    BY <1>1, <1>9 DEF RegisterCompares, StartInv, PhaseInv
  <2>2. /\ \/ call' = [call EXCEPT ![v] = "complete"] /\ replies' = replies
           \/ /\ replies[v] # N
              /\ call' = [call EXCEPT ![v] = "finished"] /\ replies' = [replies EXCEPT ![v] = 0]
        /\ call[v] = "loaded" /\ UNCHANGED <<simQ, simLast, dupe, numReplied>>
    BY <1>9, <2>1 DEF RegisterCompares, RegistrationComplete, Forgets, simVars, serverVars
  <2>3. \A w \in Containers \ {v} : call'[w] = call[w] /\ replies'[w] = replies[w]
    BY <2>2
  <2>4. \A w \in Containers : Wakes(w) => Wakes(w)'
    BY <2>2, <2>3
  <2> QED BY <1>1, <2>2, <2>3, <2>4
<1>4. CASE RegisterAsserts(v)
  <2>1. /\ call' = [call EXCEPT ![v] = "push"] /\ replies' = [replies EXCEPT ![v] = 0]
        /\ call[v] = "complete" /\ UNCHANGED <<simQ, simLast, dupe, numReplied>>
    BY <1>4 DEF RegisterAsserts, Forgets, simVars, serverVars
  <2> QED BY <1>1, <2>1
<1>5. CASE PushJudges(v)
  <2>1. /\ call' = [call EXCEPT ![v] = "judged"] /\ dupe' = [dupe EXCEPT ![v] = simLast]
        /\ call[v] = "push" /\ UNCHANGED <<simQ, simLast, numReplied, replies>>
    BY <1>5 DEF PushJudges, IsDupe, simVars, serverVars
  <2>2. \A w \in Containers : call[w] = "cleared" => call'[w] = "cleared"
    BY <2>1
  <2>3. \A w \in Containers : call'[w] = "judged" /\ dupe'[w] => simLast
    BY <1>1, <2>1
  <2>4. numReplied = N => simQ > 0 \/ \E w \in Containers : Wakes(w)'
    <3>1. CASE simLast
      BY <1>1, <2>2, <3>1
    <3>2. CASE ~simLast
      BY <2>1, <3>2
    <3> QED BY <3>1, <3>2
  <2> QED BY <1>1, <2>1, <2>2, <2>3, <2>4
<1>6. CASE PushRecords(v)
  <2>1. /\ call' = [call EXCEPT ![v] = IF simQ > 0 \/ dupe[v] THEN "finished" ELSE "cleared"]
        /\ call[v] = "judged" /\ simLast' = TRUE /\ UNCHANGED <<simQ, dupe, numReplied, replies>>
    BY <1>6 DEF PushRecords, serverVars
  <2>2. simQ > 0 \/ \E w \in Containers : call'[w] = "cleared"
    <3>1. CASE ~dupe[v]
      BY <2>1, <3>1
    <3>2. CASE dupe[v]
      <4>1. simLast
        BY <1>1, <2>1, <3>2
      <4> QED BY <1>1, <2>1, <4>1
    <3> QED BY <3>1, <3>2
  <2> QED BY <1>1, <2>1, <2>2
<1>7. CASE PushPuts(v)
  <2>1. simQ' > 0 /\ UNCHANGED <<simLast, dupe>> /\ call' = [call EXCEPT ![v] = "finished"]
    BY <1>7 DEF PushPuts
  <2> QED BY <1>1, <2>1
<1>8. ~RegisterAborts(v)
  BY DEF RegisterAborts
<1> QED BY <1>2, <1>3, <1>4, <1>5, <1>6, <1>7, <1>8, <1>9 DEF Handler

LEMMA WakeVehicle ==
  ASSUME IInv, WakeInv, AliveInv, NEW v \in Containers, Vehicle(v) \/ FirstPush(v)
  PROVE  WakeInv' /\ AliveInv'
<1> USE AwaitTypes
<1> SUFFICES ASSUME Awaiting' PROVE WakeInv' /\ AliveInv'
  BY DEF WakeInv, AliveInv
<1>1. Awaiting /\ UNCHANGED <<simQ, simLast, numReplied, replies, dupe>>
  BY DEF Vehicle, VehicleRegisters, VehicleTakesIndex, VehicleSendsCarlaData, VehicleIsRegistered,
         VehicleFirstGet, VehicleCallFails, FirstPush, simVars, serverVars, callVars, Awaiting
<1>2. ~VehicleFirstGet(v) /\ ~VehicleCallFails(v) /\ ~FirstPush(v)
  BY <1>1 DEF AliveInv, Awaiting, VehicleFirstGet, VehicleCallFails, FirstPush
<1>3. /\ UNCHANGED <<firstPushes, vQ>>
      /\ \A w \in Containers \ {v} : call'[w] = call[w] /\ vPc'[w] = vPc[w]
      /\ call[v] \in {"none", "finished"} /\ call'[v] \in {"none", "received"}
      /\ vPc'[v] \in {"registering", "setup", "carla", "firstGet"}
      /\ vPc'[v] = "registering" => call'[v] = "received"
  BY <1>1, <1>2 DEF IInv, IndexInv, AliveInv, Awaiting, Vehicle, VehicleRegisters,
                    VehicleTakesIndex, VehicleSendsCarlaData, VehicleIsRegistered
<1>4. WakeInv'
  <2>1. \A w \in Containers : Wakes(w) => Wakes(w)'
    BY <1>1, <1>3 DEF Wakes
  <2> QED BY <1>1, <1>3, <2>1 DEF WakeInv
<1>5. AliveInv'
  BY <1>1, <1>3 DEF AliveInv, Registers
<1> QED BY <1>4, <1>5

(* A vehicle that has not been counted has a step to take, or the vehicle  *)
(* that holds mu_ has.                                                     *)
LEMMA MissingMoves ==
  ASSUME IInv, StartInv, AliveInv, Awaiting, numReplied # N
  PROVE  \E v \in Containers : Moves(v)
<1>1. Counted # Containers
  BY DEF StartInv, CountInv, Starting, Awaiting, N
<1>2. PICK v \in Containers : ~Present(v)
  BY <1>1 DEF Counted
<1>3. \/ vPc[v] \in {"boot", "setup"}
      \/ vPc[v] = "registering" /\ call[v] # "none"
      \/ vPc[v] = "carla" /\ call[v] = "received"
  BY <1>2, AwaitTypes DEF Present, VehiclePc, AliveInv, Registers
<1>4. CASE call[v] = "received" /\ mu # Nobody
  <2>1. mu \in Containers /\ call[mu] = "indexed"
    BY <1>4 DEF IInv, LockInv, TypeOK
  <2> QED BY <2>1 DEF Moves
<1>5. CASE ~(call[v] = "received" /\ mu # Nobody)
  BY <1>3, <1>5, AwaitTypes DEF Moves, CallState
<1> QED BY <1>4, <1>5

(* While the simulation awaits the vehicles and the server lives, a tick   *)
(* is queued for it or somebody has a step to take; and once the last      *)
(* registration is counted, the tick is queued or the call that queues it  *)
(* is on its way: is_dupe drops a release only in favour of another one.   *)
THEOREM StartNeverStuckHolds == Spec => []StartNeverStuck
<1>1. Init => WakeInv /\ AliveInv
  BY WakeInit
<1>2. /\ IInv /\ (InTime => StartInv) /\ (InTime => WakeInv /\ AliveInv) /\ [Next]_vars
      => (InTime => WakeInv /\ AliveInv)'
  <2> SUFFICES ASSUME IInv, InTime => StartInv /\ WakeInv /\ AliveInv, [Next]_vars, ~early'
               PROVE  WakeInv' /\ AliveInv'
    BY DEF InTime
  <2>0. StartInv /\ WakeInv /\ AliveInv
    BY EarlyStays DEF InTime
  <2>1. CASE UNCHANGED vars
    BY <2>0, <2>1 DEF vars, simVars, serverVars, callVars, vehicleVars, WakeInv, AliveInv,
                      Awaiting, Wakes, Registers
  <2> QED BY <2>0, <2>1, WakeSim, WakeHandler, AliveHandler, WakeVehicle DEF Next
<1>3. IInv /\ (InTime => StartInv) /\ (InTime => WakeInv /\ AliveInv) => StartNeverStuck
  <2> SUFFICES ASSUME IInv, StartInv, WakeInv, AliveInv, simPc = "await", serverUp
               PROVE  /\ simQ > 0 \/ \E v \in Containers : Moves(v)
                      /\ numReplied = N => simQ > 0 \/ \E v \in Containers : Wakes(v)
    BY DEF StartNeverStuck
  <2>1. numReplied = N => simQ > 0 \/ \E v \in Containers : Wakes(v)
    BY DEF WakeInv, Awaiting
  <2>2. \A v \in Containers : Wakes(v) => Moves(v)
    BY DEF Wakes, Moves
  <2> QED BY <2>1, <2>2, MissingMoves DEF Awaiting
<1> QED BY <1>1, <1>2, <1>3, StartInductive, PTL DEF Spec
=============================================================================
