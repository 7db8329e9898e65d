------------------------ MODULE EdgeWaypoints_proofs ------------------------
(***************************************************************************)
(* The waypoints of an edge scenario reach every vehicle whole, once, in   *)
(* order and one pull late, although the two handlers take no lock: for    *)
(* any number of vehicles, any period and any number of ticks.             *)
(***************************************************************************)
EXTENDS EdgeWaypoints, SequenceTheorems, TLAPS

Types ==
  /\ simPc \in {"loop", "pushing", "pushed", "round"}
  /\ tick \in 0 .. MaxTick
  /\ replied \subseteq Vehicles /\ done \subseteq Vehicles
  /\ pushes \subseteq [to : Vehicles, tick : Nat]
  /\ held \in Buffer /\ filling \in BOOLEAN
  /\ vPc \in [Vehicles -> {"get", "fetch", "fetching", "step", "exited", "crashed"}]
  /\ vQ \in [Vehicles -> Nat] /\ vTick \in [Vehicles -> Nat]
  /\ reading \in [Vehicles -> Buffer]
  /\ wpList \in [Vehicles -> Seq(Buffer)]
  /\ latest \in [Vehicles -> Buffer]
  /\ override \in [Vehicles -> Nat]

(* Between two pushes the server holds the last one, whole. *)
HeldInv ==
  /\ filling <=> simPc = "pushing"
  /\ simPc \in {"pushing", "pushed"} => tick < MaxTick /\ IsPull(tick + 1)
  /\ ~filling => held.pull = Pulls(tick) + (IF simPc = "pushed" THEN 1 ELSE 0)

(* A vehicle that takes part and has not answered the open round has one   *)
(* piece of work, the current tick; the others have none.                  *)
Unanswered(v) == simPc = "round" /\ v \notin replied
WorkOf(v) ==
  /\ \A p \in pushes : p.to = v =>
       p.tick = tick /\ Unanswered(v) /\ vPc[v] = "get" /\ vQ[v] = 0 /\ vTick[v] = tick - 1
  /\ vQ[v] # 0 => vQ[v] = tick /\ Unanswered(v) /\ vPc[v] = "get" /\ vTick[v] = tick - 1
  /\ vPc[v] # "get" => vPc[v] \in {"fetch", "fetching", "step"} /\ Unanswered(v) /\ vTick[v] = tick
  /\ ~Unanswered(v) => vTick[v] = tick
  /\ Fetching(v) => IsPull(tick)
  /\ vPc[v] = "fetching" => reading[v] = held
WorkInv == \A v \in Vehicles \ done : WorkOf(v)

(* Its list has the pushes of the ticks it has executed. *)
Missing(v) == IF Fetching(v) THEN 1 ELSE 0
ListOf(v) ==
  /\ Len(wpList[v]) = Pulls(vTick[v]) - Missing(v)
  /\ \A i \in 1 .. Len(wpList[v]) : wpList[v][i].pull = i
  /\ override[v] = 0 \/ override[v] < Len(wpList[v])
  /\ vPc[v] = "get" /\ Len(wpList[v]) >= 2 => latest[v].c = wpList[v][Len(wpList[v]) - 1].c
ListInv == \A v \in Vehicles \ done : ListOf(v)

IInv == Types /\ HeldInv /\ WorkInv /\ ListInv
-----------------------------------------------------------------------------
(* The pushes up to a tick. *)

LEMMA PullsFacts ==
  ASSUME NEW n \in Nat
  PROVE  /\ Pulls(n) \in Nat /\ Pulls(0) = 0
         /\ Pulls(n + 1) = Pulls(n) + (IF IsPull(n + 1) THEN 1 ELSE 0)
<1> DEFINE k == PullEvery  q == n \div k  r == n % k
           p == (n + 1) \div k  s == (n + 1) % k
<1>1. k \in Nat /\ k > 1
  BY EdgeAssumption
<1>2. q \in Int /\ r \in 0 .. k - 1 /\ n = k * q + r
  BY <1>1
<1>3. p \in Int /\ s \in 0 .. k - 1 /\ n + 1 = k * p + s
  BY <1>1
<1> QED BY <1>1, <1>2, <1>3 DEF Pulls, IsPull

LEMMA PullsNow ==
  ASSUME Types
  PROVE  /\ tick \in Nat /\ Pulls(tick) \in Nat /\ Pulls(0) = 0
         /\ Pulls(tick + 1) = Pulls(tick) + (IF IsPull(tick + 1) THEN 1 ELSE 0)
<1>1. tick \in Nat
  BY EdgeAssumption DEF Types
<1> QED BY <1>1, PullsFacts

LEMMA OneBefore ==
  ASSUME NEW t \in Nat, t - 1 \in Nat
  PROVE  Pulls(t) = Pulls(t - 1) + (IF IsPull(t) THEN 1 ELSE 0)
<1>1. (t - 1) + 1 = t
  OBVIOUS
<1> QED BY <1>1, PullsFacts
-----------------------------------------------------------------------------
(* The simulation *)

LEMMA InitInv == Init => IInv
<1> SUFFICES ASSUME Init PROVE IInv
  OBVIOUS
<1>1. NoBuffer \in Buffer
  BY DEF NoBuffer, Buffer
<1>2. Types
  <2>1. <<>> \in Seq(Buffer)
    OBVIOUS
  <2>2. wpList \in [Vehicles -> Seq(Buffer)]
    BY <2>1 DEF Init
  <2>3. reading \in [Vehicles -> Buffer] /\ latest \in [Vehicles -> Buffer]
    BY <1>1 DEF Init
  <2>4. /\ vPc \in [Vehicles -> {"get", "fetch", "fetching", "step", "exited", "crashed"}]
        /\ vQ \in [Vehicles -> Nat] /\ vTick \in [Vehicles -> Nat]
        /\ override \in [Vehicles -> Nat]
    BY DEF Init
  <2>5. /\ simPc \in {"loop", "pushing", "pushed", "round"} /\ tick \in 0 .. MaxTick
        /\ replied \subseteq Vehicles /\ done \subseteq Vehicles
        /\ filling \in BOOLEAN /\ held \in Buffer
    <3>1. tick \in 0 .. MaxTick
      BY EdgeAssumption DEF Init
    <3> QED BY <1>1, <3>1 DEF Init
  <2>6. pushes \subseteq [to : Vehicles, tick : Nat]
    BY DEF Init
  <2> QED BY <2>2, <2>3, <2>4, <2>5, <2>6 DEF Types
<1>3. HeldInv
  BY PullsFacts DEF Init, HeldInv, NoBuffer
<1>4. WorkInv
  BY DEF Init, WorkInv, WorkOf, Unanswered, Fetching
<1>5. ListInv
  BY PullsFacts DEF Init, ListInv, ListOf, Missing, Fetching
<1> QED BY <1>2, <1>3, <1>4, <1>5 DEF IInv

LEMMA ClearsInv == IInv /\ PushEdgeWaypointsClears => IInv'
<1> SUFFICES ASSUME IInv, PushEdgeWaypointsClears PROVE IInv'
  OBVIOUS
<1> USE DEF PushEdgeWaypointsClears, roundVars, vehicleVars, wpVars, IInv
<1>1. NoBuffer \in Buffer
  BY DEF NoBuffer, Buffer
<1>2. Types'
  BY <1>1 DEF Types
<1>3. HeldInv'
  BY DEF HeldInv
<1>4. WorkInv'
  BY DEF WorkInv, WorkOf, Unanswered, Fetching
<1>5. ListInv'
  BY DEF ListInv, ListOf, Missing, Fetching
<1> QED BY <1>2, <1>3, <1>4, <1>5

LEMMA FillsInv == IInv /\ PushEdgeWaypointsFills => IInv'
<1> SUFFICES ASSUME IInv, PushEdgeWaypointsFills PROVE IInv'
  OBVIOUS
<1> USE DEF PushEdgeWaypointsFills, roundVars, vehicleVars, wpVars, IInv
<1>1. simPc = "pushing" /\ simPc' = "pushed"
  BY DEF HeldInv
<1>2. held' \in Buffer /\ held'.pull = Pulls(tick) + 1
  BY PullsNow DEF Buffer
<1>3. Types'
  BY <1>1, <1>2 DEF Types
<1>4. HeldInv'
  BY <1>1, <1>2 DEF HeldInv
<1>5. WorkInv'
  BY <1>1 DEF WorkInv, WorkOf, Unanswered, Fetching
<1>6. ListInv'
  BY DEF ListInv, ListOf, Missing, Fetching
<1> QED BY <1>3, <1>4, <1>5, <1>6

LEMMA BroadcastsInv == IInv /\ SimBroadcasts => IInv'
<1> SUFFICES ASSUME IInv, SimBroadcasts PROVE IInv'
  OBVIOUS
<1> USE DEF SimBroadcasts, vehicleVars, wpVars, IInv
<1>1. tick \in Nat /\ tick' = tick + 1
  BY PullsNow
<1>2. Types'
  BY <1>1, EdgeAssumption DEF Types
<1>3. HeldInv'
  BY <1>1, PullsNow DEF PushReturned, HeldInv
<1>4. WorkInv'
  <2> SUFFICES ASSUME NEW v \in Vehicles \ done PROVE WorkOf(v)'
    BY DEF WorkInv
  <2>1. WorkOf(v) /\ ~Unanswered(v)
    BY DEF WorkInv, PushReturned, Unanswered
  <2>2. vPc[v] = "get" /\ vQ[v] = 0 /\ vTick[v] = tick /\ \A p \in pushes : p.to # v
    BY <2>1 DEF WorkOf
  <2> QED BY <1>1, <2>2 DEF WorkOf, Unanswered, Fetching
<1>5. ListInv'
  BY DEF ListInv, ListOf, Missing, Fetching
<1> QED BY <1>2, <1>3, <1>4, <1>5

LEMMA ReleasedInv == IInv /\ SimReleased => IInv'
<1> SUFFICES ASSUME IInv, SimReleased PROVE IInv'
  OBVIOUS
<1> USE DEF SimReleased, roundVars, vehicleVars, wpVars, IInv
<1>1. Types' /\ HeldInv'
  BY DEF Types, HeldInv
<1>2. WorkInv'
  BY DEF WorkInv, WorkOf, Unanswered, Fetching, EverybodyAnswered
<1>3. ListInv'
  BY DEF ListInv, ListOf, Missing, Fetching
<1> QED BY <1>1, <1>2, <1>3

LEMMA PushTickInv == IInv /\ (\E p \in pushes : PushTick(p)) => IInv'
<1> SUFFICES ASSUME IInv, NEW p \in pushes, PushTick(p) PROVE IInv'
  OBVIOUS
<1> USE DEF PushTick, simVars, roundVars, wpVars, IInv
<1>1. p.to \in Vehicles /\ p.tick \in Nat /\ p = [to |-> p.to, tick |-> p.tick]
  BY DEF Types
<1>2. Types' /\ HeldInv'
  BY <1>1 DEF Types, HeldInv
<1>3. WorkInv'
  <2> SUFFICES ASSUME NEW v \in Vehicles \ done PROVE WorkOf(v)'
    BY DEF WorkInv
  <2>1. WorkOf(v)
    BY DEF WorkInv
  <2>2. CASE p.to # v
    BY <1>1, <2>1, <2>2 DEF WorkOf, Unanswered, Fetching, Types
  <2>3. CASE p.to = v
    <3>1. vPc[v] = "get" /\ vQ[v] = 0 /\ vQ'[v] = tick /\ p.tick = tick
      BY <2>1, <2>3 DEF WorkOf, Types
    <3>2. \A o \in pushes : o.to = v => o = p
      <4> SUFFICES ASSUME NEW o \in pushes, o.to = v PROVE o = p
        OBVIOUS
      <4>1. o.tick = tick /\ o = [to |-> o.to, tick |-> o.tick]
        BY <2>1 DEF WorkOf, Types
      <4> QED BY <1>1, <2>3, <3>1, <4>1
    <3> QED BY <2>1, <2>3, <3>1, <3>2 DEF WorkOf, Unanswered, Fetching
  <2> QED BY <2>2, <2>3
<1>4. ListInv'
  BY DEF ListInv, ListOf, Missing, Fetching
<1> QED BY <1>2, <1>3, <1>4
-----------------------------------------------------------------------------
(* A vehicle.  What it does leaves the others' parts of the invariant. *)

LEMMA OthersKept ==
  ASSUME IInv, NEW v \in Vehicles, NEW u \in Vehicles, u # v,
         UNCHANGED <<simVars, pushes, held>>,
         Unanswered(u)' = Unanswered(u),
         vPc'[u] = vPc[u], vQ'[u] = vQ[u], vTick'[u] = vTick[u], reading'[u] = reading[u],
         wpList'[u] = wpList[u], latest'[u] = latest[u], override'[u] = override[u],
         u \notin done
  PROVE  WorkOf(u)' /\ ListOf(u)'
<1>1. WorkOf(u) /\ ListOf(u)
  BY DEF IInv, WorkInv, ListInv
<1>2. WorkOf(u)'
  BY <1>1 DEF WorkOf, Fetching, simVars
<1>3. ListOf(u)'
  BY <1>1 DEF ListOf, Missing, Fetching
<1> QED BY <1>2, <1>3

LEMMA VehicleGetsInv == \A v \in Vehicles : IInv /\ VehicleGets(v) => IInv'
<1> SUFFICES ASSUME NEW v \in Vehicles, IInv, VehicleGets(v) PROVE IInv'
  OBVIOUS
<1> USE DEF VehicleGets, simVars, roundVars, wpVars
<1>1. Types' /\ HeldInv'
  BY DEF IInv, Types, HeldInv
<1>2. ASSUME NEW u \in Vehicles \ done, u # v PROVE WorkOf(u)' /\ ListOf(u)'
  <2>1. /\ vPc'[u] = vPc[u] /\ vQ'[u] = vQ[u] /\ vTick'[u] = vTick[u]
        /\ Unanswered(u)' = Unanswered(u)
    BY <1>2 DEF IInv, Types, Unanswered
  <2> QED BY <1>2, <2>1, OthersKept
<1>3. ASSUME v \notin done PROVE WorkOf(v)' /\ ListOf(v)'
  <2>1. WorkOf(v) /\ ListOf(v)
    BY <1>3 DEF IInv, WorkInv, ListInv
  <2>2. /\ vQ[v] = tick /\ tick - 1 \in Nat /\ vTick[v] = tick - 1 /\ Unanswered(v)
        /\ vTick'[v] = tick /\ vQ'[v] = 0 /\ \A p \in pushes : p.to # v
        /\ vPc'[v] = IF IsPull(tick) THEN "fetch" ELSE "step"
    BY <2>1 DEF WorkOf, IInv, Types
  <2>3. Unanswered(v)' = Unanswered(v)
    BY DEF Unanswered
  <2>4. WorkOf(v)'
    BY <2>2, <2>3 DEF WorkOf, Fetching
  <2>5. Pulls(tick) = Pulls(tick - 1) + (IF IsPull(tick) THEN 1 ELSE 0)
    BY <2>2, OneBefore, PullsNow DEF IInv
  <2>6. Pulls(tick - 1) \in Nat
    BY <2>2, PullsFacts
  <2>7. Len(wpList[v]) = Pulls(tick - 1)
    BY <2>1, <2>2, <2>6 DEF ListOf, Missing, Fetching
  <2>8. Missing(v)' = IF IsPull(tick) THEN 1 ELSE 0
    BY <2>2 DEF Missing, Fetching
  <2>9. Len(wpList'[v]) = Pulls(vTick'[v]) - Missing(v)'
    BY <2>2, <2>5, <2>6, <2>7, <2>8
  <2> QED BY <2>1, <2>2, <2>4, <2>9 DEF ListOf
<1>4. WorkInv' /\ ListInv'
  BY <1>2, <1>3 DEF WorkInv, ListInv
<1> QED BY <1>1, <1>4 DEF IInv

LEMMA GetWaypointsStartsInv == \A v \in Vehicles : IInv /\ GetWaypointsStarts(v) => IInv'
<1> SUFFICES ASSUME NEW v \in Vehicles, IInv, GetWaypointsStarts(v) PROVE IInv'
  OBVIOUS
<1> USE DEF GetWaypointsStarts, simVars, roundVars, wpVars
<1>1. Types' /\ HeldInv'
  BY DEF IInv, Types, HeldInv
<1>2. ASSUME NEW u \in Vehicles \ done, u # v PROVE WorkOf(u)' /\ ListOf(u)'
  <2>1. /\ vPc'[u] = vPc[u] /\ reading'[u] = reading[u]
        /\ Unanswered(u)' = Unanswered(u)
    BY <1>2 DEF IInv, Types, Unanswered
  <2> QED BY <1>2, <2>1, OthersKept
<1>3. ASSUME v \notin done PROVE WorkOf(v)' /\ ListOf(v)'
  <2>1. WorkOf(v) /\ ListOf(v)
    BY <1>3 DEF IInv, WorkInv, ListInv
  <2>2. vPc[v] = "fetch" /\ vPc'[v] = "fetching" /\ reading'[v] = held
    BY DEF IInv, Types
  <2>3. Unanswered(v)' = Unanswered(v)
    BY DEF Unanswered
  <2>4. WorkOf(v)'
    BY <2>1, <2>2, <2>3 DEF WorkOf, Fetching
  <2> QED BY <2>1, <2>2, <2>4 DEF ListOf, Missing, Fetching
<1>4. WorkInv' /\ ListInv'
  BY <1>2, <1>3 DEF WorkInv, ListInv
<1> QED BY <1>1, <1>4 DEF IInv
LEMMA GetWaypointsReturnsInv == \A v \in Vehicles : IInv /\ GetWaypointsReturns(v) => IInv'
<1> SUFFICES ASSUME NEW v \in Vehicles, IInv, GetWaypointsReturns(v) PROVE IInv'
  OBVIOUS
<1> USE DEF GetWaypointsReturns, simVars, roundVars
<1>1. PICK b \in Answers(v) : EnqueueWp(v, b)
  OBVIOUS
<1>2. b \in Buffer
  <2>1. NoBuffer \in Buffer /\ held \in Buffer /\ reading[v] \in Buffer
    BY DEF NoBuffer, Buffer, IInv, Types
  <2> QED BY <1>1, <2>1 DEF Answers
<1>3. /\ wpList[v] \in Seq(Buffer)
      /\ wpList' = [wpList EXCEPT ![v] = Append(wpList[v], b)]
      /\ wpList \in [Vehicles -> Seq(Buffer)]
  BY <1>1 DEF EnqueueWp, IInv, Types
<1>4. /\ Append(wpList[v], b) \in Seq(Buffer)
      /\ Len(Append(wpList[v], b)) = Len(wpList[v]) + 1
      /\ \A i \in 1 .. Len(wpList[v]) : Append(wpList[v], b)[i] = wpList[v][i]
      /\ Append(wpList[v], b)[Len(wpList[v]) + 1] = b
      /\ Len(wpList[v]) \in Nat
  BY <1>2, <1>3
<1>5. Types' /\ HeldInv'
  <2>1. wpList' \in [Vehicles -> Seq(Buffer)]
    BY <1>3, <1>4
  <2>2. vPc' \in [Vehicles -> {"get", "fetch", "fetching", "step", "exited", "crashed"}]
    BY DEF IInv, Types
  <2>3. HeldInv'
    BY DEF IInv, HeldInv
  <2> QED BY <2>1, <2>2, <2>3 DEF IInv, Types
<1>6. ASSUME NEW u \in Vehicles \ done, u # v PROVE WorkOf(u)' /\ ListOf(u)'
  <2>1. vPc'[u] = vPc[u] /\ wpList'[u] = wpList[u] /\ Unanswered(u)' = Unanswered(u)
    BY <1>3, <1>6 DEF IInv, Types, Unanswered
  <2> QED BY <1>6, <2>1, OthersKept
<1>7. ASSUME v \notin done PROVE WorkOf(v)' /\ ListOf(v)'
  <2>1. WorkOf(v) /\ ListOf(v)
    BY <1>7 DEF IInv, WorkInv, ListInv
  <2>2. vPc[v] = "fetching" /\ vPc'[v] = "step" /\ wpList'[v] = Append(wpList[v], b)
    BY <1>3 DEF IInv, Types
  <2>3. Unanswered(v)' = Unanswered(v)
    BY DEF Unanswered
  <2>4. WorkOf(v)'
    BY <2>1, <2>2, <2>3 DEF WorkOf, Fetching
  <2>5. vTick[v] = tick /\ IsPull(tick) /\ reading[v] = held /\ simPc = "round"
    BY <2>1, <2>2 DEF WorkOf, Fetching, Unanswered
  <2>6. ~filling /\ held.pull = Pulls(tick) /\ Pulls(tick) \in Nat
    BY <2>5, PullsNow DEF IInv, HeldInv
  <2>7. b.pull = Pulls(tick)
    BY <1>1, <2>5, <2>6 DEF Answers
  <2>8. Len(wpList[v]) = Pulls(tick) - 1
    BY <2>1, <2>2, <2>5 DEF ListOf, Missing, Fetching
  <2>9. Len(wpList'[v]) = Pulls(vTick'[v]) - Missing(v)'
    BY <1>4, <2>2, <2>5, <2>6, <2>8 DEF Missing, Fetching
  <2>10. \A i \in 1 .. Len(wpList'[v]) : wpList'[v][i].pull = i
    <3> SUFFICES ASSUME NEW i \in 1 .. Len(wpList[v]) + 1 PROVE wpList'[v][i].pull = i
      BY <1>4, <2>2
    <3>1. CASE i \in 1 .. Len(wpList[v])
      BY <1>4, <2>1, <2>2, <3>1 DEF ListOf
    <3>2. CASE i = Len(wpList[v]) + 1
      BY <1>4, <2>2, <2>6, <2>7, <2>8, <3>2
    <3> QED BY <1>4, <3>1, <3>2
  <2>11. override[v] = 0 \/ override[v] < Len(wpList'[v])
    <3>1. override[v] \in Nat
      BY DEF IInv, Types
    <3> QED BY <1>4, <2>1, <2>2, <3>1 DEF ListOf
  <2> QED BY <2>2, <2>4, <2>9, <2>10, <2>11 DEF ListOf
<1>8. WorkInv' /\ ListInv'
  BY <1>6, <1>7 DEF WorkInv, ListInv
<1> QED BY <1>5, <1>8 DEF IInv

(* update_waypoints takes the push before the last. *)
LEMMA UpdateTypes ==
  ASSUME IInv, NEW v \in Vehicles, UpdateWaypoints(v)
  PROVE  /\ latest' \in [Vehicles -> Buffer] /\ override' \in [Vehicles -> Nat]
         /\ \A u \in Vehicles : u # v => latest'[u] = latest[u] /\ override'[u] = override[u]
<1>1. latest \in [Vehicles -> Buffer] /\ override \in [Vehicles -> Nat]
  BY DEF IInv, Types
<1>2. CASE ~FetchWp(v)
  BY <1>1, <1>2 DEF UpdateWaypoints
<1>3. CASE FetchWp(v)
  <2> DEFINE b == wpList[v][LatencyOffset(v)]
  <2>1. wpList[v] \in Seq(Buffer) /\ LatencyOffset(v) \in 1 .. Len(wpList[v])
    BY <1>3 DEF FetchWp, LatencyOffset, IInv, Types
  <2>2. b \in Buffer
    BY <2>1
  <2>3. b.pull \in Nat
    BY <2>2 DEF Buffer
  <2>4. /\ latest' = [latest EXCEPT ![v] = b]
        /\ override' = [override EXCEPT ![v] = b.pull] \/ override' = override
    BY <1>3 DEF UpdateWaypoints
  <2> HIDE DEF b
  <2> QED BY <1>1, <2>2, <2>3, <2>4
<1> QED BY <1>2, <1>3

LEMMA UpdateTries ==
  ASSUME IInv, NEW v \in Vehicles, ListOf(v), UpdateWaypoints(v)
  PROVE  /\ override'[v] = 0 \/ override'[v] < Len(wpList[v])
         /\ Len(wpList[v]) >= 2 => latest'[v].c = wpList[v][Len(wpList[v]) - 1].c
<1>1. /\ latest \in [Vehicles -> Buffer] /\ override \in [Vehicles -> Nat]
      /\ wpList[v] \in Seq(Buffer) /\ Len(wpList[v]) \in Nat
  BY DEF IInv, Types
<1>2. CASE ~FetchWp(v)
  BY <1>1, <1>2 DEF UpdateWaypoints, FetchWp, LatencyOffset, ListOf
<1>3. CASE FetchWp(v)
  <2> DEFINE n == Len(wpList[v])  b == wpList[v][n - 1]
  <2>1. n - 1 \in 1 .. n /\ n \in Nat
    BY <1>1, <1>3 DEF FetchWp, LatencyOffset
  <2>2. b.pull = n - 1
    BY <2>1 DEF ListOf
  <2>3. /\ latest' = [latest EXCEPT ![v] = b]
        /\ override' = [override EXCEPT ![v] = b.pull] \/ override' = override
    BY <1>3 DEF UpdateWaypoints, LatencyOffset
  <2>4. latest'[v] = b /\ (override'[v] = n - 1 \/ override'[v] = override[v])
    <3> HIDE DEF b
    <3> QED BY <1>1, <2>2, <2>3
  <2>5. override[v] = 0 \/ override[v] < n
    BY DEF ListOf
  <2> QED BY <2>1, <2>4, <2>5
<1> QED BY <1>2, <1>3
LEMMA VehicleAnswersInv == \A v \in Vehicles : IInv /\ VehicleAnswers(v) => IInv'
<1> SUFFICES ASSUME NEW v \in Vehicles, IInv, VehicleAnswers(v) PROVE IInv'
  OBVIOUS
<1> USE DEF VehicleAnswers, simVars
<1>1. /\ latest' \in [Vehicles -> Buffer] /\ override' \in [Vehicles -> Nat]
      /\ \A u \in Vehicles : u # v => latest'[u] = latest[u] /\ override'[u] = override[u]
  BY UpdateTypes
<1>2. Types' /\ HeldInv'
  <2>1. vPc' \in [Vehicles -> {"get", "fetch", "fetching", "step", "exited", "crashed"}]
    BY DEF IInv, Types
  <2>2. replied' \subseteq Vehicles /\ done' \subseteq Vehicles
    BY DEF IInv, Types
  <2>3. HeldInv'
    BY DEF IInv, HeldInv
  <2> QED BY <1>1, <2>1, <2>2, <2>3 DEF IInv, Types
<1>3. ASSUME NEW u \in Vehicles \ done', u # v PROVE WorkOf(u)' /\ ListOf(u)'
  <2>1. vPc'[u] = vPc[u] /\ Unanswered(u)' = Unanswered(u) /\ u \notin done
    BY <1>3 DEF IInv, Types, Unanswered
  <2> QED BY <1>1, <1>3, <2>1, OthersKept
<1>4. ASSUME v \notin done' PROVE WorkOf(v)' /\ ListOf(v)'
  <2>1. WorkOf(v) /\ ListOf(v)
    BY DEF IInv, WorkInv, ListInv
  <2>2. /\ vPc[v] = "step" /\ vPc'[v] = "get" /\ ~Unanswered(v)'
        /\ vTick[v] = tick /\ vQ[v] = 0 /\ \A p \in pushes : p.to # v
    BY <2>1 DEF WorkOf, Unanswered, IInv, Types
  <2>3. WorkOf(v)'
    BY <2>2 DEF WorkOf, Fetching
  <2>4. ListOf(v)'
    BY <2>1, <2>2, UpdateTries DEF ListOf, Missing, Fetching
  <2> QED BY <2>3, <2>4
<1>5. WorkInv' /\ ListInv'
  BY <1>3, <1>4 DEF WorkInv, ListInv
<1> QED BY <1>2, <1>5 DEF IInv

LEMMA VehicleStepsDoneInv == \A v \in Vehicles : IInv /\ VehicleStepsDone(v) => IInv'
<1> SUFFICES ASSUME NEW v \in Vehicles, IInv, VehicleStepsDone(v) PROVE IInv'
  OBVIOUS
<1> USE DEF VehicleStepsDone, simVars, roundVars
<1>1. /\ latest' \in [Vehicles -> Buffer] /\ override' \in [Vehicles -> Nat]
      /\ \A u \in Vehicles : u # v => latest'[u] = latest[u] /\ override'[u] = override[u]
  BY UpdateTypes
<1>2. Types' /\ HeldInv'
  <2>1. vPc' \in [Vehicles -> {"get", "fetch", "fetching", "step", "exited", "crashed"}]
    BY DEF IInv, Types
  <2>2. HeldInv'
    BY DEF IInv, HeldInv
  <2> QED BY <1>1, <2>1, <2>2 DEF IInv, Types
<1>3. ASSUME NEW u \in Vehicles \ done PROVE WorkOf(u)' /\ ListOf(u)'
  <2>1. u # v /\ vPc'[u] = vPc[u] /\ Unanswered(u)' = Unanswered(u)
    BY <1>3 DEF IInv, Types, Unanswered
  <2> QED BY <1>1, <1>3, <2>1, OthersKept
<1>4. WorkInv' /\ ListInv'
  BY <1>3 DEF WorkInv, ListInv
<1> QED BY <1>2, <1>4 DEF IInv
-----------------------------------------------------------------------------
LEMMA NextInv == IInv /\ [Next]_vars => IInv'
<1> SUFFICES ASSUME IInv, [Next]_vars PROVE IInv'
  OBVIOUS
<1>1. CASE PushEdgeWaypointsClears
  BY <1>1, ClearsInv
<1>2. CASE PushEdgeWaypointsFills
  BY <1>2, FillsInv
<1>3. CASE SimBroadcasts
  BY <1>3, BroadcastsInv
<1>4. CASE SimReleased
  BY <1>4, ReleasedInv
<1>5. CASE \E p \in pushes : PushTick(p)
  BY <1>5, PushTickInv
<1>6. CASE \E v \in Vehicles : Vehicle(v)
  BY <1>6, VehicleGetsInv, GetWaypointsStartsInv, GetWaypointsReturnsInv,
     VehicleAnswersInv, VehicleStepsDoneInv DEF Vehicle
<1>7. CASE UNCHANGED vars
  <2> USE <1>7 DEF vars, simVars, roundVars, vehicleVars, wpVars
  <2>1. Types' /\ HeldInv'
    BY DEF IInv, Types, HeldInv
  <2>2. WorkInv'
    BY DEF IInv, WorkInv, WorkOf, Unanswered, Fetching
  <2>3. ListInv'
    BY DEF IInv, ListInv, ListOf, Missing, Fetching
  <2> QED BY <2>1, <2>2, <2>3 DEF IInv
<1> QED BY <1>1, <1>2, <1>3, <1>4, <1>5, <1>6, <1>7 DEF Next

(* The invariant that the theorems rest on holds always. *)
THEOREM EdgeWaypointsInductive == Spec => []IInv
BY InitInv, NextInv, PTL DEF Spec
-----------------------------------------------------------------------------
(* Type correctness; the list of a vehicle that takes part is no longer    *)
(* than the pulls it has executed.                                         *)
THEOREM TypeCorrect == Spec => []TypeOK
<1>1. IInv => TypeOK
  <2> SUFFICES ASSUME IInv, NEW v \in Vehicles \ done PROVE Len(wpList[v]) <= Pulls(vTick[v])
    BY DEF IInv, Types, TypeOK
  <2>1. Pulls(vTick[v]) \in Nat
    BY PullsFacts DEF IInv, Types
  <2>2. Len(wpList[v]) = Pulls(vTick[v]) - Missing(v)
    BY DEF IInv, ListInv, ListOf
  <2> QED BY <2>1, <2>2 DEF Missing
<1> QED BY <1>1, EdgeWaypointsInductive, PTL

(* A vehicle that takes part fetches while the server holds the waypoints  *)
(* of the tick it executes, whole: the two handlers need no lock for it.   *)
THEOREM FetchSeesPushHolds == Spec => []FetchSeesPush
<1>1. IInv => FetchSeesPush
  <2> SUFFICES ASSUME IInv, NEW v \in Vehicles \ done, Fetching(v)
               PROVE  ~filling /\ held.pull = Pulls(vTick[v]) /\ vTick[v] = tick
    BY DEF FetchSeesPush
  <2>1. simPc = "round" /\ vTick[v] = tick
    BY DEF IInv, WorkInv, WorkOf, Unanswered, Fetching
  <2>2. ~filling /\ held.pull = Pulls(tick)
    BY <2>1, PullsNow DEF IInv, HeldInv
  <2> QED BY <2>1, <2>2
<1> QED BY <1>1, EdgeWaypointsInductive, PTL

(* After a round a vehicle that takes part has every push, once, in order. *)
THEOREM EveryPushFetchedHolds == Spec => []EveryPushFetched
<1>1. IInv => EveryPushFetched
  <2> SUFFICES ASSUME IInv, simPc # "round", NEW v \in Vehicles \ done
               PROVE  /\ Len(wpList[v]) = Pulls(tick)
                      /\ \A i \in DOMAIN wpList[v] : wpList[v][i].pull = i
    BY DEF EveryPushFetched
  <2>1. vPc[v] = "get" /\ vTick[v] = tick
    BY DEF IInv, WorkInv, WorkOf, Unanswered
  <2>2. Len(wpList[v]) = Pulls(tick) /\ \A i \in 1 .. Len(wpList[v]) : wpList[v][i].pull = i
    BY <2>1, PullsNow DEF IInv, ListInv, ListOf, Missing, Fetching
  <2>3. DOMAIN wpList[v] = 1 .. Len(wpList[v])
    BY DEF IInv, Types
  <2> QED BY <2>2, <2>3
<1> QED BY <1>1, EdgeWaypointsInductive, PTL

(* After a round the waypoints of the push before the last have been tried *)
(* and the planner runs on no newer ones.                                  *)
THEOREM OnePullLateHolds == Spec => []OnePullLate
<1>1. IInv => OnePullLate
  <2> SUFFICES ASSUME IInv, simPc # "round", NEW v \in Vehicles \ done
               PROVE  /\ Len(wpList[v]) >= 2 => latest[v].c = wpList[v][Len(wpList[v]) - 1].c
                      /\ Pulls(tick) > 0 => override[v] < Pulls(tick)
    BY DEF OnePullLate
  <2>1. vPc[v] = "get" /\ vTick[v] = tick
    BY DEF IInv, WorkInv, WorkOf, Unanswered
  <2>2. ListOf(v) /\ Pulls(tick) \in Nat
    BY PullsNow DEF IInv, ListInv
  <2>3. Len(wpList[v]) = Pulls(tick)
    BY <2>1, <2>2 DEF ListOf, Missing, Fetching
  <2> QED BY <2>1, <2>2, <2>3 DEF ListOf
<1> QED BY <1>1, EdgeWaypointsInductive, PTL
-----------------------------------------------------------------------------
(* The rounds are those of the barrier that Ecloud implements. *)

LEMMA BarrierOpen == ASSUME IInv, SimBroadcasts PROVE Barrier!Open
<1>1. simPc # "round" /\ simPc' = "round" /\ replied' = {} /\ done' = done /\ tick' = tick + 1
  BY DEF SimBroadcasts, PushReturned
<1> QED BY <1>1 DEF Barrier!Open

LEMMA BarrierAnswer ==
  ASSUME IInv, NEW v \in Vehicles, VehicleAnswers(v)
  PROVE  Barrier!Answer(v) \/ Barrier!Leave(v)
<1>1. simPc = "round" /\ v \notin replied /\ v \notin done
  BY DEF VehicleAnswers, IInv, WorkInv, WorkOf, Unanswered
<1>2. /\ replied' = replied \union {v} /\ UNCHANGED simVars
      /\ done' = done \/ done' = done \union {v}
  BY DEF VehicleAnswers
<1> QED BY <1>1, <1>2 DEF simVars, Barrier!Answer, Barrier!Leave

LEMMA BarrierStep == IInv /\ [Next]_vars => [Barrier!BNext]_(Barrier!bvars)
<1> SUFFICES ASSUME IInv, [Next]_vars PROVE [Barrier!BNext]_(Barrier!bvars)
  OBVIOUS
<1>1. ASSUME UNCHANGED <<tick, roundVars>>, simPc' = "round" <=> simPc = "round"
      PROVE  UNCHANGED Barrier!bvars
  BY <1>1 DEF roundVars, Barrier!bvars
<1>2. CASE SimBroadcasts
  BY <1>2, BarrierOpen DEF Barrier!BNext
<1>3. CASE SimReleased
  <2>1. Barrier!Release
    BY <1>3 DEF SimReleased, EverybodyAnswered, roundVars, Barrier!Release
  <2> QED BY <2>1 DEF Barrier!BNext
<1>4. CASE PushEdgeWaypointsClears
  BY <1>1, <1>4 DEF PushEdgeWaypointsClears
<1>5. CASE PushEdgeWaypointsFills
  BY <1>1, <1>5 DEF PushEdgeWaypointsFills
<1>6. CASE \E p \in pushes : PushTick(p)
  BY <1>1, <1>6 DEF PushTick, simVars
<1>7. ASSUME NEW v \in Vehicles, Vehicle(v) PROVE [Barrier!BNext]_(Barrier!bvars)
  <2>1. CASE VehicleAnswers(v)
    BY <2>1, BarrierAnswer DEF Barrier!BNext
  <2>2. CASE ~VehicleAnswers(v)
    BY <1>1, <1>7, <2>2 DEF Vehicle, VehicleGets, GetWaypointsStarts, GetWaypointsReturns,
                            VehicleStepsDone, simVars
  <2> QED BY <2>1, <2>2
<1>8. CASE UNCHANGED vars
  BY <1>1, <1>8 DEF vars, simVars
<1> QED BY <1>2, <1>3, <1>4, <1>5, <1>6, <1>7, <1>8 DEF Next

(* Every behaviour of the scenario is one of the barrier. *)
THEOREM ImplementsBarrierHolds == Spec => ImplementsBarrier
<1>1. Init => Barrier!BInit
  BY DEF Init, Barrier!BInit
<1> QED BY <1>1, BarrierStep, EdgeWaypointsInductive, PTL
        DEF Spec, ImplementsBarrier, Barrier!BSpec
=============================================================================
