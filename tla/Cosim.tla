-------------------------------- MODULE Cosim --------------------------------
(***************************************************************************)
(* The co-simulation of CARLA and SUMO (CoScenarioManager.tick). A vehicle *)
(* of SUMO gets a mirror in CARLA, which tick moves to where SUMO says; a  *)
(* vehicle of CARLA gets a twin in SUMO. Who is whose is kept in two       *)
(* dictionaries. Both simulators report vehicles that are new, and among   *)
(* them are the mirrors and the twins, which must get no mirror or twin    *)
(* themselves.                                                             *)
(*                                                                         *)
(* The tick is sequential, but vehicles come and go on both sides between  *)
(* its steps, every call into a simulator may be refused or raise, and the *)
(* user may interrupt it between any two: a vehicle is spawned first and   *)
(* recorded next, forgotten first and destroyed next. What SUMO does is    *)
(* seen at its simulationStep, what other clients do in CARLA at the next  *)
(* world.tick (get_actor and get_actors read the snapshot of the last      *)
(* one). Transforms, vehicle types and traffic lights are left out.        *)
(*                                                                         *)
(* A definition marked FAULT is not the code's: it is a plausible mistake  *)
(* in the definition that follows it, to try the properties against.       *)
(***************************************************************************)
EXTENDS Integers, Functions

CONSTANTS
  Trips,    \* the vehicles of SUMO's route file
  Actors    \* the ids CARLA gives to vehicles, each once

(* A twin is called 'carla' and a number, and no trip is.                  *)
Twins == Nat
ASSUME CosimAssumption == Trips \intersect Twins = {} /\ -1 \notin Actors \union Trips

VARIABLES
  phase,        \* "idle" between ticks, or the next part of the tick
  \* SUMO
  waiting,      \* trips that have not departed
  pending,      \* twins that were added and have not departed
  driving,      \* whoever is on its road
  \* CARLA
  unused,       \* ids that were not given yet
  alive,        \* its vehicles
  \* CoScenarioManager and SumoSimulation
  sumo2carla,   \* trip to mirror
  carla2sumo,   \* actor to twin
  sequentialId, \* _sequential_id
  active,       \* _active_actors
  toMirror,     \* sumo_spawned_actors that tick has still to spawn
  toTwin,       \* carla_spawned_actors that it has still to spawn
  sumoGone,     \* sumo.destroyed_actors
  carlaGone,    \* destroyed_actors
  \* what the statement under way holds: one vehicle at most
  newMirror,    \* <<trip, actor>>: spawned, and not in sumo2carla yet
  oldMirror,    \* popped from sumo2carla, and destroy_actor not called yet
  newTwin,      \* <<actor, twin>>: added, and not in carla2sumo yet
  oldTwin,      \* popped from carla2sumo, and not removed yet
  \* history, which the code does not keep
  mirrors,      \* the actors that were spawned for a trip
  arrived,      \* the twins that left SUMO by themselves
  vanished,     \* the mirrors that somebody else destroyed
  kept          \* the mirrors whose destroy failed

sumo == <<waiting, pending, driving>>
carla == <<unused, alive>>
ids == <<sumo2carla, carla2sumo, sequentialId>>
news == <<active, toMirror, toTwin, sumoGone, carlaGone>>
held == <<newMirror, oldMirror, newTwin, oldTwin>>
history == <<mirrors, arrived, vanished, kept>>
vars == <<phase, sumo, carla, ids, news, held, history>>

NoIds == [x \in {} |-> x]
Paired(map, key, id) ==
  [k \in DOMAIN map \union {key} |-> IF k = key THEN id ELSE map[k]]
Popped(map, keys) == Restrict(map, DOMAIN map \ keys)

Init ==
  /\ phase = "idle"
  /\ waiting = Trips /\ pending = {} /\ driving = {}
  /\ unused = Actors /\ alive = {}
  /\ sumo2carla = NoIds /\ carla2sumo = NoIds /\ sequentialId = 0
  /\ active = {} /\ toMirror = {} /\ toTwin = {} /\ sumoGone = {} /\ carlaGone = {}
  /\ newMirror = {} /\ oldMirror = {} /\ newTwin = {} /\ oldTwin = {}
  /\ mirrors = {} /\ arrived = {} /\ vanished = {} /\ kept = {}

(* A CAV of the script, or another client's vehicle. *)
VehicleSpawned ==
  /\ phase = "idle"
  /\ \E a \in unused : unused' = unused \ {a} /\ alive' = alive \union {a}
  /\ UNCHANGED <<phase, sumo, ids, news, held, history>>

-----------------------------------------------------------------------------
(* SUMO to CARLA *)

NoTwins(departed) == departed \ Range(carla2sumo)

SumoTick ==
  /\ phase = "idle"
  /\ \E departed \in SUBSET (waiting \union pending), left \in SUBSET driving :
       /\ driving' = (driving \ left) \union departed
       /\ waiting' = waiting \ departed /\ pending' = pending \ departed
       /\ toMirror' = NoTwins(departed)
       /\ sumoGone' = left
       /\ arrived' = arrived \union (left \intersect Twins)
  /\ phase' = "mirror"
  /\ UNCHANGED <<carla, ids, active, toTwin, carlaGone, held, mirrors, vanished, kept>>

Spawning == phase = "mirror" /\ newMirror = {}

SpawnMirror ==
  /\ Spawning
  /\ \E s \in toMirror, a \in unused :
       /\ toMirror' = toMirror \ {s}
       /\ unused' = unused \ {a} /\ alive' = alive \union {a}
       /\ newMirror' = {<<s, a>>}
       /\ mirrors' = mirrors \union {a}
  /\ UNCHANGED <<phase, sumo, ids, active, toTwin, sumoGone, carlaGone, oldMirror, newTwin, oldTwin,
                 arrived, vanished, kept>>

RecordMirror ==
  /\ phase = "mirror"
  /\ \E m \in newMirror : sumo2carla' = Paired(sumo2carla, m[1], m[2])
  /\ newMirror' = {}
  /\ UNCHANGED <<phase, sumo, carla, carla2sumo, sequentialId, news, oldMirror, newTwin, oldTwin,
                 history>>

(* No blueprint fits, or CARLA answers with an error; it is not tried      *)
(* again.                                                                  *)
FailedKept(s) == Paired(sumo2carla, s, -1)  \* FAULT
Failed(s) == sumo2carla
MirrorFails ==
  /\ Spawning
  /\ \E s \in toMirror : toMirror' = toMirror \ {s} /\ sumo2carla' = Failed(s)
  /\ UNCHANGED <<phase, sumo, carla, carla2sumo, sequentialId, active, toTwin, sumoGone, carlaGone,
                 held, history>>

Destroying == Spawning /\ toMirror = {} /\ oldMirror = {}

PopMirror ==
  /\ Destroying
  /\ \E s \in sumoGone \intersect DOMAIN sumo2carla :
       /\ sumo2carla' = Popped(sumo2carla, {s})
       /\ oldMirror' = {sumo2carla[s]}
  /\ UNCHANGED <<phase, sumo, carla, carla2sumo, sequentialId, news, newMirror, newTwin, oldTwin,
                 history>>

(* Nobody looks at what destroy_actor returns. *)
KeepsActors(actors) == alive  \* FAULT
WithoutMirrors(actors) == alive \ actors
DestroyMirror ==
  /\ phase = "mirror" /\ oldMirror # {}
  /\ \/ alive' = WithoutMirrors(oldMirror) /\ kept' = kept
     \/ alive' = alive /\ kept' = kept \union (oldMirror \intersect alive)
  /\ oldMirror' = {}
  /\ UNCHANGED <<phase, sumo, unused, ids, news, newMirror, newTwin, oldTwin, mirrors, arrived,
                 vanished>>

MirrorsDestroyed ==
  /\ Destroying /\ sumoGone \intersect DOMAIN sumo2carla = {}
  /\ phase' = "move"
  /\ UNCHANGED <<sumo, carla, ids, news, held, history>>

(* get_actor looks the vehicle up in SUMO, and the assertion of tick its   *)
(* mirror in CARLA.                                                        *)
MoveMirrors ==
  /\ phase = "move"
  /\ phase' = IF \A s \in DOMAIN sumo2carla : s \in driving /\ sumo2carla[s] \in alive
              THEN "world" ELSE "raised"
  /\ UNCHANGED <<sumo, carla, ids, news, held, history>>

-----------------------------------------------------------------------------
(* CARLA to SUMO *)

AllSpawned(spawned) == spawned  \* FAULT
NoMirrors(spawned) == spawned \ Range(sumo2carla)
GoneSinceUpdate(current) == {}  \* FAULT: _active_actors is updated before
GoneSince(current) == active \ current

WorldTick ==
  /\ phase = "world"
  /\ \E lost \in SUBSET alive :
       /\ alive' = alive \ lost
       /\ vanished' = vanished \union (lost \intersect mirrors)
  /\ toTwin' = NoMirrors(alive' \ active)
  /\ carlaGone' = GoneSince(alive')
  /\ active' = alive'
  /\ phase' = "twin"
  /\ UNCHANGED <<sumo, unused, ids, toMirror, sumoGone, held, mirrors, arrived, kept>>

Adding == phase = "twin" /\ newTwin = {}

SpawnTwin ==
  /\ Adding
  /\ \E a \in toTwin :
       /\ toTwin' = toTwin \ {a}
       /\ pending' = pending \union {sequentialId}
       /\ newTwin' = {<<a, sequentialId>>}
  /\ sequentialId' = sequentialId + 1
  /\ UNCHANGED <<phase, waiting, driving, carla, sumo2carla, carla2sumo, active, toMirror, sumoGone,
                 carlaGone, newMirror, oldMirror, oldTwin, history>>

RecordTwin ==
  /\ phase = "twin"
  /\ \E m \in newTwin : carla2sumo' = Paired(carla2sumo, m[1], m[2])
  /\ newTwin' = {}
  /\ UNCHANGED <<phase, sumo, carla, sumo2carla, sequentialId, news, newMirror, oldMirror, oldTwin,
                 history>>

(* traci refuses to add it; it is not tried again. *)
TwinFails ==
  /\ Adding
  /\ \E a \in toTwin : toTwin' = toTwin \ {a}
  /\ UNCHANGED <<phase, sumo, carla, ids, active, toMirror, sumoGone, carlaGone, held, history>>

Removing == Adding /\ toTwin = {} /\ oldTwin = {}

PopTwin ==
  /\ Removing
  /\ \E a \in carlaGone \intersect DOMAIN carla2sumo :
       /\ carla2sumo' = Popped(carla2sumo, {a})
       /\ oldTwin' = {carla2sumo[a]}
  /\ UNCHANGED <<phase, sumo, carla, sumo2carla, sequentialId, news, newMirror, oldMirror, newTwin,
                 history>>

InSumo(t) == t \in pending \union driving

(* traci raises when the twin to remove is not there. *)
RemoveTwin ==
  /\ phase = "twin" /\ oldTwin # {}
  /\ pending' = pending \ oldTwin /\ driving' = driving \ oldTwin
  /\ oldTwin' = {}
  /\ phase' = IF \A t \in oldTwin : InSumo(t) THEN "twin" ELSE "raised"
  /\ UNCHANGED <<waiting, carla, ids, news, newMirror, oldMirror, newTwin, history>>

MoveTwins ==
  /\ Removing /\ carlaGone \intersect DOMAIN carla2sumo = {}
  /\ phase' = IF \A a \in DOMAIN carla2sumo : a \in alive /\ InSumo(carla2sumo[a])
              THEN "idle" ELSE "raised"
  /\ UNCHANGED <<sumo, carla, ids, news, held, history>>

-----------------------------------------------------------------------------
(* The end: the script's loop is left by an exception only: tick's own, or *)
(* the user's, or that of a call that failed, wherever tick was.           *)
Ended == {"raised", "interrupted", "closing", "closed", "carlaRaised", "closeRaised"}
Interrupted ==
  /\ phase \notin Ended
  /\ phase' = "interrupted"
  /\ UNCHANGED <<sumo, carla, ids, news, held, history>>

(* Some of them may not be destroyed, and any of these calls may raise. *)
CloseCarla ==
  /\ phase \in {"raised", "interrupted"}
  /\ \E destroyed \in SUBSET (alive \intersect Range(sumo2carla)) :
       /\ alive' = alive \ destroyed
       /\ kept' = kept \union ((alive \intersect Range(sumo2carla)) \ destroyed)
  /\ phase' \in {"closing", "carlaRaised"}
  /\ UNCHANGED <<sumo, unused, ids, news, held, mirrors, arrived, vanished>>

DepartedTwins == Range(carla2sumo) \intersect driving  \* FAULT
TwinsToRemove == Range(carla2sumo)
CloseSumo ==
  /\ phase = "closing"
  /\ \E removed \in SUBSET {t \in TwinsToRemove : InSumo(t)} :
       /\ pending' = pending \ removed /\ driving' = driving \ removed
       /\ \/ phase' = "closed" /\ removed = TwinsToRemove
          \/ phase' = "closeRaised"
  /\ UNCHANGED <<waiting, carla, ids, news, held, history>>

Next ==
  \/ VehicleSpawned \/ SumoTick
  \/ SpawnMirror \/ RecordMirror \/ MirrorFails
  \/ PopMirror \/ DestroyMirror \/ MirrorsDestroyed \/ MoveMirrors
  \/ WorldTick
  \/ SpawnTwin \/ RecordTwin \/ TwinFails \/ PopTwin \/ RemoveTwin \/ MoveTwins
  \/ Interrupted \/ CloseCarla \/ CloseSumo

Spec == Init /\ [][Next]_vars

-----------------------------------------------------------------------------
(* Properties *)

(* A dictionary never holds the id of a failed spawn (INVALID_ACTOR_ID).   *)
TypeOK ==
  /\ phase \in {"idle", "mirror", "move", "world", "twin"} \union Ended
  /\ waiting \subseteq Trips /\ pending \subseteq Twins /\ driving \subseteq Trips \union Twins
  /\ unused \subseteq Actors /\ alive \subseteq Actors /\ active \subseteq Actors
  /\ DOMAIN sumo2carla \subseteq Trips \union Twins /\ sumo2carla \in [DOMAIN sumo2carla -> Actors]
  /\ DOMAIN carla2sumo \subseteq Actors /\ carla2sumo \in [DOMAIN carla2sumo -> Twins]
  /\ sequentialId \in Nat
  /\ toMirror \subseteq Trips \union Twins /\ toTwin \subseteq Actors
  /\ sumoGone \subseteq Trips \union Twins /\ carlaGone \subseteq Actors
  /\ newMirror \subseteq Trips \X Actors /\ oldMirror \subseteq Actors
  /\ newTwin \subseteq Actors \X Twins /\ oldTwin \subseteq Twins
  /\ mirrors \subseteq Actors /\ arrived \subseteq Twins /\ vanished \subseteq Actors
  /\ kept \subseteq Actors

(* Neither side echoes the other: whatever comes, goes and fails meanwhile, *)
(* no twin gets a mirror and no mirror a twin, and no two vehicles share    *)
(* one.                                                                     *)
OneBodyEach ==
  /\ DOMAIN sumo2carla \subseteq Trips /\ DOMAIN carla2sumo \intersect mirrors = {}
  /\ \A s, r \in DOMAIN sumo2carla : sumo2carla[s] = sumo2carla[r] => s = r
  /\ \A a, b \in DOMAIN carla2sumo : carla2sumo[a] = carla2sumo[b] => a = b

(* After a tick a mirror is there only for a trip that still drives, or    *)
(* because its destroy failed, and a twin only for a vehicle that CARLA    *)
(* still has; perception may ask SUMO for the speed of whoever has a       *)
(* mirror (get_speed_sumo).                                                *)
MirrorsOf(trips) == {sumo2carla[s] : s \in trips \intersect DOMAIN sumo2carla}
TwinsOf(actors) == {carla2sumo[a] : a \in actors \intersect DOMAIN carla2sumo}
NoOrphans ==
  phase = "idle" =>
    /\ alive \intersect mirrors \subseteq MirrorsOf(driving) \union kept
    /\ Twins \intersect (pending \union driving) \subseteq TwinsOf(active)
    /\ DOMAIN sumo2carla \subseteq driving

(* close does not know whom the interrupted statement held. Wherever tick  *)
(* ends, that is the one vehicle it leaves behind, besides the mirrors     *)
(* whose destroy failed: a mirror when close went through CARLA, a twin    *)
(* when it also went through SUMO.                                         *)
Named(pairs) == {m[2] : m \in pairs}
HeldMirrors == Named(newMirror) \union oldMirror
HeldTwins == Named(newTwin) \union oldTwin
LeavesOneBehind ==
  /\ phase \in {"closing", "closed", "closeRaised"} =>
       alive \intersect mirrors \subseteq HeldMirrors \union kept
  /\ phase = "closed" => Twins \intersect (pending \union driving) \subseteq HeldTwins
  /\ \A x, y \in HeldMirrors \union HeldTwins : x = y

(* tick raises only when SUMO lost a twin or another client destroyed a    *)
(* mirror: trips that depart and arrive, vehicles of CARLA that come and   *)
(* go, and spawns that fail do not disturb it in any order.                *)
RaisesOnlyIfLost == phase = "raised" => arrived # {} \/ vanished # {}
=============================================================================
