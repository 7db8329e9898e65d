---------------------------- MODULE Cosim_proofs ----------------------------
(***************************************************************************)
(* What keeps the two dictionaries of the co-simulation true to the two    *)
(* simulators, for any trips and any vehicles, however the scenario ends.  *)
(***************************************************************************)
EXTENDS Cosim, TLAPS

Bodies == pending \union driving

(* What a statement holds, and in which part of the tick. *)
HeldInv ==
  /\ \A x, y \in HeldMirrors \union HeldTwins : x = y
  /\ newMirror = {} \/ oldMirror = {}
  /\ newTwin = {} \/ oldTwin = {}
  /\ \A m, n \in newMirror : m = n
  /\ \A m, n \in newTwin : m = n
  /\ newMirror \union oldMirror # {} => newTwin \union oldTwin = {}
  /\ phase \notin Ended =>
       /\ newMirror \union oldMirror # {} => phase = "mirror"
       /\ newTwin \union oldTwin # {} => phase = "twin"
       /\ oldMirror # {} => toMirror = {}
       /\ oldTwin # {} => toTwin = {}

(* Where an id is used. *)
IdInv ==
  /\ (alive \union active \union mirrors \union DOMAIN carla2sumo) \intersect unused = {}
  /\ \A t \in (Bodies \union arrived \union Range(carla2sumo) \union HeldTwins) \intersect Twins :
       t < sequentialId

(* SUMO to CARLA: trips depart once, and have a mirror while they drive. *)
MirrorInv ==
  /\ DOMAIN sumo2carla \subseteq Trips
  /\ Range(sumo2carla) \union HeldMirrors \union kept \subseteq mirrors
  /\ \A s, r \in DOMAIN sumo2carla : sumo2carla[s] = sumo2carla[r] => s = r
  /\ Range(sumo2carla) \intersect HeldMirrors = {}
  /\ alive \intersect mirrors \subseteq Range(sumo2carla) \union HeldMirrors \union kept
  /\ toMirror \subseteq Trips
  /\ waiting \intersect (DOMAIN sumo2carla \union toMirror \union driving) = {}
  /\ toMirror \intersect DOMAIN sumo2carla = {}
  /\ \A m \in newMirror :
       phase = "mirror" =>
         /\ m[1] \notin waiting \union toMirror \union DOMAIN sumo2carla \union sumoGone
         /\ m[1] \in driving
  /\ phase \in {"idle", "move", "world", "twin"} => DOMAIN sumo2carla \subseteq driving
  /\ phase = "mirror" =>
       /\ DOMAIN sumo2carla \subseteq driving \union sumoGone
       /\ toMirror \subseteq driving /\ toMirror \intersect sumoGone = {}
  /\ phase # "mirror" /\ phase \notin Ended => toMirror = {}

(* A mirror that is not destroyed was there in the last tick: it is no new *)
(* vehicle of CARLA's.                                                     *)
KeptInv ==
  phase \notin Ended =>
    /\ kept \intersect alive \subseteq active
    /\ oldMirror \intersect alive \subseteq active
    /\ phase \in {"idle", "twin"} => Range(sumo2carla) \intersect alive \subseteq active
    /\ phase = "mirror" =>
         \A s \in sumoGone \intersect DOMAIN sumo2carla :
           sumo2carla[s] \in alive => sumo2carla[s] \in active

(* CARLA to SUMO: an actor is new once, and has a twin until it is gone. *)
TwinInv ==
  /\ DOMAIN carla2sumo \intersect mirrors = {} /\ toTwin \intersect mirrors = {}
  /\ \A a, b \in DOMAIN carla2sumo : carla2sumo[a] = carla2sumo[b] => a = b
  /\ Range(carla2sumo) \intersect HeldTwins = {}
  /\ Twins \intersect Bodies \subseteq Range(carla2sumo) \union HeldTwins
  /\ phase \in {"idle", "mirror", "move", "world"} => DOMAIN carla2sumo \subseteq active
  /\ phase # "twin" /\ phase \notin Ended => toTwin = {}
  /\ phase = "twin" =>
       /\ active = alive /\ DOMAIN carla2sumo \subseteq active \union carlaGone
       /\ toTwin \subseteq active /\ toTwin \intersect DOMAIN carla2sumo = {}
       /\ \A m \in newTwin :
            m[1] \in active /\ m[1] \notin mirrors \union toTwin \union DOMAIN carla2sumo

(* Who is missing was lost. *)
LossInv ==
  /\ phase \notin {"closing", "closed", "carlaRaised", "closeRaised"} =>
       /\ Range(sumo2carla) \subseteq alive \union vanished
       /\ Range(carla2sumo) \subseteq Bodies \union arrived
  /\ phase \notin Ended => Named(newMirror) \subseteq alive /\ HeldTwins \subseteq Bodies \union arrived
  /\ RaisesOnlyIfLost

EndInv == LeavesOneBehind

IInv == TypeOK /\ HeldInv /\ IdInv /\ MirrorInv /\ KeptInv /\ TwinInv /\ LossInv /\ EndInv

-----------------------------------------------------------------------------
(* Dictionaries *)

LEMMA PairedFacts ==
  ASSUME NEW map, NEW key, NEW id
  PROVE  /\ DOMAIN Paired(map, key, id) = DOMAIN map \union {key}
         /\ Paired(map, key, id)[key] = id
         /\ \A k \in DOMAIN map : k # key => Paired(map, key, id)[k] = map[k]
         /\ Paired(map, key, id) \in [DOMAIN map \union {key} -> Range(map) \union {id}]
  BY DEF Paired, Range

LEMMA PoppedFacts ==
  ASSUME NEW map, NEW keys
  PROVE  /\ DOMAIN Popped(map, keys) = DOMAIN map \ keys
         /\ \A k \in DOMAIN map \ keys : Popped(map, keys)[k] = map[k]
         /\ Popped(map, keys) \in [DOMAIN map \ keys -> Range(map)]
  BY DEF Popped, Restrict, Range

LEMMA RangeFacts ==
  ASSUME NEW map
  PROVE  /\ \A k \in DOMAIN map : map[k] \in Range(map)
         /\ \A v \in Range(map) : \E k \in DOMAIN map : map[k] = v
  BY DEF Range

-----------------------------------------------------------------------------
LEMMA InitInv == Init => IInv
<1> SUFFICES ASSUME Init PROVE IInv
  OBVIOUS
<1> USE CosimAssumption DEF Init, NoIds, Ended, Bodies, HeldMirrors, HeldTwins, Named
<1>1. Range(sumo2carla) = {} /\ Range(carla2sumo) = {}
  BY DEF Range
<1>2. TypeOK
  BY DEF TypeOK, Twins
<1>3. HeldInv /\ IdInv
  BY <1>1 DEF HeldInv, IdInv
<1>4. MirrorInv /\ KeptInv /\ TwinInv
  BY <1>1 DEF MirrorInv, KeptInv, TwinInv
<1>5. LossInv /\ EndInv
  BY <1>1 DEF LossInv, RaisesOnlyIfLost, EndInv, LeavesOneBehind
<1> QED BY <1>2, <1>3, <1>4, <1>5 DEF IInv

(* The statement under way holds what it held. *)
LEMMA HeldKept ==
  ASSUME HeldInv, UNCHANGED held, toMirror' \subseteq toMirror \/ oldMirror = {},
         toTwin' \subseteq toTwin \/ oldTwin = {},
         \/ phase' = phase \/ phase' \in Ended
         \/ newMirror \union oldMirror \union newTwin \union oldTwin = {}
  PROVE  /\ HeldInv'
         /\ UNCHANGED <<newMirror, oldMirror, newTwin, oldTwin, HeldMirrors, HeldTwins,
                        Named(newMirror)>>
<1>1. UNCHANGED <<newMirror, oldMirror, newTwin, oldTwin, HeldMirrors, HeldTwins, Named(newMirror)>>
  BY DEF held, HeldMirrors, HeldTwins, Named
<1>2. HeldInv'
  BY <1>1 DEF HeldInv, Ended
<1> QED BY <1>1, <1>2

(* In the parts of the tick that spawn and destroy nothing, nothing is held. *)
LEMMA NothingHeld ==
  ASSUME HeldInv
  PROVE  /\ phase \in {"idle", "move", "world", "twin"} =>
              newMirror = {} /\ oldMirror = {} /\ HeldMirrors = {}
         /\ phase \in {"idle", "mirror", "move", "world"} =>
              newTwin = {} /\ oldTwin = {} /\ HeldTwins = {}
BY DEF HeldInv, HeldMirrors, HeldTwins, Named, Ended

LEMMA VehicleSpawnedInv == IInv /\ VehicleSpawned => IInv'
<1> SUFFICES ASSUME IInv, VehicleSpawned PROVE IInv'
  OBVIOUS
<1>1. PICK a \in unused : unused' = unused \ {a} /\ alive' = alive \union {a}
  BY DEF VehicleSpawned
<1> USE DEF VehicleSpawned, sumo, ids, news, history, IInv
<1>2. /\ HeldInv'
      /\ UNCHANGED <<newMirror, oldMirror, newTwin, oldTwin, HeldMirrors, HeldTwins, Named(newMirror)>>
  BY HeldKept
<1>3. TypeOK'
  BY <1>1, <1>2 DEF TypeOK
<1>4. IdInv'
  BY <1>1, <1>2 DEF IdInv, Bodies
<1>5. MirrorInv'
  BY <1>1, <1>2 DEF MirrorInv, IdInv
<1>6. KeptInv'
  BY <1>1, <1>2, NothingHeld DEF KeptInv, MirrorInv, IdInv, Ended
<1>7. TwinInv' /\ LossInv' /\ EndInv'
  BY <1>1, <1>2 DEF TwinInv, LossInv, EndInv, LeavesOneBehind, RaisesOnlyIfLost, Bodies
<1> QED BY <1>2, <1>3, <1>4, <1>5, <1>6, <1>7

LEMMA SumoTickInv == IInv /\ SumoTick => IInv'
<1> SUFFICES ASSUME IInv, SumoTick PROVE IInv'
  OBVIOUS
<1>1. PICK departed \in SUBSET (waiting \union pending), left \in SUBSET driving :
        /\ driving' = (driving \ left) \union departed
        /\ waiting' = waiting \ departed /\ pending' = pending \ departed
        /\ toMirror' = NoTwins(departed)
        /\ sumoGone' = left
        /\ arrived' = arrived \union (left \intersect Twins)
  BY DEF SumoTick
<1> USE DEF SumoTick, carla, ids, IInv
<1>2. /\ newMirror = {} /\ oldMirror = {} /\ newTwin = {} /\ oldTwin = {}
      /\ HeldMirrors = {} /\ HeldTwins = {}
  BY NothingHeld
<1>3. /\ HeldInv'
      /\ UNCHANGED <<newMirror, oldMirror, newTwin, oldTwin, HeldMirrors, HeldTwins, Named(newMirror)>>
  BY <1>2, HeldKept
<1>4. TypeOK'
  BY <1>1, <1>3, CosimAssumption DEF TypeOK, NoTwins, Ended
<1>5. IdInv'
  BY <1>1, <1>3, CosimAssumption DEF IdInv, Bodies, TypeOK
<1>6. toMirror' \subseteq waiting /\ toMirror' \subseteq departed
  BY <1>1, <1>2 DEF NoTwins, TwinInv, TypeOK, Bodies
<1>7. MirrorInv'
  BY <1>1, <1>2, <1>3, <1>6, CosimAssumption DEF MirrorInv, TypeOK, Ended
<1>8. KeptInv'
  BY <1>1, <1>3, RangeFacts DEF KeptInv, Ended
<1>9. TwinInv'
  BY <1>1, <1>3, CosimAssumption DEF TwinInv, Bodies, TypeOK, Ended
<1>10. LossInv' /\ EndInv'
  <2>1. Range(carla2sumo) \subseteq Twins
    BY DEF TypeOK, Range
  <2> QED BY <1>1, <1>2, <1>3, <2>1
          DEF LossInv, EndInv, LeavesOneBehind, RaisesOnlyIfLost, Bodies, Named
<1> QED BY <1>3, <1>4, <1>5, <1>7, <1>8, <1>9, <1>10
-----------------------------------------------------------------------------
(* The mirror is there, and its id in a local variable. *)
LEMMA SpawnMirrorInv == IInv /\ SpawnMirror => IInv'
<1> SUFFICES ASSUME IInv, SpawnMirror PROVE IInv'
  OBVIOUS
<1>1. PICK s \in toMirror, a \in unused :
        /\ toMirror' = toMirror \ {s}
        /\ unused' = unused \ {a} /\ alive' = alive \union {a}
        /\ newMirror' = {<<s, a>>}
        /\ mirrors' = mirrors \union {a}
  BY DEF SpawnMirror
<1> USE DEF SpawnMirror, Spawning, sumo, ids, IInv
<1>2. /\ s \notin DOMAIN sumo2carla \union waiting \union sumoGone
      /\ s \in Trips /\ s \in driving /\ a \in Actors /\ s \notin toMirror'
  BY <1>1 DEF MirrorInv, TypeOK
<1>3. a \notin alive \union active \union mirrors \union DOMAIN carla2sumo \union Range(sumo2carla)
  BY DEF IdInv, MirrorInv
<1>4. oldMirror = {} /\ newTwin = {} /\ oldTwin = {} /\ HeldMirrors = {} /\ HeldTwins = {}
  BY DEF HeldInv, HeldMirrors, HeldTwins, Named, Ended
<1>5. /\ HeldMirrors' = {a} /\ HeldTwins' = {} /\ Named(newMirror)' = {a}
      /\ oldMirror' = {} /\ newTwin' = {} /\ oldTwin' = {}
      /\ newMirror'= {<<s, a>>} /\ <<s, a>>[1] = s
  BY <1>1, <1>4 DEF HeldMirrors, HeldTwins, Named
<1>6. TypeOK'
  BY <1>1, <1>2, <1>5 DEF TypeOK
<1>7. HeldInv'
  BY <1>5 DEF HeldInv, Ended
<1>8. IdInv'
  BY <1>1, <1>3, <1>4, <1>5 DEF IdInv, Bodies
<1>9. MirrorInv'
  BY <1>1, <1>2, <1>3, <1>4, <1>5 DEF MirrorInv, Ended
<1>10. KeptInv'
  BY <1>1, <1>3, <1>5, RangeFacts DEF KeptInv, MirrorInv, Ended
<1>11. TwinInv'
  BY <1>1, <1>3, <1>4, <1>5 DEF TwinInv, Bodies, Ended
<1>12. LossInv' /\ EndInv'
  BY <1>1, <1>4, <1>5 DEF LossInv, EndInv, LeavesOneBehind, RaisesOnlyIfLost, Bodies
<1> QED BY <1>6, <1>7, <1>8, <1>9, <1>10, <1>11, <1>12

LEMMA RecordMirrorInv == IInv /\ RecordMirror => IInv'
<1> SUFFICES ASSUME IInv, RecordMirror PROVE IInv'
  OBVIOUS
<1> USE DEF RecordMirror, sumo, carla, news, history, IInv
<1>1. PICK m \in newMirror : sumo2carla' = Paired(sumo2carla, m[1], m[2])
  OBVIOUS
<1> DEFINE s == m[1]  a == m[2]
<1>2. newMirror = {m} /\ s \in Trips /\ a \in Actors
  BY DEF HeldInv, TypeOK
<1>3. oldMirror = {} /\ newTwin = {} /\ oldTwin = {} /\ HeldMirrors = {a} /\ HeldTwins = {}
  BY <1>2 DEF HeldInv, HeldMirrors, HeldTwins, Named, Ended
<1>4. /\ s \notin waiting \union toMirror \union DOMAIN sumo2carla \union sumoGone /\ s \in driving
      /\ a \notin Range(sumo2carla) /\ a \in mirrors
  BY <1>3 DEF MirrorInv
<1>5. a \in alive
  BY <1>2 DEF LossInv, Named, Ended
<1> HIDE DEF s, a
<1>6. /\ DOMAIN sumo2carla' = DOMAIN sumo2carla \union {s} /\ sumo2carla'[s] = a
      /\ \A k \in DOMAIN sumo2carla : sumo2carla'[k] = sumo2carla[k]
      /\ sumo2carla' \in [DOMAIN sumo2carla \union {s} -> Range(sumo2carla) \union {a}]
  <2>1. \A k \in DOMAIN sumo2carla : k # s
    BY <1>4
  <2>2. sumo2carla' = Paired(sumo2carla, s, a)
    BY <1>1 DEF s, a
  <2>3. /\ DOMAIN Paired(sumo2carla, s, a) = DOMAIN sumo2carla \union {s}
        /\ Paired(sumo2carla, s, a)[s] = a
        /\ \A i \in DOMAIN sumo2carla : i # s => Paired(sumo2carla, s, a)[i] = sumo2carla[i]
        /\ Paired(sumo2carla, s, a) \in
             [DOMAIN sumo2carla \union {s} -> Range(sumo2carla) \union {a}]
    BY PairedFacts
  <2> QED BY <2>1, <2>2, <2>3
<1>7. Range(sumo2carla') = Range(sumo2carla) \union {a}
  BY <1>4, <1>6 DEF Range
<1>8. /\ HeldMirrors' = {} /\ HeldTwins' = {} /\ Named(newMirror)' = {}
      /\ newMirror' = {} /\ oldMirror' = {} /\ newTwin' = {} /\ oldTwin' = {}
  BY <1>3 DEF HeldMirrors, HeldTwins, Named
<1>9. TypeOK'
  BY <1>2, <1>6, <1>8 DEF TypeOK, Range
<1>10. HeldInv' /\ IdInv'
  BY <1>3, <1>8 DEF HeldInv, IdInv, Bodies
<1>11. MirrorInv'
  <2>1. \A r, q \in DOMAIN sumo2carla' : sumo2carla'[r] = sumo2carla'[q] => r = q
    BY <1>4, <1>6, RangeFacts DEF MirrorInv
  <2>2. /\ Range(sumo2carla') \union HeldMirrors' \union kept' \subseteq mirrors'
        /\ alive' \intersect mirrors' \subseteq Range(sumo2carla') \union HeldMirrors' \union kept'
    BY <1>3, <1>4, <1>7, <1>8 DEF MirrorInv
  <2>3. /\ DOMAIN sumo2carla' \subseteq Trips
        /\ waiting' \intersect (DOMAIN sumo2carla' \union toMirror' \union driving') = {}
        /\ toMirror' \intersect DOMAIN sumo2carla' = {}
    BY <1>2, <1>4, <1>6 DEF MirrorInv
  <2>4. DOMAIN sumo2carla' \subseteq driving' \union sumoGone' /\ phase' = "mirror"
    BY <1>4, <1>6 DEF MirrorInv
  <2> QED BY <1>8, <2>1, <2>2, <2>3, <2>4 DEF MirrorInv, Ended
<1>12. KeptInv'
  BY <1>4, <1>6, <1>8 DEF KeptInv, Ended
<1>13. TwinInv'
  BY <1>3, <1>8 DEF TwinInv, Bodies, Ended
<1>14. LossInv' /\ EndInv'
  BY <1>3, <1>5, <1>7, <1>8 DEF LossInv, EndInv, LeavesOneBehind, RaisesOnlyIfLost, Bodies
<1> QED BY <1>9, <1>10, <1>11, <1>12, <1>13, <1>14

LEMMA MirrorFailsInv == IInv /\ MirrorFails => IInv'
<1> SUFFICES ASSUME IInv, MirrorFails PROVE IInv'
  OBVIOUS
<1>1. PICK s \in toMirror : toMirror' = toMirror \ {s} /\ sumo2carla' = sumo2carla
  BY DEF MirrorFails, Failed
<1> USE <1>1 DEF MirrorFails, Spawning, sumo, carla, history, IInv
<1>2. /\ HeldInv'
      /\ UNCHANGED <<newMirror, oldMirror, newTwin, oldTwin, HeldMirrors, HeldTwins, Named(newMirror)>>
  BY HeldKept
<1>3. TypeOK' /\ IdInv' /\ MirrorInv' /\ KeptInv'
  BY <1>2 DEF TypeOK, IdInv, MirrorInv, KeptInv, Bodies
<1>4. TwinInv' /\ LossInv' /\ EndInv'
  BY <1>2 DEF TwinInv, LossInv, EndInv, LeavesOneBehind, RaisesOnlyIfLost, Bodies
<1> QED BY <1>2, <1>3, <1>4
-----------------------------------------------------------------------------
(* The dictionary has forgotten the mirror, which is still there. *)
LEMMA PopMirrorInv == IInv /\ PopMirror => IInv'
<1> SUFFICES ASSUME IInv, PopMirror PROVE IInv'
  OBVIOUS
<1> USE DEF PopMirror, Destroying, Spawning, sumo, carla, news, history, IInv
<1>1. PICK s \in sumoGone \intersect DOMAIN sumo2carla :
        /\ sumo2carla' = Popped(sumo2carla, {s})
        /\ oldMirror' = {sumo2carla[s]}
  OBVIOUS
<1> DEFINE a == sumo2carla[s]
<1>2. /\ DOMAIN sumo2carla' = DOMAIN sumo2carla \ {s}
      /\ \A k \in DOMAIN sumo2carla \ {s} : sumo2carla'[k] = sumo2carla[k]
      /\ sumo2carla' \in [DOMAIN sumo2carla \ {s} -> Range(sumo2carla)]
  BY <1>1, PoppedFacts
<1>3. a \in Range(sumo2carla) /\ a \in mirrors /\ a \in Actors
  BY <1>1, RangeFacts DEF MirrorInv, TypeOK
<1> HIDE DEF a
<1>4. Range(sumo2carla') = Range(sumo2carla) \ {a}
  <2>1. \A r, q \in DOMAIN sumo2carla : sumo2carla[r] = sumo2carla[q] => r = q
    BY DEF MirrorInv
  <2> QED BY <1>1, <1>2, <2>1 DEF Range, a
<1>5. newTwin = {} /\ oldTwin = {} /\ HeldMirrors = {} /\ HeldTwins = {}
  BY NothingHeld DEF HeldMirrors, Named
<1>6. /\ HeldMirrors' = {a} /\ HeldTwins' = {} /\ Named(newMirror)' = {}
      /\ newMirror' = {} /\ oldMirror' = {a} /\ newTwin' = {} /\ oldTwin' = {}
  BY <1>1, <1>5 DEF HeldMirrors, HeldTwins, Named, a
<1>7. TypeOK'
  BY <1>2, <1>3, <1>6 DEF TypeOK, Range
<1>8. HeldInv' /\ IdInv'
  BY <1>5, <1>6 DEF HeldInv, IdInv, Bodies, Ended
<1>9. MirrorInv'
  <2>1. \A r, q \in DOMAIN sumo2carla' : sumo2carla'[r] = sumo2carla'[q] => r = q
    BY <1>2 DEF MirrorInv
  <2>2. /\ Range(sumo2carla') \union HeldMirrors' \union kept' \subseteq mirrors'
        /\ Range(sumo2carla') \intersect HeldMirrors' = {}
        /\ alive' \intersect mirrors' \subseteq Range(sumo2carla') \union HeldMirrors' \union kept'
    BY <1>3, <1>4, <1>5, <1>6 DEF MirrorInv
  <2>3. /\ DOMAIN sumo2carla' \subseteq Trips
        /\ waiting' \intersect (DOMAIN sumo2carla' \union toMirror' \union driving') = {}
        /\ toMirror' \intersect DOMAIN sumo2carla' = {}
        /\ DOMAIN sumo2carla' \subseteq driving' \union sumoGone' /\ phase' = "mirror"
    BY <1>2 DEF MirrorInv
  <2> QED BY <1>6, <2>1, <2>2, <2>3 DEF MirrorInv, Ended
<1>10. KeptInv'
  BY <1>1, <1>2, <1>6 DEF KeptInv, Ended, a
<1>11. TwinInv'
  BY <1>5, <1>6 DEF TwinInv, Bodies, Ended
<1>12. LossInv' /\ EndInv'
  BY <1>4, <1>5, <1>6 DEF LossInv, EndInv, LeavesOneBehind, RaisesOnlyIfLost, Bodies
<1> QED BY <1>7, <1>8, <1>9, <1>10, <1>11, <1>12

LEMMA DestroyMirrorInv == IInv /\ DestroyMirror => IInv'
<1> SUFFICES ASSUME IInv, DestroyMirror PROVE IInv'
  OBVIOUS
<1> USE DEF DestroyMirror, sumo, ids, news, IInv
<1>1. \/ alive' = alive \ oldMirror /\ kept' = kept
      \/ alive' = alive /\ kept' = kept \union (oldMirror \intersect alive)
  BY DEF WithoutMirrors
<1>2. newMirror = {} /\ newTwin = {} /\ oldTwin = {} /\ HeldMirrors = oldMirror /\ HeldTwins = {}
  BY DEF HeldInv, HeldMirrors, HeldTwins, Named, Ended
<1>3. /\ HeldMirrors' = {} /\ HeldTwins' = {} /\ Named(newMirror)' = {}
      /\ newMirror' = {} /\ oldMirror' = {} /\ newTwin' = {} /\ oldTwin' = {}
  BY <1>2 DEF HeldMirrors, HeldTwins, Named
<1>4. TypeOK'
  BY <1>1, <1>3 DEF TypeOK
<1>5. HeldInv' /\ IdInv'
  BY <1>1, <1>2, <1>3 DEF HeldInv, IdInv, Bodies
<1>6. MirrorInv'
  BY <1>1, <1>2, <1>3 DEF MirrorInv, Ended
<1>7. KeptInv'
  BY <1>1, <1>3 DEF KeptInv, Ended
<1>8. TwinInv'
  BY <1>2, <1>3 DEF TwinInv, Bodies, Ended
<1>9. LossInv' /\ EndInv'
  BY <1>1, <1>2, <1>3
  DEF LossInv, EndInv, LeavesOneBehind, RaisesOnlyIfLost, Bodies, MirrorInv
<1> QED BY <1>4, <1>5, <1>6, <1>7, <1>8, <1>9

LEMMA MirrorsDestroyedInv == IInv /\ MirrorsDestroyed => IInv'
<1> SUFFICES ASSUME IInv, MirrorsDestroyed PROVE IInv'
  OBVIOUS
<1> USE DEF MirrorsDestroyed, Destroying, Spawning, sumo, carla, ids, news, history, IInv
<1>1. /\ HeldInv'
      /\ UNCHANGED <<newMirror, oldMirror, newTwin, oldTwin, HeldMirrors, HeldTwins, Named(newMirror)>>
  BY NothingHeld, HeldKept
<1>2. TypeOK' /\ IdInv' /\ MirrorInv' /\ KeptInv'
  BY <1>1 DEF TypeOK, IdInv, MirrorInv, KeptInv, Bodies, Ended
<1>3. TwinInv' /\ LossInv' /\ EndInv'
  BY <1>1 DEF TwinInv, LossInv, EndInv, LeavesOneBehind, RaisesOnlyIfLost, Bodies, Ended
<1> QED BY <1>1, <1>2, <1>3

LEMMA MoveMirrorsInv == IInv /\ MoveMirrors => IInv'
<1> SUFFICES ASSUME IInv, MoveMirrors PROVE IInv'
  OBVIOUS
<1> USE DEF MoveMirrors, sumo, carla, ids, news, history, IInv
<1>1. /\ HeldInv'
      /\ UNCHANGED <<newMirror, oldMirror, newTwin, oldTwin, HeldMirrors, HeldTwins, Named(newMirror)>>
  BY NothingHeld, HeldKept
<1>2. TypeOK' /\ IdInv'
  BY <1>1 DEF TypeOK, IdInv, Bodies, Ended
<1>3. MirrorInv' /\ KeptInv' /\ TwinInv'
  BY <1>1 DEF MirrorInv, KeptInv, TwinInv, Bodies, Ended
<1>4. phase' = "raised" => vanished # {}
  BY RangeFacts DEF MirrorInv, LossInv
<1>5. LossInv' /\ EndInv'
  BY <1>1, <1>4 DEF LossInv, EndInv, LeavesOneBehind, RaisesOnlyIfLost, Bodies, Ended
<1> QED BY <1>1, <1>2, <1>3, <1>5

LEMMA WorldTickInv == IInv /\ WorldTick => IInv'
<1> SUFFICES ASSUME IInv, WorldTick PROVE IInv'
  OBVIOUS
<1>1. PICK lost \in SUBSET alive :
        /\ alive' = alive \ lost
        /\ vanished' = vanished \union (lost \intersect mirrors)
  BY DEF WorldTick
<1>2. /\ toTwin' = (alive' \ active) \ Range(sumo2carla)
      /\ carlaGone' = active \ alive' /\ active' = alive'
  BY DEF WorldTick, NoMirrors, GoneSince
<1> USE DEF WorldTick, sumo, ids, IInv
<1>3. /\ newMirror = {} /\ oldMirror = {} /\ newTwin = {} /\ oldTwin = {}
      /\ HeldMirrors = {} /\ HeldTwins = {}
  BY NothingHeld
<1>4. /\ HeldInv'
      /\ UNCHANGED <<newMirror, oldMirror, newTwin, oldTwin, HeldMirrors, HeldTwins, Named(newMirror)>>
  BY <1>3, HeldKept
<1>5. TypeOK'
  BY <1>1, <1>2, <1>4 DEF TypeOK, Ended
<1>6. IdInv'
  BY <1>1, <1>2, <1>4 DEF IdInv, Bodies
<1>7. MirrorInv' /\ KeptInv'
  BY <1>1, <1>2, <1>3, <1>4 DEF MirrorInv, KeptInv, Ended
<1>8. TwinInv'
  <2>1. toTwin' \intersect mirrors = {}
    BY <1>1, <1>2, <1>3 DEF MirrorInv, KeptInv, Ended
  <2> QED BY <1>1, <1>2, <1>3, <1>4, <2>1 DEF TwinInv, Bodies, Ended
<1>9. LossInv' /\ EndInv'
  BY <1>1, <1>3, <1>4
  DEF LossInv, EndInv, LeavesOneBehind, RaisesOnlyIfLost, Bodies, MirrorInv, Named, Ended
<1> QED BY <1>4, <1>5, <1>6, <1>7, <1>8, <1>9
-----------------------------------------------------------------------------
(* The twin is added, and its name in a local variable. *)
LEMMA SpawnTwinInv == IInv /\ SpawnTwin => IInv'
<1> SUFFICES ASSUME IInv, SpawnTwin PROVE IInv'
  OBVIOUS
<1>1. PICK a \in toTwin :
        /\ toTwin' = toTwin \ {a}
        /\ pending' = pending \union {sequentialId}
        /\ newTwin' = {<<a, sequentialId>>}
  BY DEF SpawnTwin
<1> USE DEF SpawnTwin, Adding, carla, history, IInv
<1>2. /\ a \notin DOMAIN carla2sumo /\ a \in active /\ a \notin mirrors /\ a \in Actors
      /\ sequentialId \in Nat /\ sequentialId' = sequentialId + 1
  BY DEF TwinInv, TypeOK
<1>3. oldTwin = {} /\ newMirror = {} /\ oldMirror = {} /\ HeldMirrors = {} /\ HeldTwins = {}
  BY DEF HeldInv, HeldMirrors, HeldTwins, Named, Ended
<1>4. /\ HeldTwins' = {sequentialId} /\ HeldMirrors' = {} /\ Named(newMirror)' = {}
      /\ newMirror' = {} /\ oldMirror' = {} /\ oldTwin' = {}
      /\ newTwin' = {<<a, sequentialId>>} /\ <<a, sequentialId>>[1] = a
  BY <1>1, <1>3 DEF HeldMirrors, HeldTwins, Named
<1>5. Range(carla2sumo) \subseteq Nat /\ sequentialId \notin Range(carla2sumo)
  <2>1. Range(carla2sumo) \subseteq Nat
    BY DEF TypeOK, Twins, Range
  <2> QED BY <1>2, <2>1 DEF IdInv, Twins
<1>6. TypeOK'
  BY <1>1, <1>2, <1>4 DEF TypeOK, Twins
<1>7. HeldInv'
  BY <1>4 DEF HeldInv, Ended
<1>8. IdInv'
  <2>1. \A t \in (Bodies' \union arrived \union Range(carla2sumo) \union HeldTwins') \intersect Twins :
          t < sequentialId'
    <3> SUFFICES ASSUME NEW t \in Nat,
                        t \in Bodies' \union arrived \union Range(carla2sumo) \union HeldTwins'
                 PROVE  t < sequentialId'
      BY DEF Twins
    <3>1. t = sequentialId \/ t \in Bodies \union arrived \union Range(carla2sumo)
      BY <1>1, <1>4 DEF Bodies
    <3>2. t = sequentialId \/ t < sequentialId
      BY <3>1 DEF IdInv, Twins
    <3> QED BY <1>2, <3>2
  <2> QED BY <2>1 DEF IdInv
<1>9. MirrorInv' /\ KeptInv'
  BY <1>1, <1>3, <1>4 DEF MirrorInv, KeptInv, Ended
<1>10. TwinInv'
  BY <1>1, <1>2, <1>3, <1>4, <1>5 DEF TwinInv, Bodies, Ended
<1>11. LossInv' /\ EndInv'
  BY <1>1, <1>3, <1>4 DEF LossInv, EndInv, LeavesOneBehind, RaisesOnlyIfLost, Bodies, Ended
<1> QED BY <1>6, <1>7, <1>8, <1>9, <1>10, <1>11

LEMMA RecordTwinInv == IInv /\ RecordTwin => IInv'
<1> SUFFICES ASSUME IInv, RecordTwin PROVE IInv'
  OBVIOUS
<1> USE DEF RecordTwin, sumo, carla, news, history, IInv
<1>1. PICK m \in newTwin : carla2sumo' = Paired(carla2sumo, m[1], m[2])
  OBVIOUS
<1> DEFINE a == m[1]  t == m[2]
<1>2. newTwin = {m} /\ a \in Actors /\ t \in Twins
  BY DEF HeldInv, TypeOK
<1>3. oldTwin = {} /\ newMirror = {} /\ oldMirror = {} /\ HeldTwins = {t} /\ HeldMirrors = {}
  BY <1>2 DEF HeldInv, HeldMirrors, HeldTwins, Named, Ended
<1>4. /\ a \in active /\ a \notin mirrors \union toTwin \union DOMAIN carla2sumo
      /\ t \notin Range(carla2sumo)
  BY <1>3 DEF TwinInv
<1>5. t \in Bodies \union arrived /\ a \notin unused
  BY <1>3, <1>4 DEF LossInv, IdInv, Ended
<1> HIDE DEF a, t
<1>6. /\ DOMAIN carla2sumo' = DOMAIN carla2sumo \union {a} /\ carla2sumo'[a] = t
      /\ \A k \in DOMAIN carla2sumo : carla2sumo'[k] = carla2sumo[k]
      /\ carla2sumo' \in [DOMAIN carla2sumo \union {a} -> Range(carla2sumo) \union {t}]
  <2>1. \A k \in DOMAIN carla2sumo : k # a
    BY <1>4
  <2>2. carla2sumo' = Paired(carla2sumo, a, t)
    BY <1>1 DEF a, t
  <2>3. /\ DOMAIN Paired(carla2sumo, a, t) = DOMAIN carla2sumo \union {a}
        /\ Paired(carla2sumo, a, t)[a] = t
        /\ \A i \in DOMAIN carla2sumo : i # a => Paired(carla2sumo, a, t)[i] = carla2sumo[i]
        /\ Paired(carla2sumo, a, t) \in
             [DOMAIN carla2sumo \union {a} -> Range(carla2sumo) \union {t}]
    BY PairedFacts
  <2> QED BY <2>1, <2>2, <2>3
<1>7. Range(carla2sumo') = Range(carla2sumo) \union {t}
  BY <1>4, <1>6 DEF Range
<1>8. /\ HeldMirrors' = {} /\ HeldTwins' = {} /\ Named(newMirror)' = {}
      /\ newMirror' = {} /\ oldMirror' = {} /\ newTwin' = {} /\ oldTwin' = {}
  BY <1>3 DEF HeldMirrors, HeldTwins, Named
<1>9. TypeOK'
  BY <1>2, <1>6, <1>8 DEF TypeOK, Range
<1>10. HeldInv' /\ IdInv'
  BY <1>3, <1>5, <1>6, <1>7, <1>8 DEF HeldInv, IdInv, Bodies
<1>11. MirrorInv' /\ KeptInv'
  BY <1>3, <1>8 DEF MirrorInv, KeptInv, Ended
<1>12. TwinInv'
  <2>1. \A b, d \in DOMAIN carla2sumo' : carla2sumo'[b] = carla2sumo'[d] => b = d
    BY <1>4, <1>6, RangeFacts DEF TwinInv
  <2> QED BY <1>3, <1>4, <1>6, <1>7, <1>8, <2>1 DEF TwinInv, Bodies, Ended
<1>13. LossInv' /\ EndInv'
  BY <1>3, <1>5, <1>7, <1>8 DEF LossInv, EndInv, LeavesOneBehind, RaisesOnlyIfLost, Bodies
<1> QED BY <1>9, <1>10, <1>11, <1>12, <1>13

LEMMA TwinFailsInv == IInv /\ TwinFails => IInv'
<1> SUFFICES ASSUME IInv, TwinFails PROVE IInv'
  OBVIOUS
<1>1. PICK a \in toTwin : toTwin' = toTwin \ {a}
  BY DEF TwinFails
<1> USE <1>1 DEF TwinFails, Adding, sumo, carla, ids, history, IInv
<1>2. /\ HeldInv'
      /\ UNCHANGED <<newMirror, oldMirror, newTwin, oldTwin, HeldMirrors, HeldTwins, Named(newMirror)>>
  BY HeldKept
<1>3. TypeOK' /\ IdInv' /\ MirrorInv' /\ KeptInv'
  BY <1>2 DEF TypeOK, IdInv, MirrorInv, KeptInv, Bodies
<1>4. TwinInv' /\ LossInv' /\ EndInv'
  BY <1>2 DEF TwinInv, LossInv, EndInv, LeavesOneBehind, RaisesOnlyIfLost, Bodies
<1> QED BY <1>2, <1>3, <1>4

(* The dictionary has forgotten the twin, which is still there. *)
LEMMA PopTwinInv == IInv /\ PopTwin => IInv'
<1> SUFFICES ASSUME IInv, PopTwin PROVE IInv'
  OBVIOUS
<1> USE DEF PopTwin, Removing, Adding, sumo, carla, news, history, IInv
<1>1. PICK a \in carlaGone \intersect DOMAIN carla2sumo :
        /\ carla2sumo' = Popped(carla2sumo, {a})
        /\ oldTwin' = {carla2sumo[a]}
  OBVIOUS
<1> DEFINE t == carla2sumo[a]
<1>2. /\ DOMAIN carla2sumo' = DOMAIN carla2sumo \ {a}
      /\ \A k \in DOMAIN carla2sumo \ {a} : carla2sumo'[k] = carla2sumo[k]
      /\ carla2sumo' \in [DOMAIN carla2sumo \ {a} -> Range(carla2sumo)]
  BY <1>1, PoppedFacts
<1>3. t \in Range(carla2sumo) /\ t \in Twins
  BY <1>1, RangeFacts DEF TypeOK
<1> HIDE DEF t
<1>4. Range(carla2sumo') = Range(carla2sumo) \ {t}
  <2>1. \A b, d \in DOMAIN carla2sumo : carla2sumo[b] = carla2sumo[d] => b = d
    BY DEF TwinInv
  <2> QED BY <1>1, <1>2, <2>1 DEF Range, t
<1>5. newMirror = {} /\ oldMirror = {} /\ HeldMirrors = {} /\ HeldTwins = {}
  BY NothingHeld DEF HeldTwins, Named
<1>6. /\ HeldMirrors' = {} /\ HeldTwins' = {t} /\ Named(newMirror)' = {}
      /\ newMirror' = {} /\ oldMirror' = {} /\ newTwin' = {} /\ oldTwin' = {t}
  BY <1>1, <1>5 DEF HeldMirrors, HeldTwins, Named, t
<1>7. TypeOK'
  BY <1>2, <1>3, <1>6 DEF TypeOK, Range
<1>8. HeldInv' /\ IdInv'
  BY <1>2, <1>3, <1>4, <1>5, <1>6 DEF HeldInv, IdInv, Bodies, Ended
<1>9. MirrorInv' /\ KeptInv'
  BY <1>5, <1>6 DEF MirrorInv, KeptInv, Ended
<1>10. TwinInv'
  <2>1. \A b, d \in DOMAIN carla2sumo' : carla2sumo'[b] = carla2sumo'[d] => b = d
    BY <1>2 DEF TwinInv
  <2> QED BY <1>2, <1>4, <1>5, <1>6, <2>1 DEF TwinInv, Bodies, Ended
<1>11. LossInv' /\ EndInv'
  BY <1>3, <1>4, <1>5, <1>6 DEF LossInv, EndInv, LeavesOneBehind, RaisesOnlyIfLost, Bodies, Ended
<1> QED BY <1>7, <1>8, <1>9, <1>10, <1>11

LEMMA RemoveTwinInv == IInv /\ RemoveTwin => IInv'
<1> SUFFICES ASSUME IInv, RemoveTwin PROVE IInv'
  OBVIOUS
<1> USE DEF RemoveTwin, carla, ids, news, history, IInv
<1>1. newTwin = {} /\ newMirror = {} /\ oldMirror = {} /\ HeldTwins = oldTwin /\ HeldMirrors = {}
  BY DEF HeldInv, HeldMirrors, HeldTwins, Named, Ended
<1>2. /\ HeldMirrors' = {} /\ HeldTwins' = {} /\ Named(newMirror)' = {}
      /\ newMirror' = {} /\ oldMirror' = {} /\ newTwin' = {} /\ oldTwin' = {}
  BY <1>1 DEF HeldMirrors, HeldTwins, Named
<1>3. oldTwin \subseteq Twins /\ oldTwin \intersect Trips = {}
  BY CosimAssumption DEF TypeOK
<1>4. TypeOK'
  BY <1>2 DEF TypeOK, Ended
<1>5. HeldInv' /\ IdInv'
  BY <1>1, <1>2 DEF HeldInv, IdInv, Bodies
<1>6. MirrorInv' /\ KeptInv'
  BY <1>1, <1>2, <1>3 DEF MirrorInv, KeptInv, Ended
<1>7. TwinInv'
  BY <1>1, <1>2 DEF TwinInv, Bodies, Ended
<1>8. phase' = "raised" => arrived # {}
  BY <1>1, <1>3 DEF LossInv, InSumo, Bodies, Ended
<1>9. LossInv' /\ EndInv'
  BY <1>1, <1>2, <1>8
  DEF LossInv, EndInv, LeavesOneBehind, RaisesOnlyIfLost, Bodies, TwinInv, Ended
<1> QED BY <1>4, <1>5, <1>6, <1>7, <1>9

LEMMA MoveTwinsInv == IInv /\ MoveTwins => IInv'
<1> SUFFICES ASSUME IInv, MoveTwins PROVE IInv'
  OBVIOUS
<1> USE DEF MoveTwins, Removing, Adding, sumo, carla, ids, news, history, IInv
<1>1. /\ HeldInv'
      /\ UNCHANGED <<newMirror, oldMirror, newTwin, oldTwin, HeldMirrors, HeldTwins, Named(newMirror)>>
  BY NothingHeld, HeldKept
<1>2. TypeOK' /\ IdInv'
  BY <1>1 DEF TypeOK, IdInv, Bodies, Ended
<1>3. MirrorInv' /\ KeptInv' /\ TwinInv'
  BY <1>1 DEF MirrorInv, KeptInv, TwinInv, Bodies, Ended
<1>4. phase' = "raised" => arrived # {}
  BY RangeFacts DEF TwinInv, LossInv, InSumo, Bodies
<1>5. LossInv' /\ EndInv'
  BY <1>1, <1>4 DEF LossInv, EndInv, LeavesOneBehind, RaisesOnlyIfLost, Bodies, Ended
<1> QED BY <1>1, <1>2, <1>3, <1>5
-----------------------------------------------------------------------------
LEMMA InterruptedInv == IInv /\ Interrupted => IInv'
<1> SUFFICES ASSUME IInv, Interrupted PROVE IInv'
  OBVIOUS
<1> USE DEF Interrupted, sumo, carla, ids, news, history, IInv, Ended
<1>1. /\ HeldInv'
      /\ UNCHANGED <<newMirror, oldMirror, newTwin, oldTwin, HeldMirrors, HeldTwins, Named(newMirror)>>
  BY HeldKept
<1>2. TypeOK' /\ IdInv' /\ MirrorInv' /\ KeptInv'
  BY <1>1 DEF TypeOK, IdInv, MirrorInv, KeptInv, Bodies
<1>3. TwinInv' /\ LossInv' /\ EndInv'
  BY <1>1 DEF TwinInv, LossInv, EndInv, LeavesOneBehind, RaisesOnlyIfLost, Bodies
<1> QED BY <1>1, <1>2, <1>3

LEMMA CloseCarlaInv == IInv /\ CloseCarla => IInv'
<1> SUFFICES ASSUME IInv, CloseCarla PROVE IInv'
  OBVIOUS
<1> USE DEF CloseCarla, sumo, ids, news, IInv, Ended
<1>1. PICK destroyed \in SUBSET (alive \intersect Range(sumo2carla)) :
        /\ alive' = alive \ destroyed
        /\ kept' = kept \union ((alive \intersect Range(sumo2carla)) \ destroyed)
  OBVIOUS
<1>2. /\ HeldInv'
      /\ UNCHANGED <<newMirror, oldMirror, newTwin, oldTwin, HeldMirrors, HeldTwins, Named(newMirror)>>
  BY HeldKept
<1>3. TypeOK' /\ IdInv' /\ MirrorInv' /\ KeptInv'
  BY <1>1, <1>2 DEF TypeOK, IdInv, MirrorInv, KeptInv, Bodies
<1>4. TwinInv' /\ LossInv'
  BY <1>1, <1>2 DEF TwinInv, LossInv, RaisesOnlyIfLost, Bodies
<1>5. EndInv'
  BY <1>1, <1>2 DEF EndInv, LeavesOneBehind, MirrorInv
<1> QED BY <1>2, <1>3, <1>4, <1>5

LEMMA CloseSumoInv == IInv /\ CloseSumo => IInv'
<1> SUFFICES ASSUME IInv, CloseSumo PROVE IInv'
  OBVIOUS
<1>1. PICK removed \in SUBSET {t \in Range(carla2sumo) : InSumo(t)} :
        /\ pending' = pending \ removed /\ driving' = driving \ removed
        /\ \/ phase' = "closed" /\ removed = Range(carla2sumo)
           \/ phase' = "closeRaised"
  BY DEF CloseSumo, TwinsToRemove
<1> USE DEF CloseSumo, carla, ids, news, history, IInv, Ended
<1>2. /\ HeldInv'
      /\ UNCHANGED <<newMirror, oldMirror, newTwin, oldTwin, HeldMirrors, HeldTwins, Named(newMirror)>>
  BY <1>1, HeldKept
<1>3. TypeOK' /\ IdInv' /\ MirrorInv' /\ KeptInv'
  BY <1>1, <1>2 DEF TypeOK, IdInv, MirrorInv, KeptInv, Bodies
<1>4. TwinInv' /\ LossInv'
  BY <1>1, <1>2 DEF TwinInv, LossInv, RaisesOnlyIfLost, Bodies
<1>5. EndInv'
  BY <1>1, <1>2 DEF EndInv, LeavesOneBehind, TwinInv, Bodies
<1> QED BY <1>2, <1>3, <1>4, <1>5

-----------------------------------------------------------------------------
(* The inductive invariant: the dictionaries, and the statement under way, *)
(* name the mirrors and twins that are there, and who is missing was lost. *)
THEOREM CosimInductive == Spec => []IInv
<1>1. IInv /\ UNCHANGED vars => IInv'
  BY DEF vars, sumo, carla, ids, news, held, history, IInv, TypeOK, HeldInv, IdInv, MirrorInv, KeptInv,
         TwinInv, LossInv, EndInv, LeavesOneBehind, RaisesOnlyIfLost, Bodies, HeldMirrors, HeldTwins,
         Named
<1>2. IInv /\ [Next]_vars => IInv'
  BY <1>1, VehicleSpawnedInv, SumoTickInv, SpawnMirrorInv, RecordMirrorInv, MirrorFailsInv,
     PopMirrorInv, DestroyMirrorInv, MirrorsDestroyedInv, MoveMirrorsInv, WorldTickInv,
     SpawnTwinInv, RecordTwinInv, TwinFailsInv, PopTwinInv, RemoveTwinInv, MoveTwinsInv,
     InterruptedInv, CloseCarlaInv, CloseSumoInv
  DEF Next
<1> QED BY <1>2, InitInv, PTL DEF Spec

(* No dictionary holds INVALID_ACTOR_ID, for any trips and vehicles. *)
THEOREM CosimTypes == Spec => []TypeOK
<1>1. IInv => TypeOK
  BY DEF IInv
<1> QED BY <1>1, CosimInductive, PTL

(* No twin gets a mirror, no mirror a twin, no two share one. *)
THEOREM OneBodyEachHolds == Spec => []OneBodyEach
<1>1. IInv => OneBodyEach
  BY DEF IInv, MirrorInv, TwinInv, OneBodyEach
<1> QED BY <1>1, CosimInductive, PTL

(* After a tick everybody's other body belongs to somebody, or is a mirror *)
(* whose destroy failed.                                                   *)
THEOREM NoOrphansHolds == Spec => []NoOrphans
<1>1. IInv => NoOrphans
  BY RangeFacts, NothingHeld DEF IInv, MirrorInv, TwinInv, NoOrphans, MirrorsOf, TwinsOf, Bodies
<1> QED BY <1>1, CosimInductive, PTL

(* Wherever tick ends, close leaves behind at most the one vehicle that    *)
(* was just spawned or just popped, and the mirrors whose destroy failed.  *)
THEOREM LeavesOneBehindHolds == Spec => []LeavesOneBehind
<1>1. IInv => LeavesOneBehind
  BY DEF IInv, EndInv
<1> QED BY <1>1, CosimInductive, PTL

(* tick raises only when a twin arrived or a mirror was destroyed. *)
THEOREM RaisesOnlyIfLostHolds == Spec => []RaisesOnlyIfLost
<1>1. IInv => RaisesOnlyIfLost
  BY DEF IInv, LossInv
<1> QED BY <1>1, CosimInductive, PTL
=============================================================================
