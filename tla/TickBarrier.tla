---------------------------- MODULE TickBarrier ----------------------------
(***************************************************************************)
(* What the eCloud tick protocol promises the simulation: ticks are rounds *)
(* of a barrier.  The simulation opens a round; every vehicle that has not *)
(* finished its route answers in it, or answers that it is done and leaves *)
(* for good; the round is released only when nobody is awaited any more,   *)
(* and only then may the next one be opened.                               *)
(***************************************************************************)
EXTENDS Naturals

CONSTANT Vehicles     \* the vehicle clients that registered

VARIABLES
  round,      \* number of rounds opened so far: the simulation's tick
  released,   \* TRUE between the release of a round and the next opening
  waiting,    \* the vehicles the open round still waits for
  done        \* the vehicles that left the barrier: route over, or debug sent

bvars == <<round, released, waiting, done>>

BInit ==
  /\ round = 0
  /\ released = TRUE
  /\ waiting = {}
  /\ done = {}

(* The simulation opens the next round for the vehicles still driving. *)
Open ==
  /\ released
  /\ round' = round + 1
  /\ released' = FALSE
  /\ waiting' = Vehicles \ done
  /\ UNCHANGED done

(* v answers that it has executed the round and will take part in the next. *)
Answer(v) ==
  /\ ~released
  /\ v \in waiting
  /\ waiting' = waiting \ {v}
  /\ UNCHANGED <<round, released, done>>

(* v answers for the last time. *)
Leave(v) ==
  /\ ~released
  /\ v \in waiting
  /\ waiting' = waiting \ {v}
  /\ done' = done \union {v}
  /\ UNCHANGED <<round, released>>

(* The simulation learns that the round is over. *)
Release ==
  /\ ~released
  /\ waiting = {}
  /\ released' = TRUE
  /\ UNCHANGED <<round, waiting, done>>

BNext ==
  \/ Open
  \/ \E v \in Vehicles : Answer(v) \/ Leave(v)
  \/ Release

BSpec == BInit /\ [][BNext]_bvars
=============================================================================
