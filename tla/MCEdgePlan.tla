----------------------------- MODULE MCEdgePlan -----------------------------
(* The traffics that TLC checks EdgePlan with. *)
EXTENDS EdgePlan

Positions == {<<10, 18, 40, 52>>, <<20, 24, 20, 60>>, <<3, 190, 196, 185>>}
LanesOf == {<<0, 0, 0, 0>>, <<0, 1, 2, 3>>, <<1, 1, 2, 2>>, <<0, 1, 0, 1>>, <<0, 2, 2, 0>>}
Speeds == {<<0, 0, 0, 0>>, <<15, 15, 15, 15>>, <<24, 4, 9, 14>>}
Traffic(p, l, v) == [c \in Cars |-> [pos |-> p[c], lane |-> l[c], v |-> v[c]]]
MCTraffics ==
  {t \in {Traffic(p, l, v) : p \in Positions, l \in LanesOf, v \in Speeds} :
     \A c, d \in Cars :
       c # d /\ t[c].lane = t[d].lane => Distance(t[c].pos, t[d].pos) >= 3}
=============================================================================
