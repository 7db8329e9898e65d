----------------------------- MODULE MCPlatoon -----------------------------
(* The platoons and single CAVs that TLC checks Platoon with. *)
EXTENDS Platoon, TLC

CONSTANTS a, b, c, x, y, z, p, q

MCInitial == p :> <<a, b>> @@ q :> <<c>>
MCSingleList == <<x, z, y>>
(* Which member of a platoon is heard makes no difference; z cannot join. *)
MCAudible == [v \in Vehicles |->
                CASE v = x -> {a, c, y, z} [] v = y -> {a, c, x} [] OTHER -> {}]
=============================================================================
