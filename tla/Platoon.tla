------------------------------ MODULE Platoon ------------------------------
(***************************************************************************)
(* Vehicles joining platoons: PlatooningManager keeps the list of members, *)
(* PlatooningPlugin each vehicle's status and the vehicles in front of it  *)
(* and behind it, PlatooningBehaviorAgent.run_step is the state machine,   *)
(* V2XManager remembers the CAVs nearby, and the loop of the scenarios     *)
(* steps the platoons and then, one after the other, the single CAVs.      *)
(* One thread runs it all: a step of one vehicle is one action, and what   *)
(* the vehicles have read of each other in earlier steps goes stale.       *)
(*                                                                         *)
(* Where the vehicles are, what they hear and what blocks them is          *)
(* nondeterministic; so is whether a step raises an exception, which       *)
(* VehicleManager.run_step catches: what was assigned before stays.        *)
(*                                                                         *)
(* Left out: white lists (they only filter what the collision check sees), *)
(* routes, the flag leader (never read), and the speeds but the leader's.  *)
(* search_platoon forgets a CAV farther than 1000 m; here none is.         *)
(*                                                                         *)
(* A definition marked FAULT is not the code's: it is a plausible mistake  *)
(* in the definition that follows it, to try the properties against.       *)
(***************************************************************************)
EXTENDS Integers, Sequences

CONSTANTS
  Vehicles, Platoons, None,
  Initial,      \* the members each platoon is created with
  SingleList,   \* single_cav_list as the scenario creates it
  Connected,    \* the single CAVs whose v2x is enabled (cda_enabled)
  MaxCapacity,  \* maximum_capacity
  Audible,      \* bound: the CAVs that may ever come near enough to be heard
  OpenGap,      \* open_gap, in steps of 0.01 above inter_gap
  RecoverSteps  \* 200: the ticks the leader stays slow for a request

Elements(s) == {s[i] : i \in 1 .. Len(s)}

ASSUME PlatoonAssumption ==
  /\ None \notin Vehicles /\ None \notin Platoons /\ None \notin Nat
  /\ Initial \in [Platoons -> Seq(Vehicles)]
  /\ \A p, q \in Platoons :
       /\ Len(Initial[p]) > 0
       /\ \A i \in 1 .. Len(Initial[p]), j \in 1 .. Len(Initial[q]) :
            Initial[p][i] = Initial[q][j] => p = q /\ i = j
  /\ SingleList \in Seq(Vehicles)
  /\ \A p \in Platoons : Elements(Initial[p]) \cap Elements(SingleList) = {}
  /\ Audible \in [Vehicles -> SUBSET Vehicles] /\ \A v \in Vehicles : v \notin Audible[v]
  /\ MaxCapacity \in Nat
  /\ OpenGap \in Nat \ {0}
  /\ RecoverSteps \in Nat

VARIABLES
  list,       \* vehicle_manager_list of each platoon
  recover,    \* recover_speed_counter of each platoon
  pace,       \* leader_target_speed: 0 at first, slow, or the original one
  status,     \* the status of the state machine
  platoon,    \* platooning_object
  inId,       \* in_id, counted from 0; None outside a platoon
  front, rear,\* front_vehicle and rear_vechile
  gap,        \* current_gap, in steps above inter_gap
  blacklist,  \* platooning_blacklist
  nearby,     \* cav_nearby, from which nothing is removed
  singles,    \* single_cav_list
  turn        \* 0: the platoons step; i: the i-th single CAV does

speeds == <<recover, pace>>
links == <<front, rear>>
membership == <<list, platoon, inId>>
vars == <<membership, speeds, status, links, gap, blacklist, nearby, singles, turn>>

Joining == {"MOVE_TO_POINT", "JOINING", "BACK_JOINING", "FRONT_JOINING"}
Member == {"LEADING_MODE", "MAINTINING", "OPEN_GAP"}
Single == Joining \cup {"SEARCHING", "DISABLE"}

TypeOK ==
  /\ list \in [Platoons -> Seq(Vehicles)]
  /\ recover \in [Platoons -> 0 .. RecoverSteps]
  /\ pace \in [Platoons -> {"zero", "slow", "origin"}]
  /\ status \in [Vehicles -> Single \cup Member]
  /\ platoon \in [Vehicles -> Platoons \cup {None}]
  /\ inId \in [Vehicles -> Nat \cup {None}]
  /\ front \in [Vehicles -> Vehicles \cup {None}]
  /\ rear \in [Vehicles -> Vehicles \cup {None}]
  /\ gap \in [Vehicles -> 0 .. OpenGap]
  /\ blacklist \in [Vehicles -> SUBSET Platoons]
  /\ nearby \in [Vehicles -> SUBSET Vehicles]
  /\ singles \in Seq(Vehicles)
  /\ turn \in 0 .. Len(singles)
-----------------------------------------------------------------------------
(* The list of members.  Written point by point, as the proofs need it. *)

(* list.insert: e becomes the k-th element, counted from 1. *)
Inserted(s, k, e) ==
  [j \in 1 .. Len(s) + 1 |-> IF j < k THEN s[j] ELSE IF j = k THEN e ELSE s[j - 1]]

(* list.pop: the k-th element leaves. *)
Popped(s, k) == [j \in 1 .. Len(s) - 1 |-> IF j < k THEN s[j] ELSE s[j + 1]]

PositionIn(s, v) == CHOOSE i \in 1 .. Len(s) : s[i] = v
Last(s) == s[Len(s)]

(* PlatooningManager.update_member_order for the list s: what becomes of   *)
(* in_id, the status and the links of its members; the first keeps its     *)
(* front vehicle and the last its rear vehicle.                            *)
OrderedId(s) ==
  [v \in Vehicles |-> IF v \in Elements(s) THEN PositionIn(s, v) - 1 ELSE inId[v]]
OrderedStatus(s) ==
  [v \in Vehicles |-> IF v \notin Elements(s) THEN status[v]
                      ELSE IF v = s[1] THEN "LEADING_MODE" ELSE "MAINTINING"]
OrderedFront(s) ==
  [v \in Vehicles |-> IF v \in Elements(s) /\ v # s[1]
                      THEN s[PositionIn(s, v) - 1] ELSE front[v]]
(* FAULT: only the new member is linked, its neighbours are not told. *)
OrderedRearOfNew(s) ==
  [v \in Vehicles |-> IF v \in Elements(s) /\ v # Last(s) /\ inId[v] = None
                      THEN s[PositionIn(s, v) + 1] ELSE rear[v]]
OrderedRear(s) ==
  [v \in Vehicles |-> IF v \in Elements(s) /\ v # Last(s)
                      THEN s[PositionIn(s, v) + 1] ELSE rear[v]]

(* set_member and update_member_order: v becomes the member with in_id k   *)
(* of platoon p.                                                           *)
SetMember(v, p, k) ==
  LET s == Inserted(list[p], k + 1, v)
  IN  /\ list' = [list EXCEPT ![p] = s]
      /\ platoon' = [platoon EXCEPT ![v] = p]
      /\ inId' = OrderedId(s)
      /\ status' = OrderedStatus(s)
      /\ front' = OrderedFront(s)
      /\ rear' = OrderedRear(s)

(* joining_finish_manager, behind the front vehicle and before the rear one *)
FinishBehind(v) == SetMember(v, platoon[front[v]], inId[front[v]] + 1)
FinishBefore(v) == SetMember(v, platoon[rear[v]], inId[rear[v]])

(* set_lead, add_member and update_member_order of create_platoon_manager, *)
(* and set_platoon(None) of create_vehicle_manager.                        *)
Init ==
  LET members == UNION {Elements(Initial[p]) : p \in Platoons}
      home(v) == CHOOSE p \in Platoons : v \in Elements(Initial[p])
      place(v) == PositionIn(Initial[home(v)], v)
  IN  /\ list = Initial
      /\ recover = [p \in Platoons |-> 0]
      /\ pace = [p \in Platoons |-> "zero"]
      /\ status = [v \in Vehicles |->
                     IF v \notin members
                     THEN IF v \in Connected THEN "SEARCHING" ELSE "DISABLE"
                     ELSE IF place(v) = 1 THEN "LEADING_MODE" ELSE "MAINTINING"]
      /\ platoon = [v \in Vehicles |-> IF v \in members THEN home(v) ELSE None]
      /\ inId = [v \in Vehicles |-> IF v \in members THEN place(v) - 1 ELSE None]
      /\ front = [v \in Vehicles |->
                    IF v \in members /\ place(v) > 1
                    THEN Initial[home(v)][place(v) - 1] ELSE None]
      /\ rear = [v \in Vehicles |->
                   IF v \in members /\ place(v) < Len(Initial[home(v)])
                   THEN Initial[home(v)][place(v) + 1] ELSE None]
      /\ gap = [v \in Vehicles |-> 0]
      /\ blacklist = [v \in Vehicles |-> {}]
      /\ nearby = [v \in Vehicles |-> {}]
      /\ singles = SingleList
      /\ turn = 0
-----------------------------------------------------------------------------
(* One tick of the scenario: scenario_manager.tick(), then the platoons. *)

(* reset_speed *)
Recover ==
  /\ recover' = [p \in Platoons |-> IF recover[p] = 0 THEN 0 ELSE recover[p] - 1]
  /\ pace' = [p \in Platoons |-> IF recover[p] = 0 THEN "origin" ELSE pace[p]]

(* run_step_maintaining closes the gap; run_step_open_gap opens it by one  *)
(* step, unless calculate_gap divides by the speed of a vehicle that       *)
(* stands.                                                                 *)
(* FAULT: the gap is opened without an end. *)
GapAfterNoEnd(v, standing) ==
  CASE status[v] = "MAINTINING" -> 0
    [] status[v] = "OPEN_GAP" /\ v \notin standing -> gap[v] + 1
    [] OTHER -> gap[v]
GapAfter(v, standing) ==
  CASE status[v] = "MAINTINING" -> 0
    [] status[v] = "OPEN_GAP" /\ v \notin standing /\ gap[v] < OpenGap -> gap[v] + 1
    [] OTHER -> gap[v]

(* update_information and run_step of every PlatooningManager. *)
PlatoonsStep ==
  /\ turn = 0
  /\ Recover
  /\ \E standing \in SUBSET {v \in Vehicles : status[v] = "OPEN_GAP"} :
       gap' = [v \in Vehicles |-> GapAfter(v, standing)]
  /\ turn' = IF Len(singles) = 0 THEN 0 ELSE 1
  /\ UNCHANGED <<membership, status, links, blacklist, nearby, singles>>

(* for i, single_cav in enumerate(single_cav_list): the next index, when   *)
(* the list has n elements now.                                            *)
(* FAULT: the loop takes every other element. *)
NextTurnSkips(n) == IF turn + 1 < n THEN turn + 2 ELSE 0
NextTurn(n) == IF turn < n THEN turn + 1 ELSE 0

(* A CAV that is in a platoon is popped while the list is iterated: the    *)
(* next index now names the element after the next.                        *)
PopMember ==
  /\ turn > 0 /\ inId[singles[turn]] # None
  /\ singles' = Popped(singles, turn)
  /\ turn' = NextTurn(Len(singles) - 1)
  /\ UNCHANGED <<membership, speeds, status, links, gap, blacklist, nearby>>

(* A CAV that is not takes its step: update_info adds the CAVs it hears to *)
(* those nearby, then its agent runs.                                      *)
OnTurn(v) ==
  /\ turn > 0 /\ v = singles[turn] /\ inId[v] = None
  /\ \E heard \in SUBSET Audible[v] :
       nearby' = [nearby EXCEPT ![v] = @ \cup heard]
  /\ turn' = NextTurn(Len(singles))
  /\ UNCHANGED <<gap, singles>>
-----------------------------------------------------------------------------
(* SEARCHING *)

Outsiders == {w \in Vehicles : platoon[w] = None}

(* match_platoon begins with reset(). *)
Reset(v) ==
  /\ platoon' = [platoon EXCEPT ![v] = None]
  /\ inId' = [inId EXCEPT ![v] = None]

(* in_platoon is compared with None, not called: a nearby CAV without a    *)
(* platoon is not skipped, and its platoon_manager is None.                *)
SearchRaises(v) ==
  /\ nearby'[v] \cap Outsiders # {}
  /\ Reset(v)
  /\ front' = [front EXCEPT ![v] = None] /\ rear' = [rear EXCEPT ![v] = None]
  /\ UNCHANGED <<list, speeds, status, blacklist>>

(* search_platoon: a platoon with a member nearby. *)
(* FAULT: who has no platoon is skipped, as the comparison was meant. *)
FoundAmongMembers(v) == {p \in Platoons : nearby'[v] \cap Elements(list[p]) # {}}
Found(v) ==
  {p \in Platoons : nearby'[v] \cap Elements(list[p]) # {} /\ nearby'[v] \cap Outsiders = {}}

(* Nobody nearby, the black list, or a platoon that is full. *)
Accepts(v, p) == p \notin blacklist[v] /\ Len(list[p]) < MaxCapacity

SearchInVain(v) ==
  /\ nearby'[v] \cap Outsiders = {}
  /\ Found(v) = {} \/ \E p \in Found(v) : ~Accepts(v, p)
  /\ Reset(v)
  /\ front' = [front EXCEPT ![v] = None] /\ rear' = [rear EXCEPT ![v] = None]
  /\ UNCHANGED <<list, speeds, status, blacklist>>

(* response_joining_request slows the leader down; then the i-th member is *)
(* the closest one.  ahead: it is the first, and the CAV in front of it.   *)
(* FAULT: the links of an earlier attempt are not reset. *)
MatchWithoutReset(v, p, i, ahead) ==
  LET f == IF ahead THEN front[v] ELSE list[p][i]
      r == IF ahead THEN list[p][1]
           ELSE IF i < Len(list[p]) THEN list[p][i + 1] ELSE rear[v]
  IN  /\ ahead => i = 1
      /\ Reset(v)
      /\ front' = [front EXCEPT ![v] = f]
      /\ rear' = [rear EXCEPT ![v] = r]
      /\ status' = [status EXCEPT ![v] =
                      CASE f = None -> "FRONT_JOINING"
                        [] f # None /\ r # None -> "MOVE_TO_POINT"
                        [] OTHER -> "BACK_JOINING"]
      /\ recover' = [recover EXCEPT ![p] = RecoverSteps]
      /\ pace' = [pace EXCEPT ![p] = "slow"]
      /\ UNCHANGED <<list, blacklist>>
Match(v, p, i, ahead) ==
  LET f == IF ahead THEN None ELSE list[p][i]
      r == IF ahead THEN list[p][1]
           ELSE IF i < Len(list[p]) THEN list[p][i + 1] ELSE None
  IN  /\ ahead => i = 1
      /\ Reset(v)
      /\ front' = [front EXCEPT ![v] = f]
      /\ rear' = [rear EXCEPT ![v] = r]
      /\ status' = [status EXCEPT ![v] =
                      CASE f = None -> "FRONT_JOINING"
                        [] f # None /\ r # None -> "MOVE_TO_POINT"
                        [] OTHER -> "BACK_JOINING"]
      /\ recover' = [recover EXCEPT ![p] = RecoverSteps]
      /\ pace' = [pace EXCEPT ![p] = "slow"]
      /\ UNCHANGED <<list, blacklist>>

Search(v) ==
  /\ status[v] = "SEARCHING"
  /\ \/ SearchRaises(v)
     \/ SearchInVain(v)
     \/ \E p \in Found(v) :
          /\ Accepts(v, p)
          /\ \E i \in 1 .. Len(list[p]), ahead \in BOOLEAN : Match(v, p, i, ahead)
-----------------------------------------------------------------------------
(* MOVE_TO_POINT, JOINING, BACK_JOINING and FRONT_JOINING *)

(* The step changes nothing but what OnTurn does: the CAV is not where it  *)
(* should be, or v2x is disabled.                                          *)
StayOnCourse(v) ==
  /\ status[v] # "SEARCHING"
  /\ UNCHANGED <<membership, speeds, status, links, blacklist>>

RearGetsStatus(v, new) ==
  [w \in Vehicles |-> IF w = rear[v] THEN new ELSE status[w]]

(* hazard_flag: back joining instead, behind whoever is last now.          *)
(* super().run_step may raise before the new status is assigned.           *)
(* FAULT: the rear vehicle is not told. *)
CutInBlockedUntold(v, new) ==
  /\ status[v] = "MOVE_TO_POINT"
  /\ front' = [front EXCEPT ![v] = Last(list[platoon[front[v]]])]
  /\ rear' = [rear EXCEPT ![v] = None]
  /\ status' = [status EXCEPT ![v] = new]
  /\ UNCHANGED <<membership, speeds, blacklist>>
CutInBlocked(v, new) ==
  /\ status[v] = "MOVE_TO_POINT"
  /\ front' = [front EXCEPT ![v] = Last(list[platoon[front[v]]])]
  /\ rear' = [rear EXCEPT ![v] = None]
  /\ status' = [RearGetsStatus(v, "MAINTINING") EXCEPT ![v] = new]
  /\ UNCHANGED <<membership, speeds, blacklist>>

(* The rear vehicle is too close, or has not opened its gap yet. *)
AskForGap(v) ==
  /\ status[v] = "MOVE_TO_POINT" /\ rear[v] # None
  /\ status' = RearGetsStatus(v, "OPEN_GAP")
  /\ UNCHANGED <<membership, speeds, links, blacklist>>

Merge(v) ==
  /\ status[v] = "MOVE_TO_POINT"
  /\ rear[v] # None => gap[rear[v]] >= OpenGap
  /\ status' = [status EXCEPT ![v] = "JOINING"]
  /\ UNCHANGED <<membership, speeds, links, blacklist>>

(* run_step_maintaining raises after the rear vehicle was told to close up *)
FinishRaises(v) ==
  /\ status[v] = "JOINING"
  /\ status' = RearGetsStatus(v, "MAINTINING")
  /\ UNCHANGED <<membership, speeds, links, blacklist>>

Finish(v) ==
  /\ status[v] \in {"JOINING", "BACK_JOINING"}
  /\ FinishBehind(v)
  /\ UNCHANGED <<speeds, blacklist>>

FinishAhead(v) ==
  /\ status[v] = "FRONT_JOINING"
  /\ FinishBefore(v)
  /\ UNCHANGED <<speeds, blacklist>>

(* ABONDON: somebody is between the CAV and the platoon. *)
Abandon(v) ==
  /\ status[v] = "FRONT_JOINING"
  /\ status' = [status EXCEPT ![v] = "SEARCHING"]
  /\ blacklist' = [blacklist EXCEPT ![v] = @ \cup {platoon[rear[v]]}]
  /\ UNCHANGED <<membership, speeds, links>>

(* The CAV is no longer ahead of the platoon. *)
FallBehind(v) ==
  /\ status[v] = "FRONT_JOINING"
  /\ status' = [status EXCEPT ![v] = "SEARCHING"]
  /\ UNCHANGED <<membership, speeds, links, blacklist>>

SingleStep(v) ==
  /\ OnTurn(v)
  /\ \/ Search(v)
     \/ StayOnCourse(v)
     \/ \E new \in {"BACK_JOINING", "MOVE_TO_POINT"} : CutInBlocked(v, new)
     \/ AskForGap(v)
     \/ Merge(v)
     \/ FinishRaises(v)
     \/ Finish(v)
     \/ FinishAhead(v)
     \/ Abandon(v)
     \/ FallBehind(v)

Next == PlatoonsStep \/ PopMember \/ \E v \in Vehicles : SingleStep(v)

Spec == Init /\ [][Next]_vars
(* The loop goes on for as long as the scenario runs. *)
FairSpec == Spec /\ WF_vars(Next)
-----------------------------------------------------------------------------
(* Properties *)

(* Members are where the platoon's list has them. *)
ListsAgree ==
  \A p \in Platoons : \A i \in 1 .. Len(list[p]) :
    platoon[list[p][i]] = p /\ inId[list[p][i]] = i - 1
AgreeWithLists ==
  \A v \in Vehicles :
    IF platoon[v] = None THEN inId[v] = None /\ status[v] \in Single
    ELSE /\ inId[v] \in 0 .. Len(list[platoon[v]]) - 1
         /\ list[platoon[v]][inId[v] + 1] = v

(* The links run along the list and end at its ends. *)
Linked ==
  \A p \in Platoons : \A i \in 1 .. Len(list[p]) :
    LET v == list[p][i]
    IN  /\ front[v] = IF i = 1 THEN None ELSE list[p][i - 1]
        /\ rear[v] = IF i = Len(list[p]) THEN None ELSE list[p][i + 1]
        /\ status[v] \in IF i = 1 THEN {"LEADING_MODE"} ELSE {"MAINTINING", "OPEN_GAP"}

(* update_member_order: in every state between two steps nobody is a       *)
(* member twice or of two platoons, the members know their place, the      *)
(* links run along the list and end at its ends (nothing ever clears them  *)
(* there), and the first member alone leads.                               *)
MembersInOrder == ListsAgree /\ AgreeWithLists /\ Linked

(* What a joining CAV has chosen stays meaningful although others join     *)
(* meanwhile: its front and rear vehicles are members of one platoon, in   *)
(* this order, so that it is inserted somewhere between them; who joins at *)
(* the back has no rear vehicle, who joins at the front no front vehicle.  *)
JoinPoint(v) ==
  /\ status[v] \in {"MOVE_TO_POINT", "JOINING", "BACK_JOINING"} =>
       /\ front[v] # None /\ platoon[front[v]] # None
       /\ rear[v] # None => /\ platoon[rear[v]] = platoon[front[v]]
                            /\ inId[front[v]] < inId[rear[v]]
  /\ status[v] = "BACK_JOINING" => rear[v] = None
  /\ status[v] = "FRONT_JOINING" =>
       front[v] = None /\ rear[v] # None /\ platoon[rear[v]] # None
JoinPointStands == \A v \in Vehicles : JoinPoint(v)

(* A member opens its gap only for a CAV that still cuts in before it: no  *)
(* change of mind, blocked lane or other joining leaves it open for        *)
(* nobody.                                                                 *)
GapIsForSomebody ==
  \A r \in Vehicles : status[r] = "OPEN_GAP" =>
    \E v \in Vehicles : rear[v] = r /\ status[v] \in {"MOVE_TO_POINT", "JOINING"}

(* Two CAVs that search and have heard each other never find a platoon:    *)
(* each search fails on the other one, which has none (cav_nearby forgets  *)
(* nobody).                                                                *)
Blinded(v, w) ==
  /\ status[v] = "SEARCHING" /\ platoon[v] = None
  /\ status[w] = "SEARCHING" /\ platoon[w] = None
  /\ w \in nearby[v] /\ v \in nearby[w]
BlindedForEver == [][\A v, w \in Vehicles : Blinded(v, w) => Blinded(v, w)']_vars

(* The loop pops from the list it iterates and passes over a CAV each time *)
(* one has joined; still everybody drives again and again.                 *)
EveryoneDrives ==
  \A v \in Vehicles :
    []<>(IF turn = 0 THEN inId[v] # None ELSE singles[turn] = v)
=============================================================================
