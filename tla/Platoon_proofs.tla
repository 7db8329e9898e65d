--------------------------- MODULE Platoon_proofs ---------------------------
(***************************************************************************)
(* Platoons stay in order and joining vehicles keep a meaningful place,    *)
(* for any number of platoons and vehicles and any capacity.               *)
(***************************************************************************)
EXTENDS Platoon, SequenceTheorems, TLAPS

IInv == TypeOK /\ MembersInOrder /\ JoinPointStands /\ GapIsForSomebody

Distinct(s) == \A i, j \in 1 .. Len(s) : s[i] = s[j] => i = j
-----------------------------------------------------------------------------
(* The list operations, point by point. *)

LEMMA PositionUnique ==
  ASSUME NEW s \in Seq(Vehicles), Distinct(s), NEW i \in 1 .. Len(s)
  PROVE  PositionIn(s, s[i]) = i
<1>1. \E j \in 1 .. Len(s) : s[j] = s[i]
  OBVIOUS
<1>2. PositionIn(s, s[i]) \in 1 .. Len(s) /\ s[PositionIn(s, s[i])] = s[i]
  BY <1>1 DEF PositionIn
<1> QED BY <1>2 DEF Distinct

LEMMA InsertedFacts ==
  ASSUME NEW s \in Seq(Vehicles), NEW k \in 1 .. Len(s) + 1, NEW e \in Vehicles
  PROVE  /\ Inserted(s, k, e) \in Seq(Vehicles)
         /\ Len(Inserted(s, k, e)) = Len(s) + 1
         /\ \A j \in 1 .. Len(s) + 1 :
              Inserted(s, k, e)[j] = IF j < k THEN s[j] ELSE IF j = k THEN e ELSE s[j - 1]
<1>1. Len(s) \in Nat /\ \A j \in 1 .. Len(s) : s[j] \in Vehicles
  BY LenProperties, ElementOfSeq
<1>2. \A j \in 1 .. Len(s) + 1 :
        (IF j < k THEN s[j] ELSE IF j = k THEN e ELSE s[j - 1]) \in Vehicles
  BY <1>1
<1>3. Inserted(s, k, e) \in [1 .. Len(s) + 1 -> Vehicles]
  BY <1>2 DEF Inserted
<1>4. Inserted(s, k, e) \in Seq(Vehicles)
  BY <1>1, <1>3, IsASeq
<1>5. DOMAIN Inserted(s, k, e) = 1 .. Len(s) + 1
  BY DEF Inserted
<1>6. Len(Inserted(s, k, e)) = Len(s) + 1
  BY <1>1, <1>4, <1>5, LenProperties
<1> QED BY <1>4, <1>6 DEF Inserted

LEMMA PoppedFacts ==
  ASSUME NEW s \in Seq(Vehicles), NEW k \in 1 .. Len(s)
  PROVE  Popped(s, k) \in Seq(Vehicles) /\ Len(Popped(s, k)) = Len(s) - 1
<1>1. Len(s) \in Nat /\ \A j \in 1 .. Len(s) : s[j] \in Vehicles
  BY LenProperties, ElementOfSeq
<1>2. \A j \in 1 .. Len(s) - 1 : (IF j < k THEN s[j] ELSE s[j + 1]) \in Vehicles
  BY <1>1
<1>3. Popped(s, k) \in [1 .. Len(s) - 1 -> Vehicles]
  BY <1>2 DEF Popped
<1>4. Len(s) - 1 \in Nat
  BY <1>1
<1>5. Popped(s, k) \in Seq(Vehicles)
  BY <1>3, <1>4, IsASeq
<1> QED BY <1>3, <1>4, <1>5, LenProperties

LEMMA TurnFits ==
  ASSUME NEW n \in Nat, turn \in Nat
  PROVE  NextTurn(n) \in 0 .. n
BY DEF NextTurn
-----------------------------------------------------------------------------
(* What the invariant says of a member and of an outsider. *)

LEMMA NoneIsNoPlatoon == None \notin Platoons /\ None \notin Vehicles /\ None \notin Nat
BY PlatoonAssumption DEF PlatoonAssumption

LEMMA MemberFacts ==
  ASSUME IInv, NEW v \in Vehicles, platoon[v] # None
  PROVE  /\ platoon[v] \in Platoons
         /\ inId[v] \in Nat
         /\ inId[v] + 1 \in 1 .. Len(list[platoon[v]])
         /\ list[platoon[v]][inId[v] + 1] = v
         /\ status[v] \notin Single
         /\ inId[v] > 0 => status[v] \in {"MAINTINING", "OPEN_GAP"}
<1>1. platoon[v] \in Platoons
  BY DEF IInv, TypeOK
<1>2. list[platoon[v]] \in Seq(Vehicles)
  BY <1>1 DEF IInv, TypeOK
<1>3. Len(list[platoon[v]]) \in Nat
  BY <1>2, LenProperties
<1>4. inId[v] \in 0 .. Len(list[platoon[v]]) - 1 /\ list[platoon[v]][inId[v] + 1] = v
  BY DEF IInv, MembersInOrder, AgreeWithLists
<1>5. inId[v] + 1 \in 1 .. Len(list[platoon[v]])
  BY <1>3, <1>4
<1>6. status[v] \in IF inId[v] + 1 = 1 THEN {"LEADING_MODE"} ELSE {"MAINTINING", "OPEN_GAP"}
  BY <1>1, <1>4, <1>5 DEF IInv, MembersInOrder, Linked
<1> QED BY <1>1, <1>3, <1>4, <1>5, <1>6 DEF Single, Joining

LEMMA OutsiderFacts ==
  ASSUME IInv, NEW v \in Vehicles, inId[v] = None
  PROVE  /\ platoon[v] = None
         /\ \A p \in Platoons : \A i \in 1 .. Len(list[p]) : list[p][i] # v
<1>1. platoon[v] = None
  BY MemberFacts, NoneIsNoPlatoon
<1> QED BY <1>1, NoneIsNoPlatoon DEF IInv, MembersInOrder, ListsAgree

LEMMA ListFacts ==
  ASSUME IInv, NEW p \in Platoons
  PROVE  /\ list[p] \in Seq(Vehicles) /\ Len(list[p]) \in Nat
         /\ Distinct(list[p])
         /\ \A i \in 1 .. Len(list[p]) :
              list[p][i] \in Vehicles /\ platoon[list[p][i]] = p /\ inId[list[p][i]] = i - 1
<1>1. list[p] \in Seq(Vehicles)
  BY DEF IInv, TypeOK
<1>2. Len(list[p]) \in Nat /\ \A i \in 1 .. Len(list[p]) : list[p][i] \in Vehicles
  BY <1>1, LenProperties, ElementOfSeq
<1>3. \A i \in 1 .. Len(list[p]) : platoon[list[p][i]] = p /\ inId[list[p][i]] = i - 1
  BY DEF IInv, MembersInOrder, ListsAgree
<1>4. Distinct(list[p])
  BY <1>2, <1>3 DEF Distinct
<1> QED BY <1>1, <1>2, <1>3, <1>4
-----------------------------------------------------------------------------
(* set_member and update_member_order: an outsider becomes a member. *)

LEMMA SetMemberList ==
  ASSUME IInv, NEW v \in Vehicles, inId[v] = None,
         NEW p \in Platoons, NEW k \in 0 .. Len(list[p]), SetMember(v, p, k)
  PROVE  /\ list' \in [Platoons -> Seq(Vehicles)]
         /\ \A q \in Platoons : q # p => list'[q] = list[q]
         /\ Len(list'[p]) = Len(list[p]) + 1
         /\ \A j \in 1 .. Len(list[p]) + 1 :
              list'[p][j] = IF j < k + 1 THEN list[p][j]
                            ELSE IF j = k + 1 THEN v ELSE list[p][j - 1]
         /\ Distinct(list'[p])
<1> DEFINE s == Inserted(list[p], k + 1, v)
<1>1. list[p] \in Seq(Vehicles) /\ Len(list[p]) \in Nat /\ Distinct(list[p])
  BY ListFacts
<1>2. /\ s \in Seq(Vehicles)
      /\ Len(s) = Len(list[p]) + 1
      /\ \A j \in 1 .. Len(list[p]) + 1 :
           s[j] = IF j < k + 1 THEN list[p][j] ELSE IF j = k + 1 THEN v ELSE list[p][j - 1]
  <2> DEFINE l == list[p]
             n == k + 1
  <2>1. l \in Seq(Vehicles) /\ n \in 1 .. Len(l) + 1
    BY <1>1
  <2>2. /\ Inserted(l, n, v) \in Seq(Vehicles)
        /\ Len(Inserted(l, n, v)) = Len(l) + 1
        /\ \A j \in 1 .. Len(l) + 1 :
             Inserted(l, n, v)[j] = IF j < n THEN l[j] ELSE IF j = n THEN v ELSE l[j - 1]
    <3> HIDE DEF l, n
    <3> QED BY <2>1, InsertedFacts
  <2> QED BY <2>2
<1>3. \A i \in 1 .. Len(list[p]) : list[p][i] # v
  BY OutsiderFacts
<1>4. list' = [list EXCEPT ![p] = s]
  BY DEF SetMember
<1>5. list'[p] = s /\ list' \in [Platoons -> Seq(Vehicles)]
      /\ \A q \in Platoons : q # p => list'[q] = list[q]
  <2> HIDE DEF s
  <2> QED BY <1>2, <1>4 DEF IInv, TypeOK
<1>6. Distinct(s)
  <2> HIDE DEF s
  <2> SUFFICES ASSUME NEW i \in 1 .. Len(s), NEW j \in 1 .. Len(s), s[i] = s[j]
               PROVE  i = j
    BY DEF Distinct
  <2> DEFINE old(a) == IF a < k + 1 THEN a ELSE a - 1
  <2>1. \A a \in 1 .. Len(s) :
          a # k + 1 => old(a) \in 1 .. Len(list[p]) /\ s[a] = list[p][old(a)]
    BY <1>1, <1>2
  <2>2. \A a \in 1 .. Len(s) : a = k + 1 => s[a] = v
    BY <1>1, <1>2
  <2>3. CASE i = k + 1 \/ j = k + 1
    <3> HIDE DEF old
    <3> QED BY <1>3, <2>1, <2>2, <2>3
  <2>4. CASE i # k + 1 /\ j # k + 1
    <3>1. old(i) = old(j)
      <4> HIDE DEF old
      <4> QED BY <1>1, <2>1, <2>4 DEF Distinct
    <3> QED BY <1>1, <1>2, <2>4, <3>1
  <2> QED BY <2>3, <2>4
<1> HIDE DEF s
<1>7. Distinct(list'[p]) /\ Len(list'[p]) = Len(list[p]) + 1
  BY <1>2, <1>5, <1>6
<1>8. \A j \in 1 .. Len(list[p]) + 1 :
        list'[p][j] = IF j < k + 1 THEN list[p][j]
                      ELSE IF j = k + 1 THEN v ELSE list[p][j - 1]
  BY <1>2, <1>5
<1> QED BY <1>5, <1>7, <1>8

LEMMA SetMemberRest ==
  ASSUME IInv, NEW v \in Vehicles, inId[v] = None,
         NEW p \in Platoons, NEW k \in 0 .. Len(list[p]), SetMember(v, p, k)
  PROVE  /\ platoon' = [platoon EXCEPT ![v] = p]
         /\ \A i \in 1 .. Len(list'[p]) :
              LET w == list'[p][i]
              IN  /\ inId'[w] = i - 1
                  /\ status'[w] = IF i = 1 THEN "LEADING_MODE" ELSE "MAINTINING"
                  /\ front'[w] = IF i = 1 THEN front[w] ELSE list'[p][i - 1]
                  /\ rear'[w] = IF i = Len(list'[p]) THEN rear[w] ELSE list'[p][i + 1]
         /\ \A w \in Vehicles :
              (\A i \in 1 .. Len(list'[p]) : list'[p][i] # w) =>
                 /\ inId'[w] = inId[w] /\ status'[w] = status[w]
                 /\ front'[w] = front[w] /\ rear'[w] = rear[w]
<1> DEFINE s == list'[p]
<1>1. /\ s \in Seq(Vehicles) /\ Len(s) \in Nat /\ Distinct(s)
      /\ \A i \in 1 .. Len(s) : s[i] \in Vehicles
      /\ Len(s) >= 1
  <2>1. s \in Seq(Vehicles) /\ Distinct(s) /\ Len(s) = Len(list[p]) + 1
    BY SetMemberList
  <2>2. Len(list[p]) \in Nat
    BY ListFacts
  <2> HIDE DEF s
  <2> QED BY <2>1, <2>2, LenProperties, ElementOfSeq
<1>2. /\ platoon' = [platoon EXCEPT ![v] = p]
      /\ inId' = OrderedId(s) /\ status' = OrderedStatus(s)
      /\ front' = OrderedFront(s) /\ rear' = OrderedRear(s)
  BY SetMemberList DEF SetMember
<1> HIDE DEF s
<1>3. ASSUME NEW i \in 1 .. Len(s)
      PROVE  /\ s[i] \in Elements(s) /\ PositionIn(s, s[i]) = i
             /\ s[i] = s[1] <=> i = 1
             /\ s[i] = Last(s) <=> i = Len(s)
  <2>1. s[i] \in Elements(s)
    BY DEF Elements
  <2>2. PositionIn(s, s[i]) = i
    BY <1>1, PositionUnique
  <2>3. 1 \in 1 .. Len(s) /\ Len(s) \in 1 .. Len(s)
    BY <1>1
  <2> QED BY <1>1, <2>1, <2>2, <2>3 DEF Distinct, Last
<1>4. ASSUME NEW i \in 1 .. Len(s)
      PROVE  /\ inId'[s[i]] = i - 1
             /\ status'[s[i]] = IF i = 1 THEN "LEADING_MODE" ELSE "MAINTINING"
             /\ front'[s[i]] = IF i = 1 THEN front[s[i]] ELSE s[i - 1]
             /\ rear'[s[i]] = IF i = Len(s) THEN rear[s[i]] ELSE s[i + 1]
  <2>1. s[i] \in Vehicles
    BY <1>1
  <2>2. inId'[s[i]] = i - 1
    BY <1>2, <1>3, <2>1 DEF OrderedId
  <2>3. status'[s[i]] = IF i = 1 THEN "LEADING_MODE" ELSE "MAINTINING"
    BY <1>2, <1>3, <2>1 DEF OrderedStatus
  <2>4. front'[s[i]] = IF i = 1 THEN front[s[i]] ELSE s[i - 1]
    BY <1>2, <1>3, <2>1 DEF OrderedFront
  <2>5. rear'[s[i]] = IF i = Len(s) THEN rear[s[i]] ELSE s[i + 1]
    BY <1>2, <1>3, <2>1 DEF OrderedRear
  <2> QED BY <2>2, <2>3, <2>4, <2>5
<1>5. ASSUME NEW w \in Vehicles, \A i \in 1 .. Len(s) : s[i] # w
      PROVE  /\ inId'[w] = inId[w] /\ status'[w] = status[w]
             /\ front'[w] = front[w] /\ rear'[w] = rear[w]
  <2>1. w \notin Elements(s)
    BY <1>5 DEF Elements
  <2> QED BY <1>2, <2>1 DEF OrderedId, OrderedStatus, OrderedFront, OrderedRear
<1> QED BY <1>2, <1>4, <1>5 DEF s
-----------------------------------------------------------------------------
(* What every step of a single CAV leaves in place. *)

LEMMA OnTurnFacts ==
  ASSUME IInv, NEW v \in Vehicles, OnTurn(v)
  PROVE  /\ platoon[v] = None
         /\ \A p \in Platoons : \A i \in 1 .. Len(list[p]) : list[p][i] # v
         /\ nearby' \in [Vehicles -> SUBSET Vehicles]
         /\ \A w \in Vehicles : nearby[w] \subseteq nearby'[w]
         /\ singles' \in Seq(Vehicles) /\ turn' \in 0 .. Len(singles')
         /\ gap' \in [Vehicles -> 0 .. OpenGap]
<1>1. singles \in Seq(Vehicles) /\ Len(singles) \in Nat /\ turn \in Nat
  BY LenProperties DEF IInv, TypeOK
<1>2. turn' \in 0 .. Len(singles)
  BY <1>1, TurnFits DEF OnTurn
<1>3. PICK heard \in SUBSET Audible[v] : nearby' = [nearby EXCEPT ![v] = @ \cup heard]
  BY DEF OnTurn
<1>4. nearby \in [Vehicles -> SUBSET Vehicles] /\ heard \subseteq Vehicles
  BY <1>3, PlatoonAssumption DEF IInv, TypeOK, PlatoonAssumption
<1>5. inId[v] = None
  BY DEF OnTurn
<1>6. singles' = singles /\ gap' = gap /\ gap \in [Vehicles -> 0 .. OpenGap]
  BY DEF OnTurn, IInv, TypeOK
<1> QED BY <1>1, <1>2, <1>3, <1>4, <1>5, <1>6, OutsiderFacts

(* The list stays; only the status of members that follow another, and     *)
(* what concerns outsiders, changes.                                       *)
LEMMA OrderFrame ==
  ASSUME IInv, TypeOK', UNCHANGED membership,
         \A w \in Vehicles :
           IF platoon[w] = None THEN status'[w] \in Single
           ELSE /\ front'[w] = front[w] /\ rear'[w] = rear[w]
                /\ \/ status'[w] = status[w]
                   \/ inId[w] > 0 /\ status'[w] \in {"MAINTINING", "OPEN_GAP"}
  PROVE  MembersInOrder'
<1>1. ListsAgree'
  BY DEF IInv, MembersInOrder, ListsAgree, membership
<1>2. AgreeWithLists'
  BY DEF IInv, MembersInOrder, AgreeWithLists, membership
<1>3. Linked'
  <2>1. list' = list
    BY DEF membership
  <2>2. ASSUME NEW p \in Platoons, NEW i \in 1 .. Len(list[p])
        PROVE  /\ front'[list[p][i]] = IF i = 1 THEN None ELSE list[p][i - 1]
               /\ rear'[list[p][i]] = IF i = Len(list[p]) THEN None ELSE list[p][i + 1]
               /\ status'[list[p][i]] \in
                    IF i = 1 THEN {"LEADING_MODE"} ELSE {"MAINTINING", "OPEN_GAP"}
    <3> DEFINE w == list[p][i]
    <3>1. w \in Vehicles /\ platoon[w] = p /\ inId[w] = i - 1
      BY ListFacts
    <3>2. /\ front[w] = IF i = 1 THEN None ELSE list[p][i - 1]
          /\ rear[w] = IF i = Len(list[p]) THEN None ELSE list[p][i + 1]
          /\ status[w] \in IF i = 1 THEN {"LEADING_MODE"} ELSE {"MAINTINING", "OPEN_GAP"}
      BY DEF IInv, MembersInOrder, Linked
    <3>3. platoon[w] # None
      BY <3>1, NoneIsNoPlatoon
    <3> HIDE DEF w
    <3>4. /\ front'[w] = front[w] /\ rear'[w] = rear[w]
          /\ \/ status'[w] = status[w]
             \/ inId[w] > 0 /\ status'[w] \in {"MAINTINING", "OPEN_GAP"}
      BY <3>1, <3>3
    <3>5. i \in Int
      OBVIOUS
    <3>6. status'[w] \in IF i = 1 THEN {"LEADING_MODE"} ELSE {"MAINTINING", "OPEN_GAP"}
      BY <3>1, <3>2, <3>4, <3>5
    <3> QED BY <3>2, <3>4, <3>6 DEF w
  <2> QED BY <2>1, <2>2 DEF Linked
<1> QED BY <1>1, <1>2, <1>3 DEF MembersInOrder
(* Of the vehicles a joining CAV has chosen, the rear one does not lead. *)
LEMMA JoinerFacts ==
  ASSUME IInv, NEW v \in Vehicles, status[v] \in {"MOVE_TO_POINT", "JOINING", "BACK_JOINING"}
  PROVE  /\ front[v] \in Vehicles /\ platoon[front[v]] # None
         /\ rear[v] # None => /\ rear[v] \in Vehicles /\ platoon[rear[v]] # None
                              /\ platoon[rear[v]] = platoon[front[v]]
                              /\ inId[front[v]] < inId[rear[v]]
                              /\ inId[rear[v]] > 0
<1>1. JoinPoint(v)
  BY DEF IInv, JoinPointStands
<1>2. front[v] \in Vehicles /\ platoon[front[v]] # None
  BY <1>1 DEF JoinPoint, IInv, TypeOK
<1>3. inId[front[v]] \in Nat
  BY <1>2, MemberFacts
<1>4. ASSUME rear[v] # None
      PROVE  /\ rear[v] \in Vehicles /\ platoon[rear[v]] = platoon[front[v]]
             /\ inId[front[v]] < inId[rear[v]]
  BY <1>1, <1>4 DEF JoinPoint, IInv, TypeOK
<1>5. rear[v] # None => inId[rear[v]] \in Nat
  BY <1>2, <1>4, MemberFacts
<1> QED BY <1>2, <1>3, <1>4, <1>5

(* An outsider whose status does not become one of a gap's requesters      *)
(* takes no witness away, when no gap opens.                               *)
LEMMA GapFrame ==
  ASSUME IInv, NEW v \in Vehicles,
         \A w \in Vehicles : status'[w] = "OPEN_GAP" =>
           status[w] = "OPEN_GAP" /\ w # rear[v],
         \A w \in Vehicles :
           w # v /\ status[w] \in {"MOVE_TO_POINT", "JOINING"} =>
             status'[w] = status[w] /\ rear'[w] = rear[w]
  PROVE  GapIsForSomebody'
<1> SUFFICES ASSUME NEW r \in Vehicles, status'[r] = "OPEN_GAP"
             PROVE  \E w \in Vehicles :
                      rear'[w] = r /\ status'[w] \in {"MOVE_TO_POINT", "JOINING"}
  BY DEF GapIsForSomebody
<1>1. PICK w \in Vehicles : rear[w] = r /\ status[w] \in {"MOVE_TO_POINT", "JOINING"}
  BY DEF IInv, GapIsForSomebody
<1>2. w # v
  BY <1>1
<1> QED BY <1>1, <1>2

LEMMA ResetKeepsMembership ==
  ASSUME IInv, NEW v \in Vehicles, OnTurn(v), Reset(v)
  PROVE  platoon' = platoon /\ inId' = inId
<1>1. platoon[v] = None /\ inId[v] = None
  BY OnTurnFacts DEF OnTurn
<1> QED BY <1>1 DEF Reset, IInv, TypeOK

(* A search that fails clears the links of an outsider. *)
LEMMA FailedSearchKeeps ==
  ASSUME IInv, NEW v \in Vehicles, OnTurn(v), status[v] = "SEARCHING",
         SearchRaises(v) \/ SearchInVain(v)
  PROVE  IInv'
<1>1. /\ UNCHANGED <<list, speeds, status, blacklist>>
      /\ front' = [front EXCEPT ![v] = None] /\ rear' = [rear EXCEPT ![v] = None]
      /\ platoon' = platoon /\ inId' = inId
  BY ResetKeepsMembership DEF SearchRaises, SearchInVain
<1>2. TypeOK'
  BY <1>1, OnTurnFacts DEF IInv, TypeOK, speeds
<1>3. MembersInOrder'
  <2>1. ASSUME NEW w \in Vehicles
        PROVE  IF platoon[w] = None THEN status'[w] \in Single
               ELSE front'[w] = front[w] /\ rear'[w] = rear[w] /\ status'[w] = status[w]
    <3>1. CASE platoon[w] = None
      BY <1>1, <3>1 DEF IInv, MembersInOrder, AgreeWithLists
    <3>2. CASE platoon[w] # None
      BY <1>1, <3>2, OnTurnFacts DEF IInv, TypeOK
    <3> QED BY <3>1, <3>2
  <2>2. UNCHANGED membership
    BY <1>1 DEF membership
  <2> QED BY <1>2, <2>1, <2>2, OrderFrame
<1>4. JoinPointStands'
  <2> SUFFICES ASSUME NEW w \in Vehicles PROVE JoinPoint(w)'
    BY DEF JoinPointStands
  <2>1. CASE w = v
    BY <1>1, <2>1 DEF JoinPoint
  <2>2. CASE w # v
    BY <1>1, <2>2 DEF JoinPoint, IInv, JoinPointStands, TypeOK
  <2> QED BY <2>1, <2>2
<1>5. GapIsForSomebody'
  <2> SUFFICES ASSUME NEW r \in Vehicles, status[r] = "OPEN_GAP"
               PROVE  \E w \in Vehicles :
                        rear'[w] = r /\ status[w] \in {"MOVE_TO_POINT", "JOINING"}
    BY <1>1 DEF GapIsForSomebody
  <2>1. PICK w \in Vehicles : rear[w] = r /\ status[w] \in {"MOVE_TO_POINT", "JOINING"}
    BY DEF IInv, GapIsForSomebody
  <2> QED BY <1>1, <2>1 DEF IInv, TypeOK
<1> QED BY <1>2, <1>3, <1>4, <1>5 DEF IInv
(* A CAV whose request is accepted chooses two neighbours, or one end.     *)
LEMMA MatchKeeps ==
  ASSUME IInv, NEW v \in Vehicles, OnTurn(v), status[v] = "SEARCHING",
         NEW p \in Platoons, NEW i \in 1 .. Len(list[p]), NEW ahead \in BOOLEAN,
         Match(v, p, i, ahead)
  PROVE  IInv'
<1> DEFINE f == IF ahead THEN None ELSE list[p][i]
           r == IF ahead THEN list[p][1] ELSE IF i < Len(list[p]) THEN list[p][i + 1] ELSE None
           new == CASE f = None -> "FRONT_JOINING"
                    [] f # None /\ r # None -> "MOVE_TO_POINT"
                    [] OTHER -> "BACK_JOINING"
<1>1. /\ UNCHANGED <<list, blacklist>>
      /\ front' = [front EXCEPT ![v] = f] /\ rear' = [rear EXCEPT ![v] = r]
      /\ status' = [status EXCEPT ![v] = new]
      /\ recover' = [recover EXCEPT ![p] = RecoverSteps]
      /\ pace' = [pace EXCEPT ![p] = "slow"]
      /\ platoon' = platoon /\ inId' = inId
  BY ResetKeepsMembership DEF Match
<1>2. /\ Len(list[p]) \in Nat
      /\ \A j \in 1 .. Len(list[p]) : /\ list[p][j] \in Vehicles /\ list[p][j] # None
                                      /\ platoon[list[p][j]] = p /\ platoon[list[p][j]] # None
                                      /\ inId[list[p][j]] = j - 1
  BY ListFacts, NoneIsNoPlatoon
<1>3. 1 \in 1 .. Len(list[p]) /\ (i < Len(list[p]) => i + 1 \in 1 .. Len(list[p]))
  BY <1>2
<1>4. /\ f \in Vehicles \cup {None} /\ r \in Vehicles \cup {None}
      /\ new \in {"FRONT_JOINING", "MOVE_TO_POINT", "BACK_JOINING"}
      /\ new = "FRONT_JOINING" => f = None /\ r # None /\ platoon[r] # None
      /\ new = "BACK_JOINING" => f # None /\ platoon[f] # None /\ r = None
      /\ new = "MOVE_TO_POINT" => /\ f # None /\ platoon[f] # None /\ r # None
                                  /\ platoon[r] = platoon[f] /\ inId[f] < inId[r]
  <2>1. CASE ahead
    BY <1>2, <1>3, <2>1
  <2>2. CASE ~ahead /\ i < Len(list[p])
    BY <1>2, <1>3, <2>2
  <2>3. CASE ~ahead /\ ~(i < Len(list[p]))
    BY <1>2, <1>3, <2>3
  <2> QED BY <2>1, <2>2, <2>3
<1> HIDE DEF f, r, new
<1>5. TypeOK'
  <2>1. /\ recover' \in [Platoons -> 0 .. RecoverSteps]
        /\ pace' \in [Platoons -> {"zero", "slow", "origin"}]
    BY <1>1, PlatoonAssumption DEF IInv, TypeOK, PlatoonAssumption
  <2> QED BY <1>1, <1>4, <2>1, OnTurnFacts DEF IInv, TypeOK, Single, Joining
<1>6. MembersInOrder'
  <2>1. ASSUME NEW w \in Vehicles
        PROVE  IF platoon[w] = None THEN status'[w] \in Single
               ELSE front'[w] = front[w] /\ rear'[w] = rear[w] /\ status'[w] = status[w]
    <3>1. CASE w = v
      BY <1>1, <1>4, <3>1, OnTurnFacts DEF IInv, TypeOK, Single, Joining
    <3>2. CASE w # v
      BY <1>1, <3>2 DEF IInv, TypeOK, MembersInOrder, AgreeWithLists
    <3> QED BY <3>1, <3>2
  <2>2. UNCHANGED membership
    BY <1>1 DEF membership
  <2> QED BY <1>5, <2>1, <2>2, OrderFrame
<1>7. JoinPointStands'
  <2> SUFFICES ASSUME NEW w \in Vehicles PROVE JoinPoint(w)'
    BY DEF JoinPointStands
  <2>1. CASE w = v
    <3>1. front'[v] = f /\ rear'[v] = r /\ status'[v] = new
      BY <1>1 DEF IInv, TypeOK
    <3> QED BY <1>1, <1>4, <2>1, <3>1 DEF JoinPoint
  <2>2. CASE w # v
    BY <1>1, <2>2 DEF JoinPoint, IInv, JoinPointStands, TypeOK
  <2> QED BY <2>1, <2>2
<1>8. GapIsForSomebody'
  <2> SUFFICES ASSUME NEW u \in Vehicles, status'[u] = "OPEN_GAP"
               PROVE  \E w \in Vehicles :
                        rear'[w] = u /\ status'[w] \in {"MOVE_TO_POINT", "JOINING"}
    BY DEF GapIsForSomebody
  <2>1. status[u] = "OPEN_GAP"
    BY <1>1, <1>4 DEF IInv, TypeOK
  <2>2. PICK w \in Vehicles : rear[w] = u /\ status[w] \in {"MOVE_TO_POINT", "JOINING"}
    BY <2>1 DEF IInv, GapIsForSomebody
  <2> QED BY <1>1, <2>2 DEF IInv, TypeOK
<1> QED BY <1>5, <1>6, <1>7, <1>8 DEF IInv

(* CutInBlocked, AskForGap, Merge, FinishRaises, Abandon and FallBehind    *)
(* leave the lists alone.                                                  *)
LEMMA CutInBlockedKeeps ==
  ASSUME IInv, NEW v \in Vehicles, OnTurn(v),
         NEW new \in {"BACK_JOINING", "MOVE_TO_POINT"}, CutInBlocked(v, new)
  PROVE  IInv'
<1> DEFINE q == platoon[front[v]]
           last == Last(list[q])
<1>1. /\ UNCHANGED <<list, platoon, inId, recover, pace, blacklist>>
      /\ front' = [front EXCEPT ![v] = last] /\ rear' = [rear EXCEPT ![v] = None]
      /\ status' = [RearGetsStatus(v, "MAINTINING") EXCEPT ![v] = new]
      /\ status[v] = "MOVE_TO_POINT"
  BY DEF CutInBlocked, membership, speeds
<1>2. /\ front[v] \in Vehicles /\ platoon[front[v]] # None
      /\ rear[v] # None => rear[v] \in Vehicles /\ platoon[rear[v]] # None /\ inId[rear[v]] > 0
  BY <1>1, JoinerFacts
<1>3. last \in Vehicles /\ last # None /\ platoon[last] # None
  <2>1. q \in Platoons /\ inId[front[v]] + 1 \in 1 .. Len(list[q])
    BY <1>2, MemberFacts
  <2>2. Len(list[q]) \in 1 .. Len(list[q])
    BY <2>1, ListFacts
  <2> QED BY <2>1, <2>2, ListFacts, NoneIsNoPlatoon DEF Last
<1>4. platoon[v] = None
  BY OnTurnFacts
<1> HIDE DEF q, last
<1>5. /\ status'[v] = new
      /\ \A w \in Vehicles : w # v =>
           status'[w] = IF w = rear[v] THEN "MAINTINING" ELSE status[w]
  BY <1>1 DEF RearGetsStatus
<1>6. TypeOK'
  <2>1. status' \in [Vehicles -> Single \cup Member]
    BY <1>1 DEF RearGetsStatus, IInv, TypeOK, Single, Joining, Member
  <2> QED BY <1>1, <1>3, <2>1, OnTurnFacts DEF IInv, TypeOK
<1>7. MembersInOrder'
  <2>1. ASSUME NEW w \in Vehicles
        PROVE  IF platoon[w] = None THEN status'[w] \in Single
               ELSE /\ front'[w] = front[w] /\ rear'[w] = rear[w]
                    /\ \/ status'[w] = status[w]
                       \/ inId[w] > 0 /\ status'[w] \in {"MAINTINING", "OPEN_GAP"}
    <3>1. CASE w = v
      BY <1>4, <1>5, <3>1 DEF Single, Joining
    <3>2. CASE w # v /\ w = rear[v]
      BY <1>1, <1>2, <1>5, <3>2, NoneIsNoPlatoon DEF IInv, TypeOK
    <3>3. CASE w # v /\ w # rear[v]
      BY <1>1, <1>5, <3>3 DEF IInv, TypeOK, MembersInOrder, AgreeWithLists
    <3> QED BY <3>1, <3>2, <3>3
  <2>2. UNCHANGED membership
    BY <1>1 DEF membership
  <2> QED BY <1>6, <2>1, <2>2, OrderFrame
<1>8. JoinPointStands'
  <2> SUFFICES ASSUME NEW w \in Vehicles PROVE JoinPoint(w)'
    BY DEF JoinPointStands
  <2>1. CASE w = v
    <3>1. front'[v] = last /\ rear'[v] = None
      BY <1>1 DEF IInv, TypeOK
    <3> QED BY <1>1, <1>3, <1>5, <2>1, <3>1 DEF JoinPoint
  <2>2. CASE w # v /\ status'[w] = status[w]
    BY <1>1, <2>2 DEF JoinPoint, IInv, JoinPointStands, TypeOK
  <2>3. CASE w # v /\ status'[w] = "MAINTINING"
    BY <2>3 DEF JoinPoint
  <2> QED BY <1>5, <2>1, <2>2, <2>3
<1>9. GapIsForSomebody'
  <2>1. \A w \in Vehicles : status'[w] = "OPEN_GAP" => status[w] = "OPEN_GAP" /\ w # rear[v]
    BY <1>5
  <2>2. ASSUME NEW w \in Vehicles, w # v, status[w] \in {"MOVE_TO_POINT", "JOINING"}
        PROVE  status'[w] = status[w] /\ rear'[w] = rear[w]
    <3>1. w # rear[v]
      BY <1>2, <2>2, MemberFacts, NoneIsNoPlatoon DEF Single, Joining
    <3> QED BY <1>1, <1>5, <2>2, <3>1 DEF IInv, TypeOK
  <2> QED BY <2>1, <2>2, GapFrame
<1> QED BY <1>6, <1>7, <1>8, <1>9 DEF IInv
LEMMA RearToldKeeps ==
  ASSUME IInv, NEW v \in Vehicles, OnTurn(v), AskForGap(v) \/ FinishRaises(v)
  PROVE  IInv'
<1>1. /\ UNCHANGED <<list, platoon, inId, recover, pace, front, rear, blacklist>>
      /\ \/ status[v] = "MOVE_TO_POINT" /\ status' = RearGetsStatus(v, "OPEN_GAP")
         \/ status[v] = "JOINING" /\ status' = RearGetsStatus(v, "MAINTINING")
  BY DEF AskForGap, FinishRaises, membership, speeds, links
<1>2. rear[v] # None => rear[v] \in Vehicles /\ platoon[rear[v]] # None /\ inId[rear[v]] > 0
  BY <1>1, JoinerFacts
<1>3. platoon[v] = None /\ v # rear[v]
  BY <1>2, OnTurnFacts, NoneIsNoPlatoon
<1>4. \A w \in Vehicles :
        IF w = rear[v] THEN status'[w] \in {"OPEN_GAP", "MAINTINING"}
        ELSE status'[w] = status[w]
  BY <1>1 DEF RearGetsStatus
<1>5. TypeOK'
  <2>1. status' \in [Vehicles -> Single \cup Member]
    BY <1>1 DEF RearGetsStatus, IInv, TypeOK, Member
  <2> QED BY <1>1, <2>1, OnTurnFacts DEF IInv, TypeOK
<1>6. MembersInOrder'
  <2>1. ASSUME NEW w \in Vehicles
        PROVE  IF platoon[w] = None THEN status'[w] \in Single
               ELSE /\ front'[w] = front[w] /\ rear'[w] = rear[w]
                    /\ \/ status'[w] = status[w]
                       \/ inId[w] > 0 /\ status'[w] \in {"MAINTINING", "OPEN_GAP"}
    <3>1. CASE w = rear[v]
      BY <1>1, <1>2, <1>4, <3>1, NoneIsNoPlatoon
    <3>2. CASE w # rear[v]
      BY <1>1, <1>4, <3>2 DEF IInv, MembersInOrder, AgreeWithLists
    <3> QED BY <3>1, <3>2
  <2>2. UNCHANGED membership
    BY <1>1 DEF membership
  <2> QED BY <1>5, <2>1, <2>2, OrderFrame
<1>7. JoinPointStands'
  <2> SUFFICES ASSUME NEW w \in Vehicles PROVE JoinPoint(w)'
    BY DEF JoinPointStands
  <2>1. CASE w = rear[v]
    BY <1>4, <2>1 DEF JoinPoint
  <2>2. CASE w # rear[v]
    BY <1>1, <1>4, <2>2 DEF JoinPoint, IInv, JoinPointStands
  <2> QED BY <2>1, <2>2
<1>8. GapIsForSomebody'
  <2> SUFFICES ASSUME NEW r \in Vehicles, status'[r] = "OPEN_GAP"
               PROVE  \E w \in Vehicles :
                        rear[w] = r /\ status'[w] \in {"MOVE_TO_POINT", "JOINING"}
    BY <1>1 DEF GapIsForSomebody
  <2>1. CASE r = rear[v]
    BY <1>1, <1>3, <1>4, <2>1
  <2>2. CASE r # rear[v]
    <3>1. PICK w \in Vehicles : rear[w] = r /\ status[w] \in {"MOVE_TO_POINT", "JOINING"}
      BY <1>4, <2>2 DEF IInv, GapIsForSomebody
    <3>2. w # rear[v]
      BY <1>2, <3>1, MemberFacts, NoneIsNoPlatoon DEF Single, Joining
    <3> QED BY <1>4, <3>1, <3>2
  <2> QED BY <2>1, <2>2
<1> QED BY <1>5, <1>6, <1>7, <1>8 DEF IInv

(* The CAV's own status changes, at most. *)
LEMMA OwnStatusKeeps ==
  ASSUME IInv, NEW v \in Vehicles, OnTurn(v),
         Merge(v) \/ Abandon(v) \/ FallBehind(v) \/ StayOnCourse(v)
  PROVE  IInv'
<1>1. /\ UNCHANGED <<list, platoon, inId, recover, pace, front, rear>>
      /\ \/ status' = status
         \/ status[v] = "MOVE_TO_POINT" /\ status' = [status EXCEPT ![v] = "JOINING"]
         \/ status[v] = "FRONT_JOINING" /\ status' = [status EXCEPT ![v] = "SEARCHING"]
  BY DEF Merge, Abandon, FallBehind, StayOnCourse, membership, speeds, links
<1>2. platoon[v] = None
  BY OnTurnFacts
<1>3. blacklist' \in [Vehicles -> SUBSET Platoons]
  <2>1. CASE blacklist' = blacklist
    BY <2>1 DEF IInv, TypeOK
  <2>2. CASE Abandon(v)
    <3>1. status[v] = "FRONT_JOINING"
          /\ blacklist' = [blacklist EXCEPT ![v] = @ \cup {platoon[rear[v]]}]
      BY <2>2 DEF Abandon
    <3>2. rear[v] \in Vehicles /\ platoon[rear[v]] # None
      BY <3>1 DEF IInv, JoinPointStands, JoinPoint, TypeOK
    <3> QED BY <3>1, <3>2 DEF IInv, TypeOK
  <2> QED BY <2>1, <2>2 DEF Merge, FallBehind, StayOnCourse
<1>4. TypeOK'
  BY <1>1, <1>3, OnTurnFacts DEF IInv, TypeOK, Single, Joining
<1>5. MembersInOrder'
  <2>1. ASSUME NEW w \in Vehicles
        PROVE  IF platoon[w] = None THEN status'[w] \in Single
               ELSE front'[w] = front[w] /\ rear'[w] = rear[w] /\ status'[w] = status[w]
    <3>1. CASE w = v
      BY <1>1, <1>2, <3>1 DEF IInv, TypeOK, MembersInOrder, AgreeWithLists, Single, Joining
    <3>2. CASE w # v
      BY <1>1, <3>2 DEF IInv, TypeOK, MembersInOrder, AgreeWithLists
    <3> QED BY <3>1, <3>2
  <2>2. UNCHANGED membership
    BY <1>1 DEF membership
  <2> QED BY <1>4, <2>1, <2>2, OrderFrame
<1>6. JoinPointStands'
  <2> SUFFICES ASSUME NEW w \in Vehicles PROVE JoinPoint(w)'
    BY DEF JoinPointStands
  <2>1. JoinPoint(w)
    BY DEF IInv, JoinPointStands
  <2>2. \/ status'[w] = status[w]
        \/ status[w] = "MOVE_TO_POINT" /\ status'[w] = "JOINING"
        \/ status'[w] = "SEARCHING"
    BY <1>1 DEF IInv, TypeOK
  <2> QED BY <1>1, <2>1, <2>2 DEF JoinPoint
<1>7. GapIsForSomebody'
  <2> SUFFICES ASSUME NEW r \in Vehicles, status'[r] = "OPEN_GAP"
               PROVE  \E w \in Vehicles :
                        rear[w] = r /\ status'[w] \in {"MOVE_TO_POINT", "JOINING"}
    BY <1>1 DEF GapIsForSomebody
  <2>1. status[r] = "OPEN_GAP"
    BY <1>1 DEF IInv, TypeOK
  <2>2. PICK w \in Vehicles : rear[w] = r /\ status[w] \in {"MOVE_TO_POINT", "JOINING"}
    BY <2>1 DEF IInv, GapIsForSomebody
  <2>3. status'[w] \in {"MOVE_TO_POINT", "JOINING"}
    BY <1>1, <2>2 DEF IInv, TypeOK
  <2> QED BY <2>2, <2>3
<1> QED BY <1>4, <1>5, <1>6, <1>7 DEF IInv-----------------------------------------------------------------------------
(* Joining.  k is the in_id that the CAV gets in platoon p: a neighbour it *)
(* does not have must be missing at that end of the list, too.             *)

Joins(v, p, k) ==
  /\ SetMember(v, p, k)
  /\ k = 0 => front[v] = None
  /\ k = Len(list[p]) => rear[v] = None
  /\ status[v] \in {"MOVE_TO_POINT", "JOINING"} /\ rear[v] # None => platoon[rear[v]] = p

(* Where everybody is afterwards. *)
LEMMA JoinShifts ==
  ASSUME IInv, NEW v \in Vehicles, OnTurn(v), NEW p \in Platoons,
         NEW k \in 0 .. Len(list[p]), Joins(v, p, k)
  PROVE  \A w \in Vehicles :
           /\ w = v => /\ platoon'[w] = p /\ inId'[w] = k /\ list'[p][k + 1] = w
           /\ platoon[w] = p =>
                /\ platoon'[w] = p
                /\ inId'[w] = IF inId[w] < k THEN inId[w] ELSE inId[w] + 1
                /\ list'[p][inId'[w] + 1] = w
           /\ w = v \/ platoon[w] = p => status'[w] \in {"LEADING_MODE", "MAINTINING"}
           /\ w # v /\ platoon[w] # p =>
                /\ platoon'[w] = platoon[w] /\ inId'[w] = inId[w] /\ status'[w] = status[w]
                /\ front'[w] = front[w] /\ rear'[w] = rear[w]
<1>1. SetMember(v, p, k) /\ inId[v] = None /\ platoon[v] = None
  BY OnTurnFacts DEF Joins, OnTurn
<1>2. /\ Len(list[p]) \in Nat
      /\ \A i \in 1 .. Len(list[p]) : list[p][i] \in Vehicles /\ platoon[list[p][i]] = p
  BY ListFacts
<1>3. /\ Len(list'[p]) = Len(list[p]) + 1
      /\ \A j \in 1 .. Len(list[p]) + 1 :
           list'[p][j] = IF j < k + 1 THEN list[p][j]
                         ELSE IF j = k + 1 THEN v ELSE list[p][j - 1]
  BY <1>1, SetMemberList
<1>4. /\ platoon' = [platoon EXCEPT ![v] = p]
      /\ \A i \in 1 .. Len(list'[p]) :
           /\ inId'[list'[p][i]] = i - 1
           /\ status'[list'[p][i]] \in {"LEADING_MODE", "MAINTINING"}
      /\ \A w \in Vehicles :
           (\A i \in 1 .. Len(list'[p]) : list'[p][i] # w) =>
              /\ inId'[w] = inId[w] /\ status'[w] = status[w]
              /\ front'[w] = front[w] /\ rear'[w] = rear[w]
  BY <1>1, SetMemberRest
<1>5. ASSUME NEW w \in Vehicles, w = v
      PROVE  /\ platoon'[w] = p /\ inId'[w] = k /\ list'[p][k + 1] = w
             /\ status'[w] \in {"LEADING_MODE", "MAINTINING"}
  <2>1. k + 1 \in 1 .. Len(list'[p]) /\ list'[p][k + 1] = v
    BY <1>2, <1>3
  <2>2. (k + 1) - 1 = k
    BY <1>2
  <2>3. inId'[v] = k /\ status'[v] \in {"LEADING_MODE", "MAINTINING"}
    BY <1>4, <2>1, <2>2
  <2> QED BY <1>4, <1>5, <2>1, <2>3 DEF IInv, TypeOK
<1>6. ASSUME NEW w \in Vehicles, platoon[w] = p
      PROVE  /\ platoon'[w] = p
             /\ inId'[w] = IF inId[w] < k THEN inId[w] ELSE inId[w] + 1
             /\ list'[p][inId'[w] + 1] = w
             /\ status'[w] \in {"LEADING_MODE", "MAINTINING"}
  <2> DEFINE j == IF inId[w] < k THEN inId[w] + 1 ELSE inId[w] + 2
  <2>1. inId[w] \in Nat /\ inId[w] + 1 \in 1 .. Len(list[p]) /\ list[p][inId[w] + 1] = w
    BY <1>6, MemberFacts, NoneIsNoPlatoon
  <2>2. j \in 1 .. Len(list'[p]) /\ list'[p][j] = w
    BY <1>2, <1>3, <2>1
  <2>3. j - 1 = IF inId[w] < k THEN inId[w] ELSE inId[w] + 1
    BY <1>2, <2>1
  <2>4. (j - 1) + 1 = j
    BY <2>1
  <2> HIDE DEF j
  <2>5. inId'[w] = j - 1 /\ status'[w] \in {"LEADING_MODE", "MAINTINING"}
    BY <1>4, <2>2
  <2>6. w # v
    BY <1>1, <1>6, NoneIsNoPlatoon
  <2> QED BY <1>4, <1>6, <2>2, <2>3, <2>4, <2>5, <2>6 DEF IInv, TypeOK
<1>7. ASSUME NEW w \in Vehicles, w # v, platoon[w] # p
      PROVE  /\ platoon'[w] = platoon[w] /\ inId'[w] = inId[w] /\ status'[w] = status[w]
             /\ front'[w] = front[w] /\ rear'[w] = rear[w]
  <2>1. ASSUME NEW i \in 1 .. Len(list'[p]) PROVE list'[p][i] # w
    <3>1. CASE i = k + 1
      BY <1>2, <1>3, <1>7, <3>1
    <3>2. CASE i # k + 1
      <4>1. \E j \in 1 .. Len(list[p]) : list'[p][i] = list[p][j]
        <5>1. CASE i < k + 1
          BY <1>2, <1>3, <5>1
        <5>2. CASE i > k + 1
          <6>1. i - 1 \in 1 .. Len(list[p]) /\ list'[p][i] = list[p][i - 1]
            BY <1>2, <1>3, <5>2
          <6> QED BY <6>1
        <5> QED BY <1>2, <3>2, <5>1, <5>2
      <4> QED BY <1>2, <1>7, <4>1
    <3> QED BY <3>1, <3>2
  <2> QED BY <1>4, <1>7, <2>1 DEF IInv, TypeOK
<1> QED BY <1>5, <1>6, <1>7
LEMMA JoinTypes ==
  ASSUME IInv, NEW v \in Vehicles, OnTurn(v), NEW p \in Platoons,
         NEW k \in 0 .. Len(list[p]), Joins(v, p, k), UNCHANGED <<speeds, blacklist>>
  PROVE  TypeOK'
<1>1. SetMember(v, p, k) /\ inId[v] = None
  BY DEF Joins, OnTurn
<1>2. list' \in [Platoons -> Seq(Vehicles)]
  BY <1>1, SetMemberList
<1> DEFINE s == list'[p]
<1>3. s \in Seq(Vehicles) /\ Len(s) \in Nat /\ \A i \in 1 .. Len(s) : s[i] \in Vehicles
  <2>1. s \in Seq(Vehicles)
    BY <1>2
  <2> HIDE DEF s
  <2> QED BY <2>1, LenProperties, ElementOfSeq
<1>4. /\ platoon' = [platoon EXCEPT ![v] = p]
      /\ inId' = OrderedId(s) /\ status' = OrderedStatus(s)
      /\ front' = OrderedFront(s) /\ rear' = OrderedRear(s)
  BY <1>1, SetMemberList DEF SetMember, IInv, TypeOK
<1> HIDE DEF s
<1>5. Distinct(s)
  BY <1>1, SetMemberList DEF s
<1>6. \A w \in Elements(s) :
        /\ PositionIn(s, w) \in 1 .. Len(s)
        /\ w # s[1] => PositionIn(s, w) - 1 \in 1 .. Len(s)
        /\ w # Last(s) => PositionIn(s, w) + 1 \in 1 .. Len(s)
  <2> SUFFICES ASSUME NEW i \in 1 .. Len(s)
               PROVE  /\ PositionIn(s, s[i]) \in 1 .. Len(s)
                      /\ s[i] # s[1] => PositionIn(s, s[i]) - 1 \in 1 .. Len(s)
                      /\ s[i] # Last(s) => PositionIn(s, s[i]) + 1 \in 1 .. Len(s)
    BY DEF Elements
  <2>1. PositionIn(s, s[i]) = i
    BY <1>3, <1>5, PositionUnique
  <2> QED BY <1>3, <2>1 DEF Last
<1>7. inId' \in [Vehicles -> Nat \cup {None}]
  BY <1>3, <1>4, <1>6 DEF OrderedId, IInv, TypeOK
<1>8. status' \in [Vehicles -> Single \cup Member]
  BY <1>4 DEF OrderedStatus, IInv, TypeOK, Member
<1>9. front' \in [Vehicles -> Vehicles \cup {None}]
  BY <1>3, <1>4, <1>6 DEF OrderedFront, IInv, TypeOK
<1>10. rear' \in [Vehicles -> Vehicles \cup {None}]
  BY <1>3, <1>4, <1>6 DEF OrderedRear, IInv, TypeOK
<1>11. platoon' \in [Vehicles -> Platoons \cup {None}]
  BY <1>4 DEF IInv, TypeOK
<1> QED BY <1>2, <1>7, <1>8, <1>9, <1>10, <1>11, OnTurnFacts DEF IInv, TypeOK, speeds

LEMMA JoinKeeps ==
  ASSUME IInv, NEW v \in Vehicles, OnTurn(v), NEW p \in Platoons,
         NEW k \in 0 .. Len(list[p]), Joins(v, p, k), UNCHANGED <<speeds, blacklist>>
  PROVE  IInv'
<1>1. SetMember(v, p, k) /\ inId[v] = None /\ platoon[v] = None
  BY OnTurnFacts DEF Joins, OnTurn
<1>2. Len(list[p]) \in Nat
  BY ListFacts
<1>3. /\ Len(list'[p]) = Len(list[p]) + 1
      /\ \A j \in 1 .. Len(list[p]) + 1 :
           list'[p][j] = IF j < k + 1 THEN list[p][j]
                         ELSE IF j = k + 1 THEN v ELSE list[p][j - 1]
      /\ \A q \in Platoons : q # p => list'[q] = list[q]
  BY <1>1, SetMemberList
<1>4. \A i \in 1 .. Len(list'[p]) :
        LET w == list'[p][i]
        IN  /\ inId'[w] = i - 1
            /\ status'[w] = IF i = 1 THEN "LEADING_MODE" ELSE "MAINTINING"
            /\ front'[w] = IF i = 1 THEN front[w] ELSE list'[p][i - 1]
            /\ rear'[w] = IF i = Len(list'[p]) THEN rear[w] ELSE list'[p][i + 1]
  BY <1>1, SetMemberRest
<1>5. TypeOK'
  BY JoinTypes
<1>6. ListsAgree'
  <2> SUFFICES ASSUME NEW q \in Platoons, NEW i \in 1 .. Len(list'[q])
               PROVE  platoon'[list'[q][i]] = q /\ inId'[list'[q][i]] = i - 1
    BY DEF ListsAgree
  <2>1. CASE q = p
    <3>1. \/ list'[p][i] = v
          \/ \E j \in 1 .. Len(list[p]) : list'[p][i] = list[p][j]
      <4>1. CASE i < k + 1
        BY <1>2, <1>3, <4>1
      <4>2. CASE i = k + 1
        BY <1>2, <1>3, <4>2
      <4>3. CASE i > k + 1
        <5>1. i - 1 \in 1 .. Len(list[p]) /\ list'[p][i] = list[p][i - 1]
          BY <1>2, <1>3, <2>1, <4>3
        <5> QED BY <5>1
      <4> QED BY <1>2, <4>1, <4>2, <4>3
    <3>2. platoon'[list'[p][i]] = p
      BY <3>1, ListFacts, JoinShifts
    <3> QED BY <1>4, <2>1, <3>2
  <2>2. CASE q # p
    <3>1. /\ list'[q] = list[q] /\ list[q][i] \in Vehicles
          /\ platoon[list[q][i]] = q /\ inId[list[q][i]] = i - 1
      BY <1>3, <2>2, ListFacts
    <3>2. list[q][i] # v
      BY <1>1, <3>1, NoneIsNoPlatoon
    <3> QED BY <2>2, <3>1, <3>2, JoinShifts
  <2> QED BY <2>1, <2>2
<1>7. AgreeWithLists'
  <2> SUFFICES ASSUME NEW w \in Vehicles
               PROVE  IF platoon'[w] = None THEN inId'[w] = None /\ status'[w] \in Single
                      ELSE /\ inId'[w] \in 0 .. Len(list'[platoon'[w]]) - 1
                           /\ list'[platoon'[w]][inId'[w] + 1] = w
    BY DEF AgreeWithLists
  <2>1. CASE w = v
    <3>1. platoon'[w] = p /\ inId'[w] = k /\ list'[p][k + 1] = w
      BY <2>1, JoinShifts
    <3> QED BY <1>2, <1>3, <3>1, NoneIsNoPlatoon
  <2>2. CASE platoon[w] = p
    <3>1. /\ platoon'[w] = p /\ list'[p][inId'[w] + 1] = w
          /\ inId'[w] = IF inId[w] < k THEN inId[w] ELSE inId[w] + 1
      BY <2>2, JoinShifts
    <3>2. inId[w] \in Nat /\ inId[w] + 1 \in 1 .. Len(list[p])
      BY <2>2, MemberFacts, NoneIsNoPlatoon
    <3>3. inId'[w] \in 0 .. Len(list'[p]) - 1
      BY <1>2, <1>3, <3>1, <3>2
    <3> QED BY <3>1, <3>3, NoneIsNoPlatoon
  <2>3. CASE w # v /\ platoon[w] # p
    <3>1. platoon'[w] = platoon[w] /\ inId'[w] = inId[w] /\ status'[w] = status[w]
      BY <2>3, JoinShifts
    <3>2. CASE platoon[w] = None
      BY <3>1, <3>2 DEF IInv, MembersInOrder, AgreeWithLists
    <3>3. CASE platoon[w] # None
      <4>1. list'[platoon[w]] = list[platoon[w]]
        BY <1>3, <2>3, <3>3, MemberFacts
      <4> QED BY <3>1, <3>3, <4>1 DEF IInv, MembersInOrder, AgreeWithLists
    <3> QED BY <3>2, <3>3
  <2> QED BY <2>1, <2>2, <2>3
<1>8. Linked'
  <2> SUFFICES ASSUME NEW q \in Platoons, NEW i \in 1 .. Len(list'[q])
               PROVE  /\ front'[list'[q][i]] = IF i = 1 THEN None ELSE list'[q][i - 1]
                      /\ rear'[list'[q][i]] =
                           IF i = Len(list'[q]) THEN None ELSE list'[q][i + 1]
                      /\ status'[list'[q][i]] \in
                           IF i = 1 THEN {"LEADING_MODE"} ELSE {"MAINTINING", "OPEN_GAP"}
    BY DEF Linked
  <2>1. CASE q = p
    <3>1. i = 1 => front[list'[p][i]] = None
      <4>1. CASE k = 0
        BY <1>2, <1>3, <4>1 DEF Joins
      <4>2. CASE k > 0 /\ i = 1
        <5>1. 1 \in 1 .. Len(list[p]) /\ list'[p][1] = list[p][1]
          BY <1>2, <1>3, <4>2
        <5> QED BY <4>2, <5>1 DEF IInv, MembersInOrder, Linked
      <4> QED BY <1>2, <4>1, <4>2
    <3>2. i = Len(list'[p]) => rear[list'[p][i]] = None
      <4>1. CASE k = Len(list[p])
        BY <1>2, <1>3, <4>1 DEF Joins
      <4>2. CASE k < Len(list[p]) /\ i = Len(list'[p])
        <5>1. Len(list[p]) \in 1 .. Len(list[p]) /\ list'[p][i] = list[p][Len(list[p])]
          BY <1>2, <1>3, <4>2
        <5> QED BY <5>1 DEF IInv, MembersInOrder, Linked
      <4> QED BY <1>2, <4>1, <4>2
    <3> QED BY <1>4, <2>1, <3>1, <3>2
  <2>2. CASE q # p
    <3>1. list'[q] = list[q] /\ list[q][i] \in Vehicles /\ platoon[list[q][i]] = q
      BY <1>3, <2>2, ListFacts
    <3>2. list[q][i] # v
      BY <1>1, <3>1, NoneIsNoPlatoon
    <3>3. LET w == list[q][i]
          IN  front'[w] = front[w] /\ rear'[w] = rear[w] /\ status'[w] = status[w]
      BY <2>2, <3>1, <3>2, JoinShifts
    <3>4. LET w == list[q][i]
          IN  /\ front[w] = IF i = 1 THEN None ELSE list[q][i - 1]
              /\ rear[w] = IF i = Len(list[q]) THEN None ELSE list[q][i + 1]
              /\ status[w] \in IF i = 1 THEN {"LEADING_MODE"} ELSE {"MAINTINING", "OPEN_GAP"}
      BY <3>1 DEF IInv, MembersInOrder, Linked
    <3> QED BY <3>1, <3>3, <3>4
  <2> QED BY <2>1, <2>2
<1>9. JoinPointStands'
  <2> SUFFICES ASSUME NEW w \in Vehicles PROVE JoinPoint(w)'
    BY DEF JoinPointStands
  <2>1. CASE w = v \/ platoon[w] = p
    <3>1. status'[w] \in {"LEADING_MODE", "MAINTINING"}
      BY <2>1, JoinShifts
    <3> QED BY <3>1 DEF JoinPoint
  <2>2. CASE w # v /\ platoon[w] # p
    <3>1. front'[w] = front[w] /\ rear'[w] = rear[w] /\ status'[w] = status[w]
      BY <2>2, JoinShifts
    <3>2. ASSUME NEW u \in Vehicles, platoon[u] # None
          PROVE  /\ platoon'[u] = platoon[u]
                 /\ inId'[u] = IF platoon[u] = p /\ inId[u] >= k THEN inId[u] + 1 ELSE inId[u]
      <4>1. u # v /\ inId[u] \in Nat
        BY <1>1, <3>2, MemberFacts
      <4> QED BY <1>2, <4>1, JoinShifts
    <3>3. ASSUME NEW u \in Vehicles, NEW t \in Vehicles, platoon[u] # None,
                 platoon[t] = platoon[u], inId[u] < inId[t]
          PROVE  platoon'[t] = platoon'[u] /\ inId'[u] < inId'[t]
      <4>1. inId[u] \in Nat /\ inId[t] \in Nat
        BY <3>3, MemberFacts
      <4>2. platoon'[t] = platoon'[u]
        BY <3>2, <3>3
      <4>3. inId'[u] < inId'[t]
        BY <1>2, <3>2, <3>3, <4>1
      <4> QED BY <4>2, <4>3
    <3>4. JoinPoint(w)
      BY DEF IInv, JoinPointStands
    <3>5. front[w] \in Vehicles \cup {None} /\ rear[w] \in Vehicles \cup {None}
      BY DEF IInv, TypeOK
    <3> QED BY <3>1, <3>2, <3>3, <3>4, <3>5 DEF JoinPoint
  <2> QED BY <2>1, <2>2
<1>10. GapIsForSomebody'
  <2> SUFFICES ASSUME NEW r \in Vehicles, status'[r] = "OPEN_GAP"
               PROVE  \E w \in Vehicles :
                        rear'[w] = r /\ status'[w] \in {"MOVE_TO_POINT", "JOINING"}
    BY DEF GapIsForSomebody
  <2>1. r # v /\ platoon[r] # p /\ status[r] = "OPEN_GAP"
    BY JoinShifts
  <2>2. PICK w \in Vehicles : rear[w] = r /\ status[w] \in {"MOVE_TO_POINT", "JOINING"}
    BY <2>1 DEF IInv, GapIsForSomebody
  <2>3. w # v
    BY <2>1, <2>2, NoneIsNoPlatoon DEF Joins
  <2>4. platoon[w] # p
    BY <2>2, MemberFacts, NoneIsNoPlatoon DEF Single, Joining
  <2> QED BY <2>2, <2>3, <2>4, JoinShifts
<1> QED BY <1>5, <1>6, <1>7, <1>8, <1>9, <1>10 DEF IInv, MembersInOrder
LEMMA FinishJoins ==
  ASSUME IInv, NEW v \in Vehicles, OnTurn(v), Finish(v)
  PROVE  /\ UNCHANGED <<speeds, blacklist>>
         /\ \E p \in Platoons : \E k \in 0 .. Len(list[p]) : Joins(v, p, k)
         /\ front[v] \in Vehicles /\ platoon[front[v]] \in Platoons
         /\ inId[front[v]] + 1 \in 0 .. Len(list[platoon[front[v]]])
         /\ Joins(v, platoon[front[v]], inId[front[v]] + 1)
<1> DEFINE p == platoon[front[v]]
           k == inId[front[v]] + 1
<1>1. /\ status[v] \in {"JOINING", "BACK_JOINING"} /\ SetMember(v, p, k)
      /\ UNCHANGED <<speeds, blacklist>>
  BY DEF Finish, FinishBehind
<1>2. /\ front[v] \in Vehicles /\ platoon[front[v]] # None
      /\ rear[v] # None => /\ rear[v] \in Vehicles /\ platoon[rear[v]] # None
                           /\ platoon[rear[v]] = p /\ inId[front[v]] < inId[rear[v]]
  BY <1>1, JoinerFacts
<1>3. /\ p \in Platoons /\ inId[front[v]] \in Nat
      /\ inId[front[v]] + 1 \in 1 .. Len(list[p])
  BY <1>2, MemberFacts
<1>4. rear[v] # None => inId[rear[v]] \in Nat /\ inId[rear[v]] + 1 \in 1 .. Len(list[p])
  BY <1>2, MemberFacts
<1>5. Len(list[p]) \in Nat
  BY <1>3, ListFacts
<1>6. k \in 0 .. Len(list[p]) /\ k # 0 /\ (k = Len(list[p]) => rear[v] = None)
  BY <1>2, <1>3, <1>4, <1>5
<1> HIDE DEF p, k
<1>7. Joins(v, p, k)
  BY <1>1, <1>2, <1>6 DEF Joins
<1>8. \E q \in Platoons : \E j \in 0 .. Len(list[q]) : Joins(v, q, j)
  BY <1>3, <1>6, <1>7
<1> QED BY <1>1, <1>2, <1>3, <1>6, <1>7, <1>8 DEF p, k

LEMMA FinishAheadJoins ==
  ASSUME IInv, NEW v \in Vehicles, OnTurn(v), FinishAhead(v)
  PROVE  /\ UNCHANGED <<speeds, blacklist>>
         /\ \E p \in Platoons : \E k \in 0 .. Len(list[p]) : Joins(v, p, k)
         /\ front[v] = None /\ rear[v] \in Vehicles /\ platoon[rear[v]] \in Platoons
         /\ inId[rear[v]] \in 0 .. Len(list[platoon[rear[v]]])
         /\ Joins(v, platoon[rear[v]], inId[rear[v]])
<1> DEFINE p == platoon[rear[v]]
           k == inId[rear[v]]
<1>1. /\ status[v] = "FRONT_JOINING" /\ SetMember(v, p, k)
      /\ UNCHANGED <<speeds, blacklist>>
  BY DEF FinishAhead, FinishBefore
<1>2. front[v] = None /\ rear[v] \in Vehicles /\ platoon[rear[v]] # None
  BY <1>1 DEF IInv, JoinPointStands, JoinPoint, TypeOK
<1>3. p \in Platoons /\ k \in Nat /\ k + 1 \in 1 .. Len(list[p])
  BY <1>2, MemberFacts
<1>4. Len(list[p]) \in Nat
  BY <1>3, ListFacts
<1>5. k \in 0 .. Len(list[p]) /\ k # Len(list[p])
  BY <1>3, <1>4
<1> HIDE DEF p, k
<1>6. Joins(v, p, k)
  BY <1>1, <1>2, <1>5 DEF Joins
<1>7. \E q \in Platoons : \E j \in 0 .. Len(list[q]) : Joins(v, q, j)
  BY <1>3, <1>5, <1>6
<1> QED BY <1>1, <1>2, <1>3, <1>5, <1>6, <1>7 DEF p, k

LEMMA SingleStepKeeps ==
  ASSUME IInv, NEW v \in Vehicles, SingleStep(v)
  PROVE  IInv'
<1>1. OnTurn(v)
  BY DEF SingleStep
<1>2. CASE Search(v)
  <2>1. status[v] = "SEARCHING"
    BY <1>2 DEF Search
  <2>2. CASE SearchRaises(v) \/ SearchInVain(v)
    BY <1>1, <2>1, <2>2, FailedSearchKeeps
  <2>3. ASSUME NEW p \in Found(v), NEW i \in 1 .. Len(list[p]), NEW ahead \in BOOLEAN,
               Match(v, p, i, ahead)
        PROVE  IInv'
    <3>1. p \in Platoons
      BY DEF Found
    <3> QED BY <1>1, <2>1, <2>3, <3>1, MatchKeeps
  <2> QED BY <1>2, <2>2, <2>3 DEF Search
<1>3. ASSUME NEW new \in {"BACK_JOINING", "MOVE_TO_POINT"}, CutInBlocked(v, new)
      PROVE  IInv'
  BY <1>1, <1>3, CutInBlockedKeeps
<1>4. CASE AskForGap(v) \/ FinishRaises(v)
  BY <1>1, <1>4, RearToldKeeps
<1>5. CASE Merge(v) \/ Abandon(v) \/ FallBehind(v) \/ StayOnCourse(v)
  BY <1>1, <1>5, OwnStatusKeeps
<1>6. CASE Finish(v) \/ FinishAhead(v)
  BY <1>1, <1>6, FinishJoins, FinishAheadJoins, JoinKeeps
<1> QED BY <1>2, <1>3, <1>4, <1>5, <1>6 DEF SingleStep

(* The platoons' own step and the scenario's list touch no membership.     *)
LEMMA LoopKeeps ==
  ASSUME IInv, TypeOK', UNCHANGED <<membership, status, links>>
  PROVE  IInv'
<1>1. MembersInOrder'
  BY DEF IInv, MembersInOrder, ListsAgree, AgreeWithLists, Linked, membership, links
<1>2. JoinPointStands'
  BY DEF IInv, JoinPointStands, JoinPoint, membership, links
<1>3. GapIsForSomebody'
  BY DEF IInv, GapIsForSomebody, links
<1> QED BY <1>1, <1>2, <1>3 DEF IInv

LEMMA PlatoonsStepKeeps ==
  ASSUME IInv, PlatoonsStep
  PROVE  IInv'
<1>1. UNCHANGED <<membership, status, links, blacklist, nearby, singles>>
  BY DEF PlatoonsStep
<1>2. gap' \in [Vehicles -> 0 .. OpenGap]
  <2>1. PICK standing \in SUBSET Vehicles : gap' = [v \in Vehicles |-> GapAfter(v, standing)]
    BY DEF PlatoonsStep
  <2>2. ASSUME NEW v \in Vehicles PROVE GapAfter(v, standing) \in 0 .. OpenGap
    <3>1. gap[v] \in 0 .. OpenGap /\ OpenGap \in Nat
      BY PlatoonAssumption DEF IInv, TypeOK, PlatoonAssumption
    <3> QED BY <3>1 DEF GapAfter
  <2> QED BY <2>1, <2>2
<1>3. /\ recover' \in [Platoons -> 0 .. RecoverSteps]
      /\ pace' \in [Platoons -> {"zero", "slow", "origin"}]
  <2>1. \A p \in Platoons : recover[p] \in 0 .. RecoverSteps /\ RecoverSteps \in Nat
    BY PlatoonAssumption DEF IInv, TypeOK, PlatoonAssumption
  <2> QED BY <2>1 DEF PlatoonsStep, Recover, IInv, TypeOK
<1>4. turn' \in 0 .. Len(singles)
  <2>1. Len(singles) \in Nat
    BY LenProperties DEF IInv, TypeOK
  <2> QED BY <2>1 DEF PlatoonsStep
<1>5. TypeOK'
  BY <1>1, <1>2, <1>3, <1>4 DEF IInv, TypeOK, membership, links
<1> QED BY <1>1, <1>5, LoopKeeps

LEMMA PopMemberKeeps ==
  ASSUME IInv, PopMember
  PROVE  IInv'
<1>1. /\ UNCHANGED <<membership, speeds, status, links, gap, blacklist, nearby>>
      /\ turn > 0 /\ singles' = Popped(singles, turn) /\ turn' = NextTurn(Len(singles) - 1)
  BY DEF PopMember
<1>2. singles \in Seq(Vehicles) /\ Len(singles) \in Nat /\ turn \in 0 .. Len(singles)
  BY LenProperties DEF IInv, TypeOK
<1>3. turn \in 1 .. Len(singles) /\ Len(singles) - 1 \in Nat /\ turn \in Nat
  BY <1>1, <1>2
<1>4. singles' \in Seq(Vehicles) /\ Len(singles') = Len(singles) - 1
  BY <1>1, <1>2, <1>3, PoppedFacts
<1>5. turn' \in 0 .. Len(singles')
  BY <1>1, <1>3, <1>4, TurnFits
<1>6. TypeOK'
  BY <1>1, <1>4, <1>5 DEF IInv, TypeOK, membership, links, speeds
<1> QED BY <1>1, <1>6, LoopKeeps

LEMMA NextKeeps == IInv /\ [Next]_vars => IInv'
<1> SUFFICES ASSUME IInv, [Next]_vars PROVE IInv'
  OBVIOUS
<1>1. CASE UNCHANGED vars
  <2>1. TypeOK'
    BY <1>1 DEF vars, membership, speeds, links, IInv, TypeOK
  <2> QED BY <1>1, <2>1, LoopKeeps DEF vars
<1> QED BY <1>1, PlatoonsStepKeeps, PopMemberKeeps, SingleStepKeeps DEF Next-----------------------------------------------------------------------------
(* The platoons as the scenario creates them. *)

LEMMA InitKeeps == Init => IInv
<1> SUFFICES ASSUME Init PROVE IInv
  OBVIOUS
<1> DEFINE members == UNION {Elements(Initial[p]) : p \in Platoons}
           home(v) == CHOOSE p \in Platoons : v \in Elements(Initial[p])
           place(v) == PositionIn(Initial[home(v)], v)
<1>1. ASSUME NEW p \in Platoons
      PROVE  /\ Initial[p] \in Seq(Vehicles) /\ Len(Initial[p]) \in Nat /\ Len(Initial[p]) > 0
             /\ Distinct(Initial[p])
             /\ \A i \in 1 .. Len(Initial[p]) : Initial[p][i] \in Vehicles
  <2>1. Initial[p] \in Seq(Vehicles) /\ Len(Initial[p]) > 0 /\ Distinct(Initial[p])
    BY PlatoonAssumption DEF PlatoonAssumption, Distinct
  <2> QED BY <2>1, LenProperties, ElementOfSeq
<1>2. ASSUME NEW v \in members
      PROVE  /\ home(v) \in Platoons /\ place(v) \in 1 .. Len(Initial[home(v)])
             /\ Initial[home(v)][place(v)] = v /\ v \in Vehicles
  <2>1. \E p \in Platoons : v \in Elements(Initial[p])
    OBVIOUS
  <2>2. home(v) \in Platoons /\ v \in Elements(Initial[home(v)])
    BY <2>1
  <2> HIDE DEF home
  <2>3. PICK i \in 1 .. Len(Initial[home(v)]) : Initial[home(v)][i] = v
    BY <2>2 DEF Elements
  <2>4. place(v) \in 1 .. Len(Initial[home(v)]) /\ Initial[home(v)][place(v)] = v
    BY <2>3 DEF PositionIn
  <2> QED BY <1>1, <2>2, <2>4
<1>3. ASSUME NEW p \in Platoons, NEW i \in 1 .. Len(Initial[p])
      PROVE  /\ Initial[p][i] \in members
             /\ home(Initial[p][i]) = p /\ place(Initial[p][i]) = i
  <2>1. Initial[p][i] \in members
    BY DEF Elements
  <2>2. /\ home(Initial[p][i]) \in Platoons
        /\ place(Initial[p][i]) \in 1 .. Len(Initial[home(Initial[p][i])])
        /\ Initial[home(Initial[p][i])][place(Initial[p][i])] = Initial[p][i]
    BY <1>2, <2>1
  <2> HIDE DEF members, home, place
  <2> QED BY <2>1, <2>2, PlatoonAssumption DEF PlatoonAssumption
<1>4. /\ list = Initial
      /\ \A v \in Vehicles :
           /\ status[v] = IF v \notin members
                          THEN IF v \in Connected THEN "SEARCHING" ELSE "DISABLE"
                          ELSE IF place(v) = 1 THEN "LEADING_MODE" ELSE "MAINTINING"
           /\ platoon[v] = IF v \in members THEN home(v) ELSE None
           /\ inId[v] = IF v \in members THEN place(v) - 1 ELSE None
           /\ front[v] = IF v \in members /\ place(v) > 1
                         THEN Initial[home(v)][place(v) - 1] ELSE None
           /\ rear[v] = IF v \in members /\ place(v) < Len(Initial[home(v)])
                        THEN Initial[home(v)][place(v) + 1] ELSE None
  BY DEF Init
<1>5. /\ status \in [Vehicles -> Single \cup Member]
      /\ platoon \in [Vehicles -> Platoons \cup {None}]
      /\ inId \in [Vehicles -> Nat \cup {None}]
      /\ front \in [Vehicles -> Vehicles \cup {None}]
      /\ rear \in [Vehicles -> Vehicles \cup {None}]
  <2>1. /\ DOMAIN status = Vehicles /\ DOMAIN platoon = Vehicles /\ DOMAIN inId = Vehicles
        /\ DOMAIN front = Vehicles /\ DOMAIN rear = Vehicles
        /\ status = [v \in Vehicles |-> status[v]]
        /\ platoon = [v \in Vehicles |-> platoon[v]]
        /\ inId = [v \in Vehicles |-> inId[v]]
        /\ front = [v \in Vehicles |-> front[v]]
        /\ rear = [v \in Vehicles |-> rear[v]]
    BY DEF Init
  <2> HIDE DEF members, home, place
  <2>2. ASSUME NEW v \in Vehicles
        PROVE  /\ status[v] \in Single \cup Member /\ platoon[v] \in Platoons \cup {None}
               /\ inId[v] \in Nat \cup {None}
    BY <1>1, <1>2, <1>4 DEF Single, Member
  <2>3. ASSUME NEW v \in Vehicles PROVE front[v] \in Vehicles \cup {None}
    BY <1>1, <1>2, <1>4
  <2>4. ASSUME NEW v \in Vehicles PROVE rear[v] \in Vehicles \cup {None}
    BY <1>1, <1>2, <1>4
  <2> QED BY <2>1, <2>2, <2>3, <2>4
<1>6. TypeOK
  <2>1. SingleList \in Seq(Vehicles) /\ Len(SingleList) \in Nat
    BY PlatoonAssumption, LenProperties DEF PlatoonAssumption
  <2>2. /\ list \in [Platoons -> Seq(Vehicles)]
        /\ recover \in [Platoons -> 0 .. RecoverSteps]
        /\ pace \in [Platoons -> {"zero", "slow", "origin"}]
        /\ gap \in [Vehicles -> 0 .. OpenGap]
        /\ blacklist \in [Vehicles -> SUBSET Platoons]
        /\ nearby \in [Vehicles -> SUBSET Vehicles]
        /\ singles \in Seq(Vehicles) /\ turn \in 0 .. Len(singles)
    BY <2>1, PlatoonAssumption DEF PlatoonAssumption, Init
  <2> QED BY <1>5, <2>2 DEF TypeOK
<1> HIDE DEF members, home, place
<1>7. ListsAgree
  BY <1>1, <1>3, <1>4 DEF ListsAgree
<1>8. AgreeWithLists
  <2> SUFFICES ASSUME NEW v \in Vehicles
               PROVE  IF platoon[v] = None THEN inId[v] = None /\ status[v] \in Single
                      ELSE /\ inId[v] \in 0 .. Len(list[platoon[v]]) - 1
                           /\ list[platoon[v]][inId[v] + 1] = v
    BY DEF AgreeWithLists
  <2>1. CASE v \in members
    <3>1. home(v) \in Platoons /\ place(v) \in 1 .. Len(Initial[home(v)])
          /\ Initial[home(v)][place(v)] = v /\ Len(Initial[home(v)]) \in Nat
      BY <1>1, <1>2, <2>1
    <3>2. platoon[v] = home(v) /\ inId[v] = place(v) - 1 /\ list = Initial
      BY <1>4, <2>1
    <3>3. (place(v) - 1) + 1 = place(v) /\ place(v) - 1 \in 0 .. Len(Initial[home(v)]) - 1
      BY <3>1
    <3> QED BY <3>1, <3>2, <3>3, NoneIsNoPlatoon
  <2>2. CASE v \notin members
    BY <1>4, <2>2 DEF Single
  <2> QED BY <2>1, <2>2
<1>9. Linked
  <2> SUFFICES ASSUME NEW p \in Platoons, NEW i \in 1 .. Len(list[p])
               PROVE  LET v == list[p][i]
                      IN  /\ front[v] = IF i = 1 THEN None ELSE list[p][i - 1]
                          /\ rear[v] = IF i = Len(list[p]) THEN None ELSE list[p][i + 1]
                          /\ status[v] \in IF i = 1 THEN {"LEADING_MODE"}
                                           ELSE {"MAINTINING", "OPEN_GAP"}
    BY DEF Linked
  <2> DEFINE v == list[p][i]
  <2>1. /\ v \in Vehicles /\ v \in members /\ home(v) = p /\ place(v) = i
        /\ Len(list[p]) \in Nat /\ list = Initial
    BY <1>1, <1>3, <1>4
  <2> HIDE DEF v
  <2>2. /\ status[v] = IF i = 1 THEN "LEADING_MODE" ELSE "MAINTINING"
        /\ front[v] = IF i > 1 THEN list[p][i - 1] ELSE None
        /\ rear[v] = IF i < Len(list[p]) THEN list[p][i + 1] ELSE None
    BY <1>4, <2>1
  <2> QED BY <2>1, <2>2 DEF v
<1>10. \A v \in Vehicles : status[v] \in {"SEARCHING", "DISABLE", "LEADING_MODE", "MAINTINING"}
  BY <1>4
<1>11. JoinPointStands
  BY <1>10 DEF JoinPointStands, JoinPoint
<1>12. GapIsForSomebody
  BY <1>10 DEF GapIsForSomebody
<1> QED BY <1>6, <1>7, <1>8, <1>9, <1>11, <1>12 DEF IInv, MembersInOrder

(* Orders, chosen places and open gaps are right in every state.           *)
THEOREM PlatoonInductive == Spec => []IInv
BY InitKeeps, NextKeeps, PTL DEF Spec

(* Every variable of the platoons keeps its type, for any capacity.        *)
THEOREM PlatoonTypes == Spec => []TypeOK
<1>1. IInv => TypeOK
  BY DEF IInv
<1> QED BY <1>1, PlatoonInductive, PTL

(* update_member_order: nobody is a member twice, and the links run along  *)
(* the list, whoever joins where and in which order.                       *)
THEOREM MembersInOrderHolds == Spec => []MembersInOrder
<1>1. IInv => MembersInOrder
  BY DEF IInv
<1> QED BY <1>1, PlatoonInductive, PTL

(* What match_platoon has chosen stays a place in one platoon until the    *)
(* CAV is there, although others join meanwhile.                           *)
THEOREM JoinPointStandsHolds == Spec => []JoinPointStands
<1>1. IInv => JoinPointStands
  BY DEF IInv
<1> QED BY <1>1, PlatoonInductive, PTL

(* A member in OPEN_GAP has a CAV that cuts in before it.                  *)
THEOREM GapIsForSomebodyHolds == Spec => []GapIsForSomebody
<1>1. IInv => GapIsForSomebody
  BY DEF IInv
<1> QED BY <1>1, PlatoonInductive, PTL

(* One step leaves two CAVs that have heard each other where they are.     *)
LEMMA BlindedStep ==
  ASSUME IInv, [Next]_vars, NEW v \in Vehicles, NEW w \in Vehicles, Blinded(v, w)
  PROVE  Blinded(v, w)'
<1>1. CASE UNCHANGED <<membership, status, nearby>>
  BY <1>1 DEF Blinded, membership
<1>2. ASSUME NEW u \in Vehicles, SingleStep(u)
      PROVE  Blinded(v, w)'
  <2>1. OnTurn(u) /\ platoon[u] = None /\ inId[u] = None
    BY <1>2, OnTurnFacts DEF SingleStep, OnTurn
  <2>2. w \in nearby'[v] /\ v \in nearby'[w]
    BY <2>1, OnTurnFacts DEF Blinded
  <2>3. CASE u \in {v, w}
    <3>1. status[u] = "SEARCHING"
      BY <2>3 DEF Blinded
    <3>2. nearby'[u] \cap Outsiders # {}
      BY <2>2, <2>3 DEF Blinded, Outsiders
    <3>3. SearchRaises(u)
      BY <1>2, <3>1, <3>2 DEF SingleStep, Search, SearchInVain, Found, StayOnCourse,
           CutInBlocked, AskForGap, Merge, FinishRaises, Finish, FinishAhead, Abandon, FallBehind
    <3>4. status' = status /\ platoon' = platoon
      BY <2>1, <3>3, ResetKeepsMembership DEF SearchRaises
    <3> QED BY <2>2, <3>4 DEF Blinded
  <2>4. CASE u \notin {v, w}
    <3>1. ASSUME NEW t \in {v, w}
          PROVE  platoon'[t] = platoon[t] /\ status'[t] = status[t]
      <4>1. /\ platoon[t] = None /\ t # u /\ t \in Vehicles
            /\ \A p \in Platoons : \A i \in 1 .. Len(list[p]) : list[p][i] # t
        BY <2>4, OutsiderFacts DEF Blinded, IInv, MembersInOrder, AgreeWithLists
      <4>2. CASE Search(u)
        BY <2>1, <4>1, <4>2, ResetKeepsMembership
           DEF Search, SearchRaises, SearchInVain, Match, IInv, TypeOK
      <4>3. ASSUME NEW new \in {"BACK_JOINING", "MOVE_TO_POINT"}, CutInBlocked(u, new)
            PROVE  platoon'[t] = platoon[t] /\ status'[t] = status[t]
        <5>1. t # rear[u]
          BY <4>1, <4>3, JoinerFacts, NoneIsNoPlatoon DEF CutInBlocked
        <5> QED BY <4>1, <4>3, <5>1 DEF CutInBlocked, RearGetsStatus, membership, IInv, TypeOK
      <4>4. CASE AskForGap(u) \/ FinishRaises(u)
        <5>1. t # rear[u]
          BY <4>1, <4>4, JoinerFacts, NoneIsNoPlatoon DEF AskForGap, FinishRaises
        <5> QED BY <4>1, <4>4, <5>1 DEF AskForGap, FinishRaises, RearGetsStatus, membership
      <4>5. CASE Merge(u) \/ Abandon(u) \/ FallBehind(u) \/ StayOnCourse(u)
        BY <4>1, <4>5 DEF Merge, Abandon, FallBehind, StayOnCourse, membership, IInv, TypeOK
      <4>6. CASE Finish(u) \/ FinishAhead(u)
        <5>0. PICK p \in Platoons : \E k \in 0 .. Len(list[p]) : Joins(u, p, k)
          BY <2>1, <4>6, FinishJoins, FinishAheadJoins
        <5>1. PICK k \in 0 .. Len(list[p]) : Joins(u, p, k)
          BY <5>0
        <5>2. platoon[t] # p
          BY <4>1, NoneIsNoPlatoon
        <5> QED BY <2>1, <4>1, <5>1, <5>2, JoinShifts
      <4> QED BY <1>2, <4>2, <4>3, <4>4, <4>5, <4>6 DEF SingleStep
    <3> QED BY <2>2, <3>1 DEF Blinded
  <2> QED BY <2>3, <2>4
<1> QED BY <1>1, <1>2 DEF Next, PlatoonsStep, PopMember, vars

(* search_platoon compares in_platoon with None: two searching CAVs that   *)
(* have heard each other stay outside every platoon for good.              *)
THEOREM BlindedForEverHolds == Spec => BlindedForEver
<1>1. IInv /\ [Next]_vars =>
        [\A v, w \in Vehicles : Blinded(v, w) => Blinded(v, w)']_vars
  BY BlindedStep
<1> QED BY <1>1, PlatoonInductive, PTL DEF Spec, BlindedForEver
-----------------------------------------------------------------------------
(* What a step does to the lists. *)

(* Members never leave and never overtake each other: whoever joins, and   *)
(* wherever, the members there are keep their order.                       *)
OrderKept ==
  [][\A v, w \in Vehicles :
       platoon[v] # None /\ platoon[w] = platoon[v] /\ inId[v] < inId[w] =>
         platoon'[v] = platoon[v] /\ platoon'[w] = platoon[v] /\ inId'[v] < inId'[w]]_vars

(* Who becomes a member does so where it chose to when it was accepted,    *)
(* however many have joined since: right behind its front vehicle and      *)
(* somewhere before its rear vehicle, or, without a front vehicle, right   *)
(* before the rear one.                                                    *)
Chosen(v) ==
  /\ status[v] \in {"JOINING", "BACK_JOINING", "FRONT_JOINING"}
  /\ front[v] # None =>
       platoon'[front[v]] = platoon'[v] /\ inId'[v] = inId'[front[v]] + 1
  /\ rear[v] # None =>
       platoon'[rear[v]] = platoon'[v] /\ inId'[v] < inId'[rear[v]]
  /\ front[v] = None => rear[v] # None /\ inId'[rear[v]] = inId'[v] + 1
JoinsWhereChosen ==
  [][\A v \in Vehicles : platoon[v] = None /\ platoon'[v] # None => Chosen(v)]_vars

(* The only steps that touch a list are those of a CAV that finishes.      *)
LEMMA ListsChangeByJoining ==
  ASSUME IInv, [Next]_vars
  PROVE  \/ UNCHANGED membership
         \/ \E v \in Vehicles : OnTurn(v) /\ (Finish(v) \/ FinishAhead(v))
<1>1. CASE UNCHANGED vars \/ PlatoonsStep \/ PopMember
  BY <1>1 DEF vars, PlatoonsStep, PopMember
<1>2. ASSUME NEW v \in Vehicles, SingleStep(v)
      PROVE  UNCHANGED membership \/ (OnTurn(v) /\ (Finish(v) \/ FinishAhead(v)))
  <2>1. OnTurn(v)
    BY <1>2 DEF SingleStep
  <2>2. CASE Search(v)
    <3>1. Reset(v) /\ list' = list
      BY <2>2 DEF Search, SearchRaises, SearchInVain, Match
    <3> QED BY <2>1, <3>1, ResetKeepsMembership DEF membership
  <2>3. CASE ~Search(v) /\ ~Finish(v) /\ ~FinishAhead(v)
    BY <1>2, <2>3 DEF SingleStep, StayOnCourse, CutInBlocked, AskForGap, Merge, FinishRaises,
         Abandon, FallBehind
  <2> QED BY <2>1, <2>2, <2>3
<1> QED BY <1>1, <1>2 DEF Next

THEOREM OrderKeptHolds == Spec => OrderKept
<1> DEFINE Kept(v, w) ==
      platoon[v] # None /\ platoon[w] = platoon[v] /\ inId[v] < inId[w] =>
        platoon'[v] = platoon[v] /\ platoon'[w] = platoon[v] /\ inId'[v] < inId'[w]
<1>1. ASSUME IInv, [Next]_vars, NEW v \in Vehicles, NEW w \in Vehicles
      PROVE  Kept(v, w)
  <2>1. CASE UNCHANGED membership
    BY <2>1 DEF membership
  <2>2. ASSUME NEW u \in Vehicles, OnTurn(u), Finish(u) \/ FinishAhead(u)
        PROVE  Kept(v, w)
    <3>1. PICK p \in Platoons : \E k \in 0 .. Len(list[p]) : Joins(u, p, k)
      BY <1>1, <2>2, FinishJoins, FinishAheadJoins
    <3>2. PICK k \in 0 .. Len(list[p]) : Joins(u, p, k)
      BY <3>1
    <3>3. SUFFICES ASSUME platoon[v] # None, platoon[w] = platoon[v], inId[v] < inId[w]
                   PROVE  platoon'[v] = platoon[v] /\ platoon'[w] = platoon[v] /\ inId'[v] < inId'[w]
      OBVIOUS
    <3>4. v # u /\ w # u
      BY <1>1, <2>2, <3>3, OnTurnFacts
    <3>5. inId[v] \in Nat /\ inId[w] \in Nat /\ k \in Int
      BY <1>1, <3>3, MemberFacts
    <3>6. CASE platoon[v] = p
      <4>1. /\ platoon'[v] = p /\ platoon'[w] = p
            /\ inId'[v] = IF inId[v] < k THEN inId[v] ELSE inId[v] + 1
            /\ inId'[w] = IF inId[w] < k THEN inId[w] ELSE inId[w] + 1
        BY <1>1, <2>2, <3>2, <3>3, <3>6, JoinShifts
      <4> QED BY <3>3, <3>5, <3>6, <4>1
    <3>7. CASE platoon[v] # p
      BY <1>1, <2>2, <3>2, <3>3, <3>4, <3>7, JoinShifts
    <3> QED BY <3>6, <3>7
  <2> QED BY <1>1, <2>1, <2>2, ListsChangeByJoining
<1>2. IInv /\ [Next]_vars => [\A v, w \in Vehicles : Kept(v, w)]_vars
  BY <1>1
<1> QED BY <1>2, PlatoonInductive, PTL DEF Spec, OrderKept

THEOREM JoinsWhereChosenHolds == Spec => JoinsWhereChosen
<1>1. ASSUME IInv, [Next]_vars, NEW v \in Vehicles, platoon[v] = None, platoon'[v] # None
      PROVE  Chosen(v)
  <2>1. PICK u \in Vehicles : OnTurn(u) /\ (Finish(u) \/ FinishAhead(u))
    BY <1>1, ListsChangeByJoining DEF membership
  <2>2. u = v
    <3>1. PICK p \in Platoons : \E k \in 0 .. Len(list[p]) : Joins(u, p, k)
      BY <1>1, <2>1, FinishJoins, FinishAheadJoins
    <3>2. PICK k \in 0 .. Len(list[p]) : Joins(u, p, k)
      BY <3>1
    <3> QED BY <1>1, <2>1, <3>2, JoinShifts, NoneIsNoPlatoon
  <2>3. front[v] \in Vehicles \cup {None} /\ rear[v] \in Vehicles \cup {None}
    BY <1>1 DEF IInv, TypeOK
  <2>4. CASE Finish(v)
    <3> DEFINE p == platoon[front[v]]
               k == inId[front[v]] + 1
    <3>1. /\ front[v] \in Vehicles /\ p \in Platoons /\ k \in 0 .. Len(list[p])
          /\ Joins(v, p, k)
      BY <1>1, <2>1, <2>2, <2>4, FinishJoins
    <3>2. status[v] \in {"JOINING", "BACK_JOINING"}
      BY <2>4 DEF Finish
    <3>3. rear[v] # None => /\ rear[v] \in Vehicles /\ platoon[rear[v]] = p
                            /\ inId[front[v]] < inId[rear[v]]
      BY <1>1, <2>3, <3>2 DEF IInv, JoinPointStands, JoinPoint
    <3>4. inId[front[v]] \in Nat
      BY <1>1, <3>1, MemberFacts, NoneIsNoPlatoon
    <3>5. rear[v] # None => inId[rear[v]] \in Nat
      BY <1>1, <3>1, <3>3, MemberFacts, NoneIsNoPlatoon
    <3>6. platoon'[v] = p /\ inId'[v] = k
      BY <1>1, <2>1, <2>2, <3>1, JoinShifts
    <3>7. \A w \in Vehicles : platoon[w] = p =>
            platoon'[w] = p /\ inId'[w] = IF inId[w] < k THEN inId[w] ELSE inId[w] + 1
      BY <1>1, <2>1, <2>2, <3>1, JoinShifts
    <3>8. platoon'[front[v]] = p /\ inId'[front[v]] = inId[front[v]]
      BY <3>1, <3>4, <3>7
    <3>9. rear[v] # None => platoon'[rear[v]] = p /\ inId'[rear[v]] = inId[rear[v]] + 1
      BY <3>3, <3>4, <3>5, <3>7
    <3>10. front[v] # None
      BY <3>1, NoneIsNoPlatoon
    <3> QED BY <3>2, <3>3, <3>4, <3>5, <3>6, <3>8, <3>9, <3>10 DEF Chosen
  <2>5. CASE FinishAhead(v)
    <3> DEFINE p == platoon[rear[v]]
               k == inId[rear[v]]
    <3>1. /\ front[v] = None /\ rear[v] \in Vehicles /\ p \in Platoons
          /\ k \in 0 .. Len(list[p]) /\ Joins(v, p, k)
      BY <1>1, <2>1, <2>2, <2>5, FinishAheadJoins
    <3>2. platoon'[v] = p /\ inId'[v] = k
      BY <1>1, <2>1, <2>2, <3>1, JoinShifts
    <3>3. platoon'[rear[v]] = p /\ inId'[rear[v]] = k + 1
      BY <1>1, <2>1, <2>2, <3>1, JoinShifts
    <3>4. status[v] = "FRONT_JOINING" /\ rear[v] # None
      BY <2>5, <3>1, NoneIsNoPlatoon DEF FinishAhead
    <3> QED BY <3>1, <3>2, <3>3, <3>4 DEF Chosen
  <2> QED BY <2>1, <2>2, <2>4, <2>5
<1>2. IInv /\ [Next]_vars =>
        [\A v \in Vehicles : platoon[v] = None /\ platoon'[v] # None => Chosen(v)]_vars
  BY <1>1
<1> QED BY <1>2, PlatoonInductive, PTL DEF Spec, JoinsWhereChosen
-----------------------------------------------------------------------------
(* The loop over the single CAVs, which pops from the list it iterates. *)

(* A CAV of the scenario that has not joined a platoon is never popped:    *)
(* it stays in the loop and gets its turn again.                           *)
NobodyIsForgotten == \A v \in Elements(SingleList) : inId[v] = None => v \in Elements(singles)

(* The loop of a tick ends, although elements are popped and passed over:  *)
(* every step of it leaves less of the list.                               *)
LoopEnds ==
  [][turn > 0 => turn' = 0 \/ Len(singles') - turn' < Len(singles) - turn]_vars

LEMMA MembersStay ==
  ASSUME IInv, [Next]_vars, NEW v \in Vehicles, inId[v] # None
  PROVE  inId'[v] # None
<1>1. CASE UNCHANGED membership
  BY <1>1 DEF membership
<1>2. ASSUME NEW u \in Vehicles, OnTurn(u), Finish(u) \/ FinishAhead(u)
      PROVE  inId'[v] # None
  <2>1. PICK p \in Platoons : \E k \in 0 .. Len(list[p]) : Joins(u, p, k)
    BY <1>2, FinishJoins, FinishAheadJoins
  <2>2. PICK k \in 0 .. Len(list[p]) : Joins(u, p, k)
    BY <2>1
  <2>3. platoon[v] # None
    BY DEF IInv, MembersInOrder, AgreeWithLists
  <2>4. inId[v] \in Nat /\ v # u
    BY <1>2, <2>3, MemberFacts, OnTurnFacts
  <2>5. inId'[v] \in {inId[v], inId[v] + 1}
    BY <1>2, <2>2, <2>4, JoinShifts
  <2>6. inId'[v] \in Nat
    BY <2>4, <2>5
  <2> QED BY <2>6, NoneIsNoPlatoon
<1> QED BY <1>1, <1>2, ListsChangeByJoining

LEMMA PopMemberForgetsNobody ==
  ASSUME IInv, PopMember, NEW v \in Elements(singles), inId[v] = None
  PROVE  v \in Elements(singles')
<1>1. /\ singles \in Seq(Vehicles) /\ Len(singles) \in Nat
      /\ turn \in 1 .. Len(singles) /\ singles' = Popped(singles, turn)
      /\ inId[singles[turn]] # None
  BY LenProperties DEF IInv, TypeOK, PopMember
<1>2. PICK i \in 1 .. Len(singles) : v = singles[i]
  BY DEF Elements
<1>3. i # turn
  BY <1>1, <1>2
<1>4. \A j \in 1 .. Len(singles) - 1 :
        singles'[j] = IF j < turn THEN singles[j] ELSE singles[j + 1]
  BY <1>1 DEF Popped
<1>5. Len(singles') = Len(singles) - 1
  BY <1>1, PoppedFacts
<1>6. CASE i < turn
  <2>1. i \in 1 .. Len(singles) - 1 /\ singles'[i] = v
    BY <1>1, <1>2, <1>4, <1>6
  <2> QED BY <1>5, <2>1 DEF Elements
<1>7. CASE i > turn
  <2>1. /\ i - 1 \in 1 .. Len(singles) - 1 /\ ~(i - 1 < turn) /\ (i - 1) + 1 = i
    BY <1>1, <1>2, <1>7
  <2>2. singles'[i - 1] = v
    BY <1>2, <1>4, <2>1
  <2> QED BY <1>5, <2>1, <2>2 DEF Elements
<1> QED BY <1>1, <1>2, <1>3, <1>6, <1>7

LEMMA OnlyPopsFromSingles ==
  ASSUME [Next]_vars
  PROVE  PopMember \/ singles' = singles
BY DEF Next, PlatoonsStep, SingleStep, OnTurn, vars

THEOREM NobodyIsForgottenHolds == Spec => []NobodyIsForgotten
<1>1. Init => NobodyIsForgotten
  BY DEF Init, NobodyIsForgotten
<1>2. IInv /\ NobodyIsForgotten /\ [Next]_vars => NobodyIsForgotten'
  <2> SUFFICES ASSUME IInv, NobodyIsForgotten, [Next]_vars,
                      NEW v \in Elements(SingleList), inId'[v] = None
               PROVE  v \in Elements(singles')
    BY DEF NobodyIsForgotten
  <2>1. v \in Vehicles
    BY PlatoonAssumption, ElementOfSeq, LenProperties DEF Elements
  <2>2. inId[v] = None /\ v \in Elements(singles)
    BY <2>1, MembersStay DEF NobodyIsForgotten
  <2>3. CASE PopMember
    BY <2>2, <2>3, PopMemberForgetsNobody
  <2>4. CASE singles' = singles
    BY <2>2, <2>4
  <2> QED BY <2>3, <2>4, OnlyPopsFromSingles
<1> QED BY <1>1, <1>2, PlatoonInductive, PTL DEF Spec

THEOREM LoopEndsHolds == Spec => LoopEnds
<1> DEFINE Ends == turn > 0 => turn' = 0 \/ Len(singles') - turn' < Len(singles) - turn
<1>1. IInv /\ [Next]_vars => [Ends]_vars
  <2> SUFFICES ASSUME IInv, Next, turn > 0 PROVE turn' = 0 \/ Len(singles') - turn' < Len(singles) - turn
    OBVIOUS
  <2>1. singles \in Seq(Vehicles) /\ Len(singles) \in Nat /\ turn \in 1 .. Len(singles)
    BY LenProperties DEF IInv, TypeOK
  <2>2. CASE PopMember
    <3>1. Len(singles') = Len(singles) - 1
      BY <2>1, <2>2, PoppedFacts DEF PopMember
    <3>2. turn' = 0 \/ turn' = turn + 1
      BY <2>2 DEF PopMember, NextTurn
    <3> QED BY <2>1, <3>1, <3>2
  <2>3. ASSUME NEW v \in Vehicles, OnTurn(v)
        PROVE  turn' = 0 \/ Len(singles') - turn' < Len(singles) - turn
    <3>1. singles' = singles /\ (turn' = 0 \/ turn' = turn + 1)
      BY <2>3 DEF OnTurn, NextTurn
    <3> QED BY <2>1, <3>1
  <2>4. ~PlatoonsStep
    BY DEF PlatoonsStep
  <2> QED BY <2>2, <2>3, <2>4 DEF Next, SingleStep
<1> QED BY <1>1, PlatoonInductive, PTL DEF Spec, LoopEnds
=============================================================================
