-------------------------- MODULE EdgePlan_proofs --------------------------
(***************************************************************************)
(* What the edge plans, for any number of cars, any traffic and any road   *)
(* that has the lanes the search knows (LanesFit).                         *)
(***************************************************************************)
EXTENDS EdgePlan, TLAPS, FiniteSetTheorems

(* n was found by expanding p. *)
Step(p, n) == n.parent = Key(p) /\ IsMotion(p, n) /\ VerifyNode(n, p)
Second(n) == Start \in closed /\ Step(Start, n)
Third(n) == \E p \in closed : Second(p) /\ Step(p, n)
Fourth(n) == \E p \in closed : Third(p) /\ Step(p, n)

KeysOnce ==
  /\ \A n, m \in open : Key(n) = Key(m) => n = m
  /\ \A n, m \in closed : Key(n) = Key(m) => n = m
  /\ \A n \in open, m \in closed : Key(n) # Key(m)

SearchInv ==
  IF phase = "search"
  THEN /\ at \in Slices /\ KeysOnce
       /\ \A n \in closed : n = Start \/ Second(n) \/ Third(n)
       /\ \A n \in open : n = Start \/ Second(n) \/ Third(n) \/ Fourth(n)
       /\ (open = {Start} /\ current = Start) \/ current \in closed
  ELSE open = {} /\ closed = {}

(* What LaneChangesHaveRoom and SlowPairsChangeLane say of the commands,   *)
(* and which intentions there are.                                         *)
HasRoom(c, d) ==
  c # d /\ command[slice[c]] # NoCommand /\ Sent(c) # cars[c].lane =>
    /\ Distance(Sent(c), cars[c].lane) = 1
    /\ IF slice[c] = slice[d]
       THEN Sent(c) = Sent(d) \/ (Sent(c) = cars[d].lane /\ Sent(d) = cars[c].lane) =>
              Clear(Soon(c), Soon(d))
       ELSE Sent(c) = cars[d].lane => Clear(Soon(c), cars[d].pos)
SlowChanges(s) ==
  command[s] # NoCommand /\ (\A c \in Members(s) : cars[c].v < 4) =>
    \/ \E c \in Members(s) : command[s].lane[c] # cars[c].lane
    \/ command[s].v = command[s].lane
PlanInv ==
  phase \in {"plan", "search"} =>
    /\ \A c \in Cars : cars[c].intention = 0
    /\ \A c, d \in Cars : HasRoom(c, d)
    /\ \A s \in Slices : SlowChanges(s)

(* A car that is to change its lane has one on that side. *)
TickInv ==
  phase = "tick" =>
    \A c \in Cars :
      cars[c].intention # 0 => cars[c].lane + cars[c].intention \in Lanes

IInv == TypeOK /\ SearchInv /\ PlanInv /\ TickInv

Node(n) ==
  /\ n.x \in [Members(at) -> Nat] /\ n.y \in [Members(at) -> Lanes]
  /\ n.v \in [Members(at) -> Nat]
-----------------------------------------------------------------------------
(* The search *)

LEMMA StartFacts ==
  ASSUME TypeOK
  PROVE  /\ Node(Start)
         /\ \A c \in Members(at) :
              /\ Start.x[c] = cars[c].pos /\ Start.y[c] = cars[c].lane
              /\ Start.v[c] = cars[c].v
         /\ Start.parent = NoParent
         /\ \A p : Key(p) # Start.parent
<1>1. \A c \in Members(at) : cars[c].pos \in Nat /\ cars[c].lane \in Lanes /\ cars[c].v \in Nat
  BY EdgePlanAssumption DEF TypeOK, Members
<1>2. Start.parent = NoParent
  BY DEF Start
<1>3. \A p : Key(p) # NoParent
  BY DEF Key, NoParent
<1>4. /\ Start.x = [c \in Members(at) |-> cars[c].pos]
      /\ Start.y = [c \in Members(at) |-> cars[c].lane]
      /\ Start.v = [c \in Members(at) |-> cars[c].v]
  BY DEF Start
<1>5. Node(Start)
  BY <1>1, <1>4 DEF Node
<1> QED BY <1>2, <1>3, <1>4, <1>5

LEMMA NeighbourFacts ==
  ASSUME TypeOK, NEW p, Node(p), NEW n \in Neighbours(p)
  PROVE  Node(n) /\ Step(p, n)
<1>1. PICK dv \in Motions, dy \in Motions : n = Moved(p, dv, dy) /\ VerifyNode(n, p)
  BY DEF Neighbours
<1>2. /\ n.v = [c \in Members(at) |-> p.v[c] + dv[c]]
      /\ n.y = [c \in Members(at) |-> p.y[c] + dy[c]]
      /\ n.x = [c \in Members(at) |-> p.x[c] + n.v[c] \div 5]
      /\ n.parent = Key(p)
  BY <1>1 DEF Moved
<1>3. \A c \in Members(at) : n.v[c] \in Nat /\ n.y[c] \in Lanes
  <2>1. \A c \in Members(at) : n.v[c] \in 0 .. MaxSpeed - 1 /\ n.y[c] \in 0 .. SearchLanes - 1
    BY <1>1, <1>2 DEF VerifyNode, InLimits
  <2> QED BY <2>1, EdgePlanAssumption, LanesFit DEF Lanes
<1>4. \A c \in Members(at) : n.x[c] \in Nat
  BY <1>2, <1>3 DEF Node
<1>5. Node(n)
  BY <1>2, <1>3, <1>4 DEF Node
<1>6. ASSUME NEW c \in Members(at)
      PROVE  /\ Distance(n.v[c], p.v[c]) <= 1 /\ Distance(n.y[c], p.y[c]) <= 1
             /\ n.x[c] = p.x[c] + n.v[c] \div 5
  <2>1. dv[c] \in -1 .. 1 /\ dy[c] \in -1 .. 1
    BY DEF Motions
  <2>2. p.v[c] \in Int /\ p.y[c] \in Int
    BY DEF Node, Lanes
  <2>3. n.v[c] = p.v[c] + dv[c] /\ n.y[c] = p.y[c] + dy[c]
    BY <1>2
  <2> QED BY <1>2, <2>1, <2>2, <2>3 DEF Distance
<1>7. DOMAIN n.y = Members(at)
  BY <1>2
<1> QED BY <1>1, <1>2, <1>5, <1>6, <1>7 DEF Step, IsMotion

LEMMA FourthIsLong == ASSUME NEW n, Fourth(n) PROVE LongEnough(n)
<1>1. PICK p \in closed : Third(p) /\ n.parent = Key(p)
  BY DEF Fourth, Step
<1>2. PICK q \in closed : Second(q) /\ p.parent = Key(q)
  BY <1>1 DEF Third, Step
<1>3. Start \in closed /\ q.parent = Key(Start)
  BY <1>2 DEF Second, Step
<1>4. p \in Parents({n})
  BY <1>1 DEF Parents
<1>5. q \in Parents(Parents({n}))
  BY <1>2, <1>4 DEF Parents
<1>6. Start \in Parents(Parents(Parents({n})))
  BY <1>3, <1>5 DEF Parents
<1> QED BY <1>6 DEF LongEnough

(* What depends on the slice and its cars only stays as they do. *)
LEMMA SameSlice ==
  ASSUME UNCHANGED <<cars, slice, at>>
  PROVE  /\ Start' = Start
         /\ \A n : Node(n)' <=> Node(n)
         /\ \A p, n : Step(p, n)' <=> Step(p, n)
<1>1. Start' = Start
  BY DEF Start, Members
<1>2. \A n : Node(n)' <=> Node(n)
  BY DEF Node, Members
<1>3. \A p, n : VerifyNode(n, p)' <=> VerifyNode(n, p)
  BY DEF VerifyNode, InLimits, Apart, ClearOfOthers, Holds, Members
<1>4. \A p, n : Step(p, n)' <=> Step(p, n)
  BY <1>3 DEF Step, IsMotion, Key
<1> QED BY <1>1, <1>2, <1>4

LEMMA FoundStays ==
  ASSUME UNCHANGED <<cars, slice, at>>, closed \subseteq closed', NEW n
  PROVE  /\ Second(n) => Second(n)'
         /\ Third(n) => Third(n)'
         /\ Fourth(n) => Fourth(n)'
<1>1. Start' = Start /\ \A p, m : Step(p, m)' <=> Step(p, m)
  BY SameSlice
<1>2. \A m : Second(m) => Second(m)'
  BY <1>1 DEF Second
<1>3. \A m : Third(m) => Third(m)'
  BY <1>1, <1>2 DEF Third
<1>4. Fourth(n) => Fourth(n)'
  BY <1>1, <1>3 DEF Fourth
<1> QED BY <1>2, <1>3, <1>4

LEMMA ExpandFacts ==
  ASSUME IInv, Expand
  PROVE  \E n \in open :
           /\ ~LongEnough(n)
           /\ current' = n /\ closed' = closed \union {n}
           /\ \A a, b \in open' : Key(a) = Key(b) => a = b
           /\ \A a \in open' :
                \/ a \in open \ {n}
                \/ a \in Neighbours(n) /\ NotClosed(a) /\ Key(a) # Key(n)
<1>1. PICK n \in open :
        /\ ~LongEnough(n)
        /\ current' = n /\ closed' = closed \union {n}
        /\ open' = Cheapest((open \ {n}) \union {m \in Neighbours(n) : NotClosed(m) /\ Key(m) # Key(n)},
                            open \ {n})
  BY DEF Expand, TakenFromOpen
<1>2. \A a, b \in open' : Key(a) = Key(b) => a = b
  BY <1>1 DEF Cheapest
<1>3. \A a \in open' :
        \/ a \in open \ {n}
        \/ a \in Neighbours(n) /\ NotClosed(a) /\ Key(a) # Key(n)
  BY <1>1 DEF Cheapest
<1> QED BY <1>1, <1>2, <1>3

LEMMA ExpandKeepsInv == ASSUME IInv, Expand PROVE TypeOK' /\ SearchInv'
<1>1. /\ phase = "search" /\ UNCHANGED <<phase, cars, grid, slice, at, command>>
  BY DEF Expand
<1>2. PICK n \in open :
           /\ ~LongEnough(n)
           /\ current' = n /\ closed' = closed \union {n}
           /\ \A a, b \in open' : Key(a) = Key(b) => a = b
           /\ \A a \in open' :
                \/ a \in open \ {n}
                \/ a \in Neighbours(n) /\ NotClosed(a) /\ Key(a) # Key(n)
  BY ExpandFacts
<1>3. TypeOK /\ SearchInv
  BY DEF IInv
<1>4. \A m \in open \union closed : Node(m)
  BY <1>3 DEF TypeOK, Node
<1>5. \A m \in Neighbours(n) : Node(m) /\ Step(n, m)
  BY <1>3, <1>4, NeighbourFacts
<1>6. \A m \in open' \union closed' : Node(m)'
  BY <1>1, <1>2, <1>4, <1>5, SameSlice
<1>7. TypeOK'
  BY <1>1, <1>3, <1>6 DEF TypeOK, Node, Members
<1>8. KeysOnce'
  <2>1. KeysOnce
    BY <1>1, <1>3 DEF SearchInv
  <2>2. \A a \in open', m \in closed' : Key(a) # Key(m)
    BY <1>2, <2>1 DEF KeysOnce, NotClosed
  <2>3. \A a, m \in closed' : Key(a) = Key(m) => a = m
    BY <1>2, <2>1 DEF KeysOnce
  <2>4. \A a, b \in open' : Key(a)' = Key(b)' => a = b
    BY <1>2 DEF Key
  <2> QED BY <1>2, <2>2, <2>3, <2>4 DEF KeysOnce, Key
<1>9. n = Start \/ Second(n) \/ Third(n)
  BY <1>1, <1>2, <1>3, FourthIsLong DEF SearchInv
<1>10. Start' = Start /\ \A p, m : Step(p, m)' <=> Step(p, m)
  BY <1>1, SameSlice
<1>11. \A m : (Second(m) => Second(m)') /\ (Third(m) => Third(m)') /\ (Fourth(m) => Fourth(m)')
  BY <1>1, <1>2, FoundStays
<1>12. \A m \in closed' : m = Start' \/ Second(m)' \/ Third(m)'
  BY <1>1, <1>2, <1>3, <1>9, <1>10, <1>11 DEF SearchInv
<1>13. ASSUME NEW m \in open'
       PROVE  m = Start' \/ Second(m)' \/ Third(m)' \/ Fourth(m)'
  <2>1. CASE m \in open
    BY <1>1, <1>3, <1>10, <1>11, <2>1 DEF SearchInv
  <2>2. CASE m \in Neighbours(n)
    <3>1. Step(n, m)' /\ n \in closed'
      BY <1>2, <1>5, <1>10, <2>2
    <3>2. CASE n = Start
      BY <1>10, <3>1, <3>2 DEF Second
    <3>3. CASE Second(n)
      BY <1>11, <3>1, <3>3 DEF Third
    <3>4. CASE Third(n)
      BY <1>11, <3>1, <3>4 DEF Fourth
    <3> QED BY <1>9, <3>2, <3>3, <3>4
  <2> QED BY <1>2, <2>1, <2>2
<1>14. current' \in closed' /\ at' \in Slices /\ phase' = "search"
  BY <1>1, <1>2, <1>3 DEF SearchInv, Slices
<1>15. SearchInv'
  BY <1>8, <1>12, <1>13, <1>14 DEF SearchInv, Slices
<1> QED BY <1>7, <1>15
-----------------------------------------------------------------------------
(* The path that the search returns *)

LEMMA OnlyParent ==
  ASSUME KeysOnce, NEW n, NEW p \in closed, n.parent = Key(p)
  PROVE  Parents({n}) = {p}
BY DEF Parents, KeysOnce

LEMMA StartHasNone == ASSUME TypeOK PROVE Parents({Start}) = {}
BY StartFacts DEF Parents

LEMMA PathIs ==
  ASSUME TypeOK, SearchInv, phase = "search", NEW n \in open \union closed
  PROVE  \/ n = Start /\ Path(n) = {Start}
         \/ Second(n) /\ Path(n) = {n, Start}
         \/ \E p \in closed : Second(p) /\ Step(p, n) /\ Path(n) = {n, p, Start}
         \/ \E p, q \in closed :
              Second(q) /\ Step(q, p) /\ Step(p, n) /\ Path(n) = {n, p, q, Start}
<1>1. KeysOnce /\ (n = Start \/ Second(n) \/ Third(n) \/ Fourth(n))
  BY DEF SearchInv
<1>2. Parents({}) = {} /\ Parents({Start}) = {}
  BY StartHasNone DEF Parents
<1>3. \A m : Second(m) => Parents({m}) = {Start}
  <2>1. TAKE m
  <2>2. HAVE Second(m)
  <2> QED BY <1>1, <2>2, OnlyParent DEF Second, Step
<1>4. \A m : \A p \in closed : Step(p, m) => Parents({m}) = {p}
  BY <1>1, OnlyParent DEF Step
<1>5. CASE n = Start
  BY <1>2, <1>5 DEF Path
<1>6. CASE Second(n)
  <2>1. Parents({n}) = {Start}
    BY <1>3, <1>6
  <2>2. Path(n) = {n, Start}
    BY <1>2, <2>1 DEF Path
  <2> QED BY <1>6, <2>2
<1>7. CASE Third(n)
  <2>1. PICK p \in closed : Second(p) /\ Step(p, n)
    BY <1>7 DEF Third
  <2>2. Parents({n}) = {p} /\ Parents({p}) = {Start}
    BY <1>3, <1>4, <2>1
  <2>3. Path(n) = {n, p, Start}
    BY <1>2, <2>2 DEF Path
  <2> QED BY <2>1, <2>3
<1>8. CASE Fourth(n)
  <2>1. PICK p \in closed : Third(p) /\ Step(p, n)
    BY <1>8 DEF Fourth
  <2>2. PICK q \in closed : Second(q) /\ Step(q, p)
    BY <2>1 DEF Third
  <2>3. Parents({n}) = {p} /\ Parents({p}) = {q} /\ Parents({q}) = {Start}
    BY <1>3, <1>4, <2>1, <2>2
  <2>4. Path(n) = {n, p, q, Start}
    BY <2>3 DEF Path
  <2> QED BY <2>1, <2>2, <2>4
<1> QED BY <1>1, <1>5, <1>6, <1>7, <1>8

LEMMA LeadsBack == ASSUME IInv PROVE PathsLeadBack
<1>1. SUFFICES ASSUME phase = "search"
      PROVE  /\ \A n, m \in open \union closed : Key(n) = Key(m) => n = m
             /\ \A n \in open \union closed :
                  /\ Start \in Path(n)
                  /\ \A m \in Path(n) \ {Start} :
                       \E p \in Path(n) : m.parent = Key(p) /\ IsMotion(p, m)
  BY DEF PathsLeadBack
<1>2. TypeOK /\ SearchInv /\ KeysOnce
  BY <1>1 DEF IInv, SearchInv
<1>3. \A n, m \in open \union closed : Key(n) = Key(m) => n = m
  BY <1>2 DEF KeysOnce
<1>4. ASSUME NEW n \in open \union closed
      PROVE  /\ Start \in Path(n)
             /\ \A m \in Path(n) \ {Start} : \E p \in Path(n) : m.parent = Key(p) /\ IsMotion(p, m)
  BY <1>1, <1>2, PathIs DEF Second, Step
<1> QED BY <1>3, <1>4

(* What is commanded is the start, or a step from it to other places. *)
FromStart(m) == Node(m) /\ Step(Start, m) /\ Key(m) # Key(Start)

LEMMA CommandedIs ==
  ASSUME TypeOK, SearchInv, phase = "search", NEW n \in open \union closed
  PROVE  \/ Commanded(n) = [lane |-> Start.y, v |-> Start.y]
         \/ \E m : FromStart(m) /\ Commanded(n) = [lane |-> m.y, v |-> m.v]
<1>1. CASE n = Start
  BY <1>1, StartFacts DEF Commanded
<1>2. CASE n # Start
  <2>1. \E m \in Path(n) : m.parent = Key(Start)
    BY <1>2, PathIs DEF Second, Step
  <2>2. FirstStep(n) \in Path(n) /\ FirstStep(n).parent = Key(Start)
    BY <2>1 DEF FirstStep
  <2>3. Path(n) \subseteq closed \union {n}
    BY DEF Path, Parents
  <2> DEFINE m == FirstStep(n)
  <2>4. m \in open \union closed /\ m.parent = Key(Start)
    BY <2>2, <2>3
  <2> HIDE DEF m
  <2>5. m # Start
    BY <2>4, StartFacts
  <2>6. \A p : Step(p, m) => Key(p) = Key(Start)
    BY <2>4 DEF Step
  <2>7. ASSUME NEW p \in closed, Step(p, m) PROVE p = Start \/ Start \notin closed
    BY <2>6, <2>7 DEF SearchInv, KeysOnce
  <2>8. \A p : Second(p) => p # Start
    BY StartFacts DEF Second, Step
  <2>9. Second(m)
    <3>1. Second(m) \/ Third(m) \/ Fourth(m)
      BY <2>4, <2>5 DEF SearchInv
    <3>2. \A p : Third(p) => p # Start
      BY StartFacts DEF Third, Step
    <3>3. \A p : Second(p) \/ Third(p) => Start \in closed
      BY DEF Second, Third
    <3>4. ~Third(m)
      BY <2>7, <2>8, <3>3 DEF Third
    <3>5. ~Fourth(m)
      BY <2>7, <3>2, <3>3 DEF Fourth
    <3> QED BY <3>1, <3>4, <3>5
  <2>10. Node(m)
    BY <2>4 DEF TypeOK, Node
  <2>11. Key(m) # Key(Start)
    BY <2>4, <2>5, <2>9 DEF SearchInv, KeysOnce, Second
  <2>12. n.parent # NoParent
    BY <1>2, PathIs DEF Second, Step, Key, NoParent
  <2>13. Commanded(n) = [lane |-> m.y, v |-> m.v]
    BY <2>12 DEF Commanded, m
  <2>14. FromStart(m)
    BY <2>9, <2>10, <2>11 DEF FromStart, Second
  <2> QED BY <2>13, <2>14
<1> QED BY <1>1, <1>2
-----------------------------------------------------------------------------
(* The end of a search *)

(* A step from the start is what the command needs. *)
LEMMA FromStartHasRoom ==
  ASSUME TypeOK, \A c \in Cars : cars[c].intention = 0, NEW m, FromStart(m),
         NEW c \in Members(at), NEW d \in Cars, c # d, m.y[c] # cars[c].lane
  PROVE  /\ Distance(m.y[c], cars[c].lane) = 1
         /\ IF d \in Members(at)
            THEN m.y[c] = m.y[d] \/ (m.y[c] = cars[d].lane /\ m.y[d] = cars[c].lane) =>
                   Clear(m.x[c], m.x[d])
            ELSE m.y[c] = cars[d].lane => Clear(m.x[c], cars[d].pos)
<1>1. /\ \A e \in Members(at) : Start.y[e] = cars[e].lane
      /\ Node(m) /\ IsMotion(Start, m) /\ VerifyNode(m, Start)
  BY StartFacts DEF FromStart, Step
<1>2. DOMAIN m.y = Members(at) /\ \A e \in Members(at) : m.y[e] \in Int /\ m.x[e] \in Int
  BY <1>1 DEF Node, Lanes
<1>3. \A e \in Cars : cars[e].lane \in Int /\ cars[e].pos \in Int
  BY EdgePlanAssumption DEF TypeOK, Lanes
<1>4. c \in Cars
  BY DEF Members
<1>5. Distance(m.y[c], cars[c].lane) <= 1
  BY <1>1, <1>2 DEF IsMotion
<1>6. Distance(m.y[c], cars[c].lane) = 1
  BY <1>2, <1>3, <1>4, <1>5 DEF Distance
<1>7. ASSUME d \in Members(at),
             m.y[c] = m.y[d] \/ (m.y[c] = cars[d].lane /\ m.y[d] = cars[c].lane)
      PROVE  Clear(m.x[c], m.x[d])
  <2>1. \A i, j \in Members(at) :
          i < j /\ (m.y[i] = m.y[j] \/ m.y[i] = cars[j].lane) => Clear(m.x[i], m.x[j])
    BY <1>1, <1>2 DEF VerifyNode, Apart
  <2>2. CASE c < d
    BY <1>7, <2>1, <2>2
  <2>3. CASE d < c
    <3>1. Clear(m.x[d], m.x[c])
      BY <1>7, <2>1, <2>3
    <3> QED BY <1>2, <1>7, <3>1 DEF Clear, Distance
  <2>4. c < d \/ d < c
    BY <1>4 DEF Cars
  <2> QED BY <2>2, <2>3, <2>4
<1>8. ASSUME d \notin Members(at), m.y[c] = cars[d].lane
      PROVE  Clear(m.x[c], cars[d].pos)
  BY <1>1, <1>2, <1>8 DEF VerifyNode, ClearOfOthers, Holds
<1> QED BY <1>6, <1>7, <1>8

(* Cars that are too slow to get a metre further in 0.2 s get to another   *)
(* place in another lane only.                                             *)
LEMMA FromStartMovesAside ==
  ASSUME TypeOK, NEW m, FromStart(m), \A c \in Members(at) : cars[c].v < 4
  PROVE  \E c \in Members(at) : m.y[c] # cars[c].lane
<1>1. SUFFICES ASSUME \A c \in Members(at) : m.y[c] = cars[c].lane PROVE FALSE
  OBVIOUS
<1>2. /\ Node(Start) /\ Node(m) /\ IsMotion(Start, m) /\ Key(m) # Key(Start)
      /\ \A c \in Members(at) : Start.x[c] = cars[c].pos /\ Start.y[c] = cars[c].lane /\ Start.v[c] = cars[c].v
  BY StartFacts DEF FromStart, Step
<1>3. ASSUME NEW c \in Members(at) PROVE m.x[c] = Start.x[c]
  <2>1. m.v[c] \in Nat /\ Start.v[c] \in Nat /\ Start.v[c] < 4 /\ Start.x[c] \in Nat
    BY <1>2 DEF Node
  <2>2. Distance(m.v[c], Start.v[c]) <= 1 /\ m.x[c] = Start.x[c] + m.v[c] \div 5
    BY <1>2 DEF IsMotion, Node
  <2>3. m.v[c] \in 0 .. 4
    BY <2>1, <2>2 DEF Distance
  <2>4. m.v[c] \div 5 = 0
    BY <2>3
  <2> QED BY <2>1, <2>2, <2>4
<1>4. m.x = Start.x
  BY <1>2, <1>3 DEF Node
<1>5. m.y = Start.y
  BY <1>1, <1>2 DEF Node
<1> QED BY <1>2, <1>4, <1>5 DEF Key

LEMMA ConcludeKeepsInv ==
  ASSUME IInv, phase = "search", NEW n \in open \union closed, Conclude(n)
  PROVE  IInv'
<1>1. /\ at \in Slices /\ TypeOK /\ SearchInv
      /\ \A c \in Cars : cars[c].intention = 0
      /\ \A c, d \in Cars : HasRoom(c, d)
      /\ \A s \in Slices : SlowChanges(s)
  BY DEF IInv, SearchInv, PlanInv
<1>2. /\ command' = [command EXCEPT ![at] = Commanded(n)]
      /\ at' = at - 1 /\ phase' = "plan" /\ open' = {} /\ closed' = {}
      /\ UNCHANGED <<cars, grid, slice>>
  BY DEF Conclude
<1> DEFINE given == Commanded(n)
<1>3. \/ given = [lane |-> Start.y, v |-> Start.y]
      \/ \E m : FromStart(m) /\ given = [lane |-> m.y, v |-> m.v]
  BY <1>1, CommandedIs
<1>4. /\ Node(Start)
      /\ \A c \in Members(at) :
           Start.x[c] = cars[c].pos /\ Start.y[c] = cars[c].lane /\ Start.v[c] = cars[c].v
  BY <1>1, StartFacts
<1>5. /\ DOMAIN command' = Slices /\ command'[at] = given
      /\ \A s \in Slices \ {at} : command'[s] = command[s]
  BY <1>1, <1>2 DEF TypeOK
<1> HIDE DEF given
<1>6. given.lane \in [Members(at) -> Lanes] /\ given.v \in [Members(at) -> Nat]
  <2>1. CASE given = [lane |-> Start.y, v |-> Start.y]
    BY <1>4, <2>1, EdgePlanAssumption DEF Node, Lanes
  <2>2. CASE \E m : FromStart(m) /\ given = [lane |-> m.y, v |-> m.v]
    BY <2>2 DEF FromStart, Node
  <2> QED BY <1>3, <2>1, <2>2
<1>7. at - 1 \in 0 .. N \div 2 + 1
  BY <1>1, EdgePlanAssumption DEF Slices
<1>8. \A s \in Slices : Members(s)' = Members(s)
  BY <1>2 DEF Members
<1>9. TypeOK'
  <2>1. \A s \in Slices : command'[s] # NoCommand =>
          command'[s].lane \in [Members(s) -> Lanes] /\ command'[s].v \in [Members(s) -> Nat]
    BY <1>1, <1>5, <1>6 DEF TypeOK
  <2> QED BY <1>1, <1>2, <1>5, <1>7, <1>8, <2>1 DEF TypeOK
<1>10. SearchInv' /\ TickInv'
  BY <1>2 DEF SearchInv, TickInv
<1>11. ASSUME NEW c \in Cars, NEW d \in Cars PROVE HasRoom(c, d)'
  <2>1. slice[c] \in Slices /\ slice[d] \in Slices
    BY <1>1 DEF TypeOK
  <2>2. CASE slice[c] # at
    BY <1>1, <1>2, <1>5, <2>1, <2>2 DEF HasRoom, Sent, Soon
  <2>3. CASE slice[c] = at /\ given = [lane |-> Start.y, v |-> Start.y]
    <3>1. Sent(c)' = cars[c].lane
      BY <1>2, <1>4, <1>5, <2>3 DEF Sent, Members
    <3> QED BY <1>2, <3>1 DEF HasRoom
  <2>4. ASSUME slice[c] = at, NEW m, FromStart(m), given = [lane |-> m.y, v |-> m.v]
        PROVE  HasRoom(c, d)'
    <3>1. c \in Members(at) /\ (d \in Members(at) <=> slice[d] = slice[c])
      BY <2>4 DEF Members
    <3>2. \A e \in Members(at) : m.x[e] = cars[e].pos + m.v[e] \div 5
      BY <1>4, <2>4 DEF FromStart, Step, IsMotion, Node
    <3>3. \A e \in Members(at) : Sent(e)' = m.y[e] /\ Soon(e)' = m.x[e]
      BY <1>2, <1>5, <2>4, <3>2 DEF Sent, Soon, Members
    <3>4. SUFFICES ASSUME c # d, Sent(c)' # cars[c].lane
          PROVE /\ Distance(Sent(c)', cars[c].lane) = 1
                /\ IF slice[c] = slice[d]
                   THEN Sent(c)' = Sent(d)' \/ (Sent(c)' = cars[d].lane /\ Sent(d)' = cars[c].lane) =>
                          Clear(Soon(c)', Soon(d)')
                   ELSE Sent(c)' = cars[d].lane => Clear(Soon(c)', cars[d].pos)
      BY <1>2 DEF HasRoom, Distance, Clear
    <3>5. /\ Distance(m.y[c], cars[c].lane) = 1
          /\ IF d \in Members(at)
             THEN m.y[c] = m.y[d] \/ (m.y[c] = cars[d].lane /\ m.y[d] = cars[c].lane) =>
                    Clear(m.x[c], m.x[d])
             ELSE m.y[c] = cars[d].lane => Clear(m.x[c], cars[d].pos)
      BY <1>1, <2>4, <3>1, <3>3, <3>4, FromStartHasRoom
    <3> QED BY <3>1, <3>3, <3>5
  <2> QED BY <1>3, <2>2, <2>3, <2>4
<1>12. ASSUME NEW s \in Slices PROVE SlowChanges(s)'
  <2>1. CASE s # at
    BY <1>1, <1>2, <1>5, <1>8, <2>1 DEF SlowChanges
  <2>2. CASE s = at /\ given = [lane |-> Start.y, v |-> Start.y]
    BY <1>5, <2>2 DEF SlowChanges
  <2>3. ASSUME s = at, NEW m, FromStart(m), given = [lane |-> m.y, v |-> m.v]
        PROVE  SlowChanges(s)'
    <3>1. SUFFICES ASSUME \A c \in Members(at) : cars[c].v < 4
          PROVE \E c \in Members(at) : command'[at].lane[c] # cars[c].lane
      BY <1>2, <1>8, <2>3 DEF SlowChanges
    <3> QED BY <1>1, <1>5, <2>3, <3>1, FromStartMovesAside
  <2> QED BY <1>3, <2>1, <2>2, <2>3
<1>13. PlanInv'
  BY <1>1, <1>2, <1>11, <1>12 DEF PlanInv
<1> QED BY <1>9, <1>10, <1>13 DEF IInv
-----------------------------------------------------------------------------
(* The other actions *)

OnRoad(road) == road \in [Cars -> [pos : 0 .. MapLength - 1, lane : Lanes, v : Nat, intention : -1 .. 1]]
OnGrid(cells) == cells \in [Cars -> [pos : 0 .. MapLength - 1, lane : Lanes]]

LEMMA IntendFacts ==
  ASSUME NEW t \in Traffics
  PROVE  OnRoad(Intend(t)) /\ \A c \in Cars : Intend(t)[c].intention = 0
<1>1. \A c \in Cars : t[c] \in [pos : 0 .. MapLength - 1, lane : Lanes, v : Nat]
  BY EdgePlanAssumption
<1> QED BY <1>1 DEF OnRoad, Intend

LEMMA OccupiedFacts == ASSUME NEW road, OnRoad(road) PROVE OnGrid(Occupied(road))
BY DEF OnRoad, OnGrid, Occupied

LEMMA Initially == ASSUME Init PROVE IInv
<1>1. OnRoad(cars) /\ OnGrid(grid)
  BY IntendFacts, OccupiedFacts DEF Init
<1>2. slice \in [Cars -> Slices] /\ at \in 0 .. N \div 2 + 1
  BY EdgePlanAssumption DEF Init, Slices
<1>3. DOMAIN command = Slices /\ \A s \in Slices : command[s] = NoCommand
  BY DEF Init
<1>4. TypeOK
  BY <1>1, <1>2, <1>3 DEF TypeOK, OnRoad, OnGrid, Init
<1> QED BY <1>4 DEF IInv, SearchInv, PlanInv, TickInv, Init

LEMMA UpdateKeepsInv == ASSUME IInv, Update PROVE IInv'
<1>1. /\ phase = "idle" /\ phase' = "plan" /\ at' = N \div 2 + 1
      /\ open' = {} /\ closed' = {}
  BY DEF Update, search, IInv, SearchInv
<1>2. OnRoad(cars') /\ OnGrid(grid') /\ \A c \in Cars : cars'[c].intention = 0
  BY IntendFacts, OccupiedFacts DEF Update
<1>3. slice' \in [Cars -> Slices] /\ at' \in 0 .. N \div 2 + 1
  BY <1>1, EdgePlanAssumption DEF Update
<1>4. DOMAIN command' = Slices /\ \A s \in Slices : command'[s] = NoCommand
  BY DEF Update
<1>5. TypeOK'
  BY <1>1, <1>2, <1>3, <1>4 DEF TypeOK, OnRoad, OnGrid
<1>6. PlanInv'
  BY <1>2, <1>3, <1>4 DEF PlanInv, HasRoom, SlowChanges
<1> QED BY <1>1, <1>5, <1>6 DEF IInv, SearchInv, TickInv

(* Planning goes on with the same cars, slices and commands. *)
LEMMA PlanInvStays ==
  ASSUME PlanInv, phase \in {"plan", "search"}, UNCHANGED <<cars, slice, command>>
  PROVE  PlanInv'
BY DEF PlanInv, HasRoom, SlowChanges, Sent, Soon, Members

LEMMA SkipKeepsInv == ASSUME IInv, SkipSlice PROVE IInv'
<1>1. /\ phase = "plan" /\ at > 0 /\ at' = at - 1
      /\ UNCHANGED <<phase, cars, grid, slice, search, command>>
  BY DEF SkipSlice
<1>2. at' \in 0 .. N \div 2 + 1
  BY <1>1, EdgePlanAssumption DEF IInv, TypeOK
<1>3. open' = {} /\ closed' = {}
  BY <1>1 DEF IInv, SearchInv, search
<1>4. TypeOK'
  BY <1>1, <1>2, <1>3 DEF IInv, TypeOK, Members
<1>5. PlanInv'
  BY <1>1, PlanInvStays DEF IInv
<1> QED BY <1>1, <1>3, <1>4, <1>5 DEF IInv, SearchInv, TickInv

LEMMA BeginKeepsInv == ASSUME IInv, BeginSearch PROVE IInv'
<1>1. /\ phase = "plan" /\ at > 0 /\ phase' = "search"
      /\ open' = {Start} /\ closed' = {} /\ current' = Start
      /\ UNCHANGED <<cars, grid, slice, at, command>>
  BY DEF BeginSearch
<1>2. TypeOK /\ Node(Start)
  BY StartFacts DEF IInv
<1>3. at \in Slices
  BY <1>1, <1>2, EdgePlanAssumption DEF TypeOK, Slices
<1>4. TypeOK'
  BY <1>1, <1>2 DEF TypeOK, Node, Members
<1>5. Start' = Start
  BY <1>1, SameSlice
<1>6. KeysOnce'
  BY <1>1 DEF KeysOnce, Key
<1>7. SearchInv'
  BY <1>1, <1>3, <1>5, <1>6 DEF SearchInv, Slices
<1>8. PlanInv'
  BY <1>1, PlanInvStays DEF IInv
<1> QED BY <1>1, <1>4, <1>7, <1>8 DEF IInv, TickInv

LEMMA ExpandKeepsAll == ASSUME IInv, Expand PROVE IInv'
<1>1. phase = "search" /\ UNCHANGED <<phase, cars, slice, command>>
  BY DEF Expand
<1>2. TypeOK' /\ SearchInv'
  BY ExpandKeepsInv
<1>3. PlanInv'
  BY <1>1, PlanInvStays DEF IInv
<1> QED BY <1>1, <1>2, <1>3 DEF IInv, TickInv

LEMMA RelayKeepsInv == ASSUME IInv, Relay PROVE IInv'
<1>1. /\ phase = "plan" /\ phase' = "tick" /\ at' = 1
      /\ cars' = [c \in Cars |->
           IF command[slice[c]] = NoCommand THEN cars[c]
           ELSE [cars[c] EXCEPT !.intention = Intention(c), !.v = command[slice[c]].v[c]]]
      /\ UNCHANGED <<grid, slice, search, command>>
  BY DEF Relay
<1>2. TypeOK /\ \A c \in Cars : cars[c].intention = 0
  BY <1>1 DEF IInv, PlanInv
<1>3. ASSUME NEW c \in Cars
      PROVE  /\ cars'[c] \in [pos : 0 .. MapLength - 1, lane : Lanes, v : Nat, intention : -1 .. 1]
             /\ cars'[c].intention # 0 => cars'[c].lane + cars'[c].intention \in Lanes
  <2>1. cars[c] \in [pos : 0 .. MapLength - 1, lane : Lanes, v : Nat, intention : -1 .. 1]
    BY <1>2 DEF TypeOK
  <2>2. CASE command[slice[c]] = NoCommand
    BY <1>1, <1>2, <2>1, <2>2
  <2>3. CASE command[slice[c]] # NoCommand
    <3>1. command[slice[c]].lane[c] \in Lanes /\ command[slice[c]].v[c] \in Nat
      BY <1>2, <2>3 DEF TypeOK, Members
    <3>2. /\ cars'[c].pos = cars[c].pos /\ cars'[c].lane = cars[c].lane
          /\ cars'[c].v = command[slice[c]].v[c] /\ cars'[c].intention = Intention(c)
          /\ cars'[c] = [cars[c] EXCEPT !.intention = Intention(c), !.v = command[slice[c]].v[c]]
      BY <1>1, <2>1, <2>3
    <3>3. Intention(c) \in -1 .. 1
      BY DEF Intention
    <3>4. Intention(c) # 0 => cars[c].lane + Intention(c) \in Lanes
      BY <2>1, <3>1, EdgePlanAssumption DEF Intention, Lanes
    <3> QED BY <2>1, <3>1, <3>2, <3>3, <3>4
  <2> QED BY <2>2, <2>3
<1>4. OnRoad(cars')
  BY <1>1, <1>3 DEF OnRoad
<1>5. 1 \in Cars
  BY EdgePlanAssumption DEF Cars
<1>6. open' = {} /\ closed' = {}
  BY <1>1 DEF IInv, SearchInv, search
<1>7. TypeOK'
  BY <1>1, <1>2, <1>4, <1>5, <1>6 DEF TypeOK, OnRoad, Members
<1> QED BY <1>1, <1>3, <1>6, <1>7 DEF IInv, SearchInv, PlanInv, TickInv

(* A turn of the loop of time_tick leaves at most one car changed. *)
LEMMA NextCarKeepsInv ==
  ASSUME IInv, NextCar, OnRoad(cars'),
         \A c \in Cars : cars'[c].intention # 0 => cars'[c].lane + cars'[c].intention \in Lanes
  PROVE  IInv'
<1>1. /\ phase = "tick" /\ UNCHANGED <<slice, search, command>>
      /\ TypeOK /\ open = {} /\ closed = {} /\ at \in Cars
  BY DEF NextCar, IInv, SearchInv, TypeOK
<1>2. open' = {} /\ closed' = {} /\ phase' \in {"idle", "tick"}
  BY <1>1 DEF NextCar, search
<1>3. OnGrid(grid')
  BY <1>1, OccupiedFacts DEF NextCar, TypeOK, OnGrid
<1>4. IF phase' = "tick" THEN at' \in Cars ELSE at' = 0
  BY <1>1, EdgePlanAssumption DEF NextCar, Cars
<1>5. 0 \in 0 .. N \div 2 + 1
  BY EdgePlanAssumption
<1>6. TypeOK'
  BY <1>1, <1>2, <1>3, <1>4, <1>5 DEF TypeOK, OnRoad, OnGrid, Members
<1> QED BY <1>2, <1>6 DEF IInv, SearchInv, PlanInv, TickInv

LEMMA ChangeLaneKeepsInv == ASSUME IInv, ChangeLane PROVE IInv'
<1>1. /\ phase = "tick" /\ cars[at].intention # 0 /\ NextCar
      /\ cars' = [cars EXCEPT ![at].lane = LaneShift(cars[at]), ![at].intention = 0]
  BY DEF ChangeLane
<1>2. /\ TypeOK /\ at \in Cars
      /\ \A c \in Cars : cars[c].intention # 0 => cars[c].lane + cars[c].intention \in Lanes
  BY <1>1 DEF IInv, TypeOK, TickInv
<1>3. cars[at] \in [pos : 0 .. MapLength - 1, lane : Lanes, v : Nat, intention : -1 .. 1]
  BY <1>2 DEF TypeOK
<1>4. LaneShift(cars[at]) \in Lanes
  BY <1>1, <1>2, <1>3, EdgePlanAssumption DEF LaneShift, Smaller, Lanes
<1>5. /\ cars'[at] = [cars[at] EXCEPT !.lane = LaneShift(cars[at]), !.intention = 0]
      /\ \A c \in Cars \ {at} : cars'[c] = cars[c]
  BY <1>1, <1>2 DEF TypeOK
<1>6. OnRoad(cars')
  BY <1>1, <1>2, <1>3, <1>4 DEF OnRoad, TypeOK
<1>7. \A c \in Cars : cars'[c].intention # 0 => cars'[c].lane + cars'[c].intention \in Lanes
  BY <1>2, <1>3, <1>5
<1> QED BY <1>1, <1>6, <1>7, NextCarKeepsInv

LEMMA DriveKeepsInv ==
  ASSUME IInv, phase = "tick", cars[at].intention = 0, NEW v \in Nat, DriveAt(v)
  PROVE  IInv'
<1>1. /\ NextCar
      /\ cars' = [cars EXCEPT ![at].v = v, ![at].pos = (cars[at].pos + v * Dt) % MapLength]
  BY DEF DriveAt
<1>2. /\ TypeOK /\ at \in Cars
      /\ \A c \in Cars : cars[c].intention # 0 => cars[c].lane + cars[c].intention \in Lanes
  BY DEF IInv, TypeOK, TickInv
<1>3. cars[at] \in [pos : 0 .. MapLength - 1, lane : Lanes, v : Nat, intention : -1 .. 1]
  BY <1>2 DEF TypeOK
<1>4. (cars[at].pos + v * Dt) % MapLength \in 0 .. MapLength - 1
  <2>1. v * Dt \in Nat
    BY EdgePlanAssumption
  <2>2. cars[at].pos + v * Dt \in Nat
    BY <1>3, <2>1
  <2> QED BY <2>2, EdgePlanAssumption
<1>5. /\ cars'[at] = [cars[at] EXCEPT !.v = v, !.pos = (cars[at].pos + v * Dt) % MapLength]
      /\ \A c \in Cars \ {at} : cars'[c] = cars[c]
  BY <1>1, <1>2 DEF TypeOK
<1>6. OnRoad(cars')
  BY <1>1, <1>2, <1>3, <1>4, <1>5 DEF OnRoad, TypeOK
<1>7. \A c \in Cars : cars'[c].intention # 0 => cars'[c].lane + cars'[c].intention \in Lanes
  BY <1>2, <1>3, <1>5
<1> QED BY <1>1, <1>6, <1>7, NextCarKeepsInv
-----------------------------------------------------------------------------
(* The theorems *)

LEMMA OpenSetEmptyEnds ==
  ASSUME IInv, OpenSetEmpty PROVE current \in open \union closed /\ Conclude(current)
BY DEF OpenSetEmpty, IInv, SearchInv

LEMMA NextKeepsInv == ASSUME IInv, [Next]_vars PROVE IInv'
<1>1. CASE Update BY <1>1, UpdateKeepsInv
<1>2. CASE SkipSlice BY <1>2, SkipKeepsInv
<1>3. CASE BeginSearch BY <1>3, BeginKeepsInv
<1>4. CASE Expand BY <1>4, ExpandKeepsAll
<1>5. CASE GoalFound
  <2>1. PICK n \in open : phase = "search" /\ Conclude(n)
    BY <1>5 DEF GoalFound
  <2> QED BY <2>1, ConcludeKeepsInv
<1>6. CASE OpenSetEmpty
  <2>1. phase = "search"
    BY <1>6 DEF OpenSetEmpty
  <2> QED BY <1>6, <2>1, OpenSetEmptyEnds, ConcludeKeepsInv
<1>7. CASE Relay BY <1>7, RelayKeepsInv
<1>8. CASE ChangeLane BY <1>8, ChangeLaneKeepsInv
<1>9. CASE DriveFreely
  BY <1>9, DriveKeepsInv, EdgePlanAssumption DEF DriveFreely
<1>10. CASE FollowAhead
  <2>1. PICK d \in Cars : DriveAt(Smaller(cars[at].v, cars[d].v))
    BY <1>10 DEF FollowAhead
  <2>2. phase = "tick" /\ cars[at].intention = 0
    BY <1>10 DEF FollowAhead
  <2>3. at \in Cars /\ \A c \in Cars : cars[c].v \in Nat
    BY <2>2 DEF IInv, TypeOK
  <2>4. Smaller(cars[at].v, cars[d].v) \in Nat
    BY <2>3 DEF Smaller
  <2> QED BY <2>1, <2>2, <2>4, DriveKeepsInv
<1>11. CASE UNCHANGED vars
  <2>1. UNCHANGED <<phase, cars, grid, slice, at, open, closed, current, command>>
    BY <1>11 DEF vars, search
  <2>2. TypeOK'
    BY <2>1 DEF IInv, TypeOK, Members
  <2>3. SearchInv'
    BY <2>1, SameSlice
    DEF IInv, SearchInv, KeysOnce, Second, Third, Fourth, Key, Slices
  <2>4. PlanInv'
    BY <2>1, PlanInvStays DEF IInv, PlanInv
  <2>5. TickInv'
    BY <2>1 DEF IInv, TickInv
  <2> QED BY <2>2, <2>3, <2>4, <2>5 DEF IInv
<1> QED
  BY <1>1, <1>2, <1>3, <1>4, <1>5, <1>6, <1>7, <1>8, <1>9, <1>10, <1>11 DEF Next

(* The inductive invariant of the edge's planning, for any number of cars, *)
(* any traffic and any road with the lanes of the search: where its nodes  *)
(* come from, what the commands are, and that a car is led to lanes that   *)
(* exist.                                                                  *)
THEOREM EdgePlanInductive == Spec => []IInv
<1>1. Init => IInv
  BY Initially
<1>2. IInv /\ [Next]_vars => IInv'
  BY NextKeepsInv
<1> QED BY <1>1, <1>2, PTL DEF Spec

(* No car is led off a road that has the lanes the search knows, which are *)
(* four whatever num_lanes says, and the search stays on it.               *)
THEOREM EdgePlanTypes == Spec => []TypeOK
<1>1. IInv => TypeOK
  BY DEF IInv
<1> QED BY <1>1, EdgePlanInductive, PTL

(* Every path of the search leads back to the start by motions that it     *)
(* tried, although a node is replaced by a cheaper one with the same key.  *)
THEOREM PathsLeadBackHolds == Spec => []PathsLeadBack
<1>1. IInv => PathsLeadBack
  BY LeadsBack
<1> QED BY <1>1, EdgePlanInductive, PTL

(* Commanded lane changes have room within the slice and between the       *)
(* slices, as far as the other slices' cars stay in their lanes.           *)
THEOREM LaneChangesHaveRoomHolds == Spec => []LaneChangesHaveRoom
<1>1. IInv => LaneChangesHaveRoom
  BY DEF IInv, PlanInv, HasRoom, LaneChangesHaveRoom
<1> QED BY <1>1, EdgePlanInductive, PTL

(* Slow pairs are always sent to other lanes, or boxed in. *)
THEOREM SlowPairsChangeLaneHolds == Spec => []SlowPairsChangeLane
<1>1. IInv => SlowPairsChangeLane
  BY DEF IInv, PlanInv, SlowChanges, SlowPairsChangeLane
<1> QED BY <1>1, EdgePlanInductive, PTL

(* The search expands no place twice. *)
THEOREM NoneExpandedTwiceHolds == Spec => NoneExpandedTwice
<1> DEFINE Fresh == phase = "search" /\ phase' = "search" => \A m \in closed : Key(m) # Key(current')
<1>1. ASSUME IInv, [Next]_vars PROVE [Fresh]_vars
  <2>1. CASE Expand
    <3>1. PICK n \in open : current' = n
      BY <2>1 DEF Expand
    <3>2. phase = "search" => KeysOnce
      BY <1>1 DEF IInv, SearchInv
    <3> QED BY <3>1, <3>2 DEF KeysOnce
  <2>2. CASE UNCHANGED vars
    BY <2>2
  <2>3. CASE ~Expand /\ Next
    <3>1. phase # "search" \/ phase' # "search"
      BY <2>3 DEF Next, Update, SkipSlice, BeginSearch, GoalFound, OpenSetEmpty, Conclude,
                  Relay, ChangeLane, DriveFreely, FollowAhead
    <3> QED BY <3>1
  <2> QED BY <1>1, <2>1, <2>2, <2>3
<1> QED BY <1>1, EdgePlanInductive, PTL DEF Spec, NoneExpandedTwice
-----------------------------------------------------------------------------
(* How long a search can last *)

(* Three motions, each slower than MaxSpeed metres in 0.2 s. *)
Furthest == MapLength + 3 * MaxSpeed
Places == [Members(at) -> 0 .. Furthest] \X [Members(at) -> Lanes]

(* The functions between two finite sets are finitely many: each is told   *)
(* by its pairs.                                                           *)
LEMMA FinitelyManyFunctions ==
  ASSUME NEW S, NEW T, IsFiniteSet(S), IsFiniteSet(T)
  PROVE  IsFiniteSet([S -> T])
<1> DEFINE Pairs(f) == {<<s, f[s]>> : s \in S}
           told == [f \in [S -> T] |-> Pairs(f)]
<1>1. IsFiniteSet(SUBSET (S \X T))
  BY FS_Product, FS_SUBSET
<1>2. ASSUME NEW f \in [S -> T], NEW g \in [S -> T], Pairs(f) = Pairs(g)
      PROVE  f = g
  <2>1. ASSUME NEW s \in S PROVE f[s] = g[s]
    <3>1. <<s, f[s]>> \in Pairs(g)
      BY <1>2
    <3> QED BY <3>1
  <2> QED BY <2>1
<1>3. told \in [[S -> T] -> SUBSET (S \X T)]
  <2>1. \A f \in [S -> T] : Pairs(f) \in SUBSET (S \X T)
    OBVIOUS
  <2> HIDE DEF Pairs
  <2> QED BY <2>1
<1>4. told \in Injection([S -> T], SUBSET (S \X T))
  <2> HIDE DEF Pairs
  <2>1. \A f, g \in [S -> T] : told[f] = told[g] => f = g
    BY <1>2
  <2> HIDE DEF told
  <2> QED BY <1>3, <2>1 DEF Injection, IsInjective
<1> HIDE DEF told
<1> QED BY <1>1, <1>4, FS_Injection

LEMMA FinitelyManyPlaces == ASSUME TypeOK PROVE IsFiniteSet(Places)
<1>1. IsFiniteSet(Members(at))
  <2>1. IsFiniteSet(Cars)
    BY EdgePlanAssumption, FS_Interval DEF Cars
  <2>2. Members(at) \in SUBSET Cars
    BY DEF Members
  <2> QED BY <2>1, <2>2, FS_Subset
<1>2. IsFiniteSet(0 .. Furthest) /\ IsFiniteSet(Lanes)
  BY EdgePlanAssumption, FS_Interval DEF Furthest, Lanes
<1>3. IsFiniteSet([Members(at) -> 0 .. Furthest]) /\ IsFiniteSet([Members(at) -> Lanes])
  BY <1>1, <1>2, FinitelyManyFunctions
<1> QED BY <1>3, FS_Product DEF Places

LEMMA StepGoesOn ==
  ASSUME NEW p, NEW n, Node(p), Node(n), Step(p, n), NEW c \in Members(at)
  PROVE  n.x[c] <= p.x[c] + MaxSpeed
<1>1. c \in DOMAIN n.y /\ n.v[c] \in Nat /\ p.x[c] \in Nat
  BY DEF Node
<1>2. n.v[c] \in 0 .. MaxSpeed - 1 /\ n.x[c] = p.x[c] + n.v[c] \div 5
  BY <1>1 DEF Step, VerifyNode, InLimits, IsMotion
<1> QED BY <1>1, <1>2, EdgePlanAssumption

LEMMA PlacesAreInReach ==
  ASSUME TypeOK, SearchInv, phase = "search", NEW n \in closed
  PROVE  Key(n) \in Places
<1>1. \A m \in closed : Node(m)
  BY DEF TypeOK, Node
<1>2. ASSUME NEW c \in Members(at)
      PROVE  n.x[c] \in 0 .. Furthest
  <2>1. Node(Start) /\ Start.x[c] \in 0 .. MapLength - 1
    BY StartFacts, EdgePlanAssumption DEF TypeOK, Members
  <2>2. n.x[c] \in Nat /\ MapLength \in Nat /\ MaxSpeed \in Nat
    BY <1>1, EdgePlanAssumption DEF Node
  <2>3. ASSUME NEW m \in closed, Second(m) PROVE m.x[c] <= MapLength - 1 + MaxSpeed /\ m.x[c] \in Nat
    <3>1. Node(m) /\ m.x[c] \in Nat /\ m.x[c] <= Start.x[c] + MaxSpeed
      BY <1>1, <2>1, <2>3, StepGoesOn DEF Second, Node
    <3> QED BY <2>1, <2>2, <3>1
  <2>4. CASE n = Start
    BY <2>1, <2>2, <2>4 DEF Furthest
  <2>5. CASE Second(n)
    BY <2>2, <2>3, <2>5 DEF Furthest
  <2>6. CASE Third(n)
    <3>1. PICK p \in closed : Second(p) /\ Step(p, n)
      BY <2>6 DEF Third
    <3>2. n.x[c] <= p.x[c] + MaxSpeed
      BY <1>1, <3>1, StepGoesOn
    <3>3. p.x[c] \in Nat /\ p.x[c] <= MapLength - 1 + MaxSpeed
      BY <2>3, <3>1
    <3> QED BY <2>2, <3>2, <3>3 DEF Furthest
  <2> QED BY <2>4, <2>5, <2>6 DEF SearchInv
<1>3. n.x \in [Members(at) -> 0 .. Furthest] /\ n.y \in [Members(at) -> Lanes]
  BY <1>1, <1>2 DEF Node
<1> QED BY <1>3 DEF Key, Places

LEMMA ClosedIsBounded ==
  ASSUME TypeOK, SearchInv, phase = "search"
  PROVE  IsFiniteSet(closed) /\ Cardinality(closed) <= Cardinality(Places)
<1> DEFINE place == [n \in closed |-> Key(n)]
<1>1. place \in [closed -> Places]
  BY PlacesAreInReach
<1>2. \A n, m \in closed : place[n] = place[m] => n = m
  BY DEF SearchInv, KeysOnce
<1>3. place \in Injection(closed, Places)
  <2> HIDE DEF place
  <2> QED BY <1>1, <1>2 DEF Injection, IsInjective
<1> HIDE DEF place
<1> QED BY <1>3, FinitelyManyPlaces, FS_Injection

(* The search ends: there are finitely many places, the set of those that  *)
(* were expanded stays within them (SearchIsBounded) and grows by one with *)
(* every expansion (ExpansionsAddUp). The `while 1' of planning is left *)
(* after at most Cardinality(Places) rounds, whatever the nodes cost.      *)
SearchIsBounded ==
  phase = "search" =>
    /\ IsFiniteSet(Places) /\ IsFiniteSet(closed)
    /\ Cardinality(closed) <= Cardinality(Places)
THEOREM SearchIsBoundedHolds == Spec => []SearchIsBounded
<1>1. IInv => SearchIsBounded
  BY ClosedIsBounded, FinitelyManyPlaces DEF IInv, SearchIsBounded
<1> QED BY <1>1, EdgePlanInductive, PTL

(* While a search goes on, where it may lead stays and a step adds to what *)
(* it has seen.                                                            *)
ExpansionsAddUp ==
  [][phase = "search" /\ phase' = "search" =>
       Places' = Places /\ Cardinality(closed') = Cardinality(closed) + 1]_vars
THEOREM ExpansionsAddUpHolds == Spec => ExpansionsAddUp
<1> DEFINE Adds == phase = "search" /\ phase' = "search" =>
                     Places' = Places /\ Cardinality(closed') = Cardinality(closed) + 1
<1>1. ASSUME IInv, [Next]_vars PROVE [Adds]_vars
  <2>1. CASE Expand
    <3>1. PICK n \in open : closed' = closed \union {n}
      BY <1>1, <2>1, ExpandFacts
    <3>2. phase = "search" /\ UNCHANGED <<slice, at>>
      BY <2>1 DEF Expand
    <3>3. n \notin closed
      BY <1>1, <3>2 DEF IInv, SearchInv, KeysOnce
    <3>4. IsFiniteSet(closed)
      BY <1>1, <3>2, ClosedIsBounded DEF IInv
    <3>5. Cardinality(closed') = Cardinality(closed) + 1
      BY <3>1, <3>3, <3>4, FS_AddElement
    <3>6. Places' = Places
      BY <3>2 DEF Places, Members
    <3> QED BY <3>5, <3>6
  <2>2. CASE UNCHANGED vars
    BY <2>2
  <2>3. CASE ~Expand /\ Next
    <3>1. phase # "search" \/ phase' # "search"
      BY <2>3 DEF Next, Update, SkipSlice, BeginSearch, GoalFound, OpenSetEmpty, Conclude,
                  Relay, ChangeLane, DriveFreely, FollowAhead
    <3> QED BY <3>1
  <2> QED BY <1>1, <2>1, <2>2, <2>3
<1> QED BY <1>1, EdgePlanInductive, PTL DEF Spec, ExpansionsAddUp
=============================================================================
