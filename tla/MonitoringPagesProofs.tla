----------------------- MODULE MonitoringPagesProofs ------------------------
(* Theorems about the pages that show what nodes report: the monitor page, *)
(* its timeline, the live view, the analytics page, its charts and the     *)
(* history of alerts.  For each page the lemmas show that its steps keep   *)
(* its invariant, which is at the end of its module, and the theorems      *)
(* state what that gives.                                                  *)
EXTENDS WebPages, FiniteSetTheorems, SequenceTheorems, WellFoundedInduction,
        TLAPS

-----------------------------------------------------------------------------
(* Numbers.                                                                *)

\* The order of the numbers as a relation.
NumberOrder == OpToRel(<, Nat)

\* Every nonempty set of numbers has a least one.
LEMMA LeastNumber ==
  ASSUME NEW T \in SUBSET Nat, T # {}
  PROVE  \E x \in T : \A y \in T : x <= y
  <1>1. NumberOrder = {p \in Nat \X Nat : p[1] < p[2]}
    BY DEF NumberOrder, OpToRel
  <1>2. IsWellFoundedOn(NumberOrder, Nat)
    BY NatLessThanWellFounded DEF NumberOrder
  <1>3. PICK x \in T : \A y \in T : <<y, x>> \notin NumberOrder
    BY <1>2, WFMin
  <1>4. \A y \in T : y \in Nat /\ ~(y < x)
    <2>1. \A y \in T : <<y, x>> \in NumberOrder <=> y < x
      BY <1>1
    <2> QED BY <1>3, <2>1
  <1> QED BY <1>4

\* Induction over the numbers.
LEMMA Induction ==
  ASSUME NEW T, 0 \in T, \A n \in Nat : n \in T => n + 1 \in T
  PROVE  Nat \subseteq T
  <1> SUFFICES ASSUME Nat \ T # {}
               PROVE  FALSE
    OBVIOUS
  <1>1. PICK x \in Nat \ T : \A y \in Nat \ T : x <= y
    BY LeastNumber
  <1>2. x # 0 /\ x - 1 \in Nat
    BY <1>1
  <1>3. x - 1 \in T
    BY <1>1, <1>2
  <1> QED BY <1>1, <1>2, <1>3

\* Every nonempty set of numbers with a bound has a greatest one.
LEMMA GreatestNumber ==
  ASSUME NEW n \in Nat, NEW T \in SUBSET (0..n), T # {}
  PROVE  \E x \in T : \A y \in T : x >= y
  <1> DEFINE U == {k \in 0..n : n - k \in T}
  <1>1. U \in SUBSET Nat /\ U # {}
    <2>1. PICK t \in T : t \in 0..n
      OBVIOUS
    <2>2. n - t \in 0..n /\ n - (n - t) \in T
      <3>1. n - t \in 0..n /\ n - (n - t) = t
        BY <2>1
      <3> QED BY <3>1
    <2>3. n - t \in U
      BY <2>2
    <2>4. \A k \in U : k \in Nat
      OBVIOUS
    <2> HIDE DEF U
    <2> QED BY <2>3, <2>4
  <1>2. PICK k \in U : \A j \in U : k <= j
    BY <1>1, LeastNumber
  <1>3. ASSUME NEW y \in T
        PROVE  n - k >= y
    <2>1. y \in 0..n /\ n - y \in 0..n /\ n - (n - y) = y
      OBVIOUS
    <2>2. n - y \in U
      <3>1. n - (n - y) \in T
        BY <2>1
      <3> QED BY <2>1, <3>1
    <2>3. k \in 0..n /\ k <= n - y
      BY <1>2, <2>2
    <2> QED BY <2>1, <2>3
  <1> QED BY <1>2, <1>3

LEMMA CountTo ==
  ASSUME NEW n \in Nat
  PROVE  IsFiniteSet(1..n) /\ Cardinality(1..n) = n
  <1>1. 1 \in Int /\ n \in Int
    OBVIOUS
  <1>2. /\ IsFiniteSet(1..n)
        /\ Cardinality(1..n) = IF 1 > n THEN 0 ELSE n - 1 + 1
    BY <1>1, FS_Interval, Zenon
  <1> QED BY <1>2

\* Every number of a finite set has a rank, and every rank is some number's.
LEMMA Ranked ==
  ASSUME NEW S \in SUBSET Nat, IsFiniteSet(S)
  PROVE  /\ Cardinality(S) \in Nat
         /\ \A i \in 1..Cardinality(S) :
              \E t \in S : Cardinality({u \in S : u < t}) = i - 1
         /\ \A t \in S :
              Cardinality({u \in S : u < t}) + 1 \in 1..Cardinality(S)
         /\ \A t, u \in S :
              Cardinality({w \in S : w < t}) = Cardinality({w \in S : w < u})
                => t = u
  <1> DEFINE n == Cardinality(S)
             Below(t) == {u \in S : u < t}
             rank == [t \in S |-> Cardinality(Below(t)) + 1]
  <1>0. \A t \in S : t \in Nat
    OBVIOUS
  <1>1. n \in Nat
    BY FS_CardinalityType
  <1>2. \A t \in S : Cardinality(Below(t)) \in Nat /\ IsFiniteSet(Below(t))
    <2>1. \A t \in S : Below(t) \in SUBSET S
      OBVIOUS
    <2> HIDE DEF Below
    <2> QED BY <2>1, FS_Subset, FS_CardinalityType
  <1>3. ASSUME NEW t \in S
        PROVE  Cardinality(Below(t)) < n
    <2>1. Below(t) \in SUBSET S /\ t \notin Below(t)
      BY <1>0
    <2> HIDE DEF Below
    <2>2. Cardinality(Below(t)) <= n /\ Cardinality(Below(t)) # n
      BY <2>1, FS_Subset
    <2> QED BY <1>1, <1>2, <2>2
  <1>4. ASSUME NEW t \in S, NEW u \in S, t < u
        PROVE  Cardinality(Below(t)) < Cardinality(Below(u))
    <2>1. Below(t) \in SUBSET Below(u)
      <3>1. \A w \in S : w < t => w < u
        BY <1>0, <1>4
      <3> QED BY <3>1
    <2>2. t \in Below(u) /\ t \notin Below(t)
      BY <1>0, <1>4
    <2> HIDE DEF Below
    <2>3. /\ Cardinality(Below(t)) <= Cardinality(Below(u))
          /\ Cardinality(Below(u)) # Cardinality(Below(t))
      BY <1>2, <2>1, <2>2, FS_Subset
    <2> QED BY <1>2, <2>3
  <1>5. \A t \in S : rank[t] = Cardinality(Below(t)) + 1 /\ rank[t] \in 1..n
    BY <1>1, <1>2, <1>3
  <1> HIDE DEF Below
  <1>6. rank \in [S -> 1..n]
    BY <1>5
  <1>7. \A t, u \in S : rank[t] = rank[u] => t = u
    <2>1. \A t, u \in S : t < u => rank[t] < rank[u]
      BY <1>2, <1>4, <1>5
    <2> QED BY <1>0, <1>5, <2>1
  <1> HIDE DEF rank, n
  <1>8. rank \in Surjection(S, 1..n)
    <2>1. rank \in Injection(S, 1..n)
      BY <1>6, <1>7 DEF Injection, IsInjective
    <2>2. Cardinality(S) = Cardinality(1..n) /\ IsFiniteSet(1..n)
      BY <1>1, CountTo DEF n
    <2> QED BY <2>1, <2>2, FS_Injection
  <1>9. \A i \in 1..n : \E t \in S : rank[t] = i
    BY <1>8 DEF Surjection
  <1>10. ASSUME NEW i \in 1..n
         PROVE  \E t \in S : Cardinality(Below(t)) = i - 1
    <2>1. PICK t \in S : rank[t] = i
      BY <1>9
    <2> QED BY <1>1, <1>2, <1>5, <2>1
  <1>11. \A t, u \in S : Cardinality(Below(t)) = Cardinality(Below(u)) => t = u
    BY <1>5, <1>7
  <1>12. \A t \in S : Cardinality(Below(t)) + 1 \in 1..n
    BY <1>5
  <1> QED BY <1>1, <1>10, <1>11, <1>12 DEF n, Below

\* A quotient is the number below a fraction.
LEMMA Quotient ==
  ASSUME NEW a \in Nat, NEW d \in Nat \ {0}
  PROVE  /\ a \div d \in Nat
         /\ (a \div d) * d <= a /\ a < ((a \div d) + 1) * d
  OBVIOUS

\* Products with a positive number are ordered as what is multiplied.
LEMMA Products ==
  ASSUME NEW d \in Nat \ {0}, NEW x \in Int, NEW y \in Int
  PROVE  /\ x * d \in Int /\ y * d \in Int
         /\ x < y <=> x * d < y * d
         /\ x <= y <=> x * d <= y * d
  <1>1. x * d \in Int /\ y * d \in Int
    OBVIOUS
  <1>2. x < y => x * d < y * d
    OBVIOUS
  <1>3. y < x => y * d < x * d
    OBVIOUS
  <1>4. x = y => x * d = y * d
    OBVIOUS
  <1> QED BY <1>1, <1>2, <1>3, <1>4

\* A number is its quotient and its remainder.
LEMMA Division ==
  ASSUME NEW d \in Nat \ {0}, NEW a \in Nat
  PROVE  /\ a \div d \in Nat /\ a % d \in 0..d - 1
         /\ a = (a \div d) * d + (a % d)
  <1>1. a % d \in 0..d - 1
    OBVIOUS
  <1>2. a \div d \in Nat
    OBVIOUS
  <1>3. a = (a \div d) * d + (a % d)
    OBVIOUS
  <1> QED BY <1>1, <1>2, <1>3

\* And of no other quotient and remainder.
LEMMA Composed ==
  ASSUME NEW d \in Nat \ {0}, NEW q \in Nat, NEW r \in 0..d - 1
  PROVE  /\ q * d + r \in Nat
         /\ (q * d + r) \div d = q /\ (q * d + r) % d = r
  <1> DEFINE a == q * d + r
             p == a \div d
             s == a % d
  <1>1. a \in Nat
    <2>1. q * d \in Nat
      OBVIOUS
    <2> QED BY <2>1
  <1>2. p \in Nat /\ s \in 0..d - 1 /\ a = p * d + s
    BY Division, <1>1
  <1>3. p * d + s = q * d + r
    BY <1>2
  <1> HIDE DEF a, p, s
  <1>4. ~(p < q)
    <2>1. p < q => (p + 1) * d <= q * d
      BY <1>2
    <2>2. (p + 1) * d = p * d + d
      BY <1>2
    <2>3. p < q => p * d + d <= q * d
      BY <2>1, <2>2
    <2> DEFINE u == p * d
               v == q * d
    <2>4. u \in Nat /\ v \in Nat
      BY <1>2
    <2> HIDE DEF u, v
    <2>5. u + s = v + r /\ (p < q => u + d <= v)
      BY <1>3, <2>3 DEF u, v
    <2> QED BY <1>2, <2>4, <2>5
  <1>5. ~(q < p)
    <2>1. q < p => (q + 1) * d <= p * d
      BY <1>2
    <2>2. (q + 1) * d = q * d + d
      BY <1>2
    <2> DEFINE u == p * d
               v == q * d
    <2>3. u \in Nat /\ v \in Nat
      BY <1>2
    <2>4. u + s = v + r /\ (q < p => v + d <= u)
      BY <1>3, <2>1, <2>2
    <2> HIDE DEF u, v
    <2> QED BY <1>2, <2>3, <2>4
  <1>6. p = q
    BY <1>2, <1>4, <1>5
  <1>7. s = r
    BY <1>2, <1>3, <1>6
  <1> QED BY <1>1, <1>6, <1>7 DEF a, p, s

\* The next moment is later on the same day or the beginning of the next.
LEMMA NextMoment ==
  ASSUME NEW d \in Nat \ {0}, NEW a \in Nat
  PROVE  \/ /\ (a + 1) \div d = a \div d
            /\ (a + 1) % d = (a % d) + 1
         \/ /\ (a + 1) \div d = a \div d + 1
            /\ (a + 1) % d = 0 /\ a % d = d - 1
  <1> DEFINE q == a \div d
             r == a % d
  <1>1. q \in Nat /\ r \in 0..d - 1 /\ a = q * d + r
    BY Division
  <1> HIDE DEF q, r
  <1>2. CASE r < d - 1
    <2>1. r + 1 \in 0..d - 1 /\ a + 1 = q * d + (r + 1)
      BY <1>1, <1>2
    <2>2. (a + 1) \div d = q /\ (a + 1) % d = r + 1
      BY <1>1, <2>1, Composed
    <2> QED BY <2>2 DEF q, r
  <1>3. CASE r = d - 1
    <2>1. a + 1 = (q + 1) * d + 0 /\ q + 1 \in Nat /\ 0 \in 0..d - 1
      BY <1>1, <1>3
    <2>2. (a + 1) \div d = q + 1 /\ (a + 1) % d = 0
      BY <1>1, <2>1, Composed
    <2> QED BY <1>3, <2>2 DEF q, r
  <1> QED BY <1>1, <1>2, <1>3

\* A set of one element at most is finite.
LEMMA OneAtMost ==
  ASSUME NEW S, \A x, y \in S : x = y
  PROVE  IsFiniteSet(S)
  <1>1. CASE S = {}
    BY <1>1, FS_EmptySet
  <1>2. CASE S # {}
    <2>1. PICK x \in S : S = {x}
      BY <1>2
    <2> QED BY <2>1, FS_Singleton
  <1> QED BY <1>1, <1>2

-----------------------------------------------------------------------------
(* The monitor page.                                                       *)
(* Here s1 is module, s2 lists, s3 listOf, s4 driven, s5 modeOf, s6        *)
(* tilesOf, s7 asks, s8 acts, s9 overlap, s10 moved.                       *)

\* The page loads with nothing on show.
LEMMA MonitorInit ==
  ASSUME Monitor!MonitorAssumption, Monitor!Init
  PROVE  Monitor!Explained
  BY DEF Monitor!Init, Monitor!Explained, Monitor!TypeOK, Monitor!OwnRequests,
         Monitor!ForeignModeExplained, Monitor!ForeignNodeExplained

\* A node that is driven from now on is the one whose mode and tiles are
\* asked for, and an overlap is noted.
LEMMA DriveExplains ==
  ASSUME Monitor!MonitorAssumption, Monitor!Explained, NEW n \in Nodes,
         Monitor!Drive(n)
  PROVE  /\ {s4, s5, s6}' \subseteq Nodes \cup {NoNode}
         /\ s7' \subseteq Monitor!Ask /\ s8' = s8 /\ s9' \in BOOLEAN
         /\ Monitor!OwnRequests' /\ Monitor!ForeignModeExplained'
  <1>1. /\ s4' = n /\ s7' = s7 \cup Monitor!AskBoth(n)
        /\ s9' = (s7 # {} \/ s8 # {})
        /\ UNCHANGED <<s5, s6, s8>>
    BY DEF Monitor!Drive
  <1>2. /\ Monitor!AskBoth(n) \subseteq Monitor!Ask
        /\ [what |-> "mode", node |-> n] \in Monitor!AskBoth(n)
        /\ [what |-> "tiles", node |-> n] \in Monitor!AskBoth(n)
        /\ \A r \in Monitor!AskBoth(n) : r.node = n
    BY DEF Monitor!AskBoth, Monitor!Ask
  <1>3. Monitor!OwnRequests' /\ Monitor!ForeignModeExplained'
    BY <1>1, <1>2 DEF Monitor!OwnRequests, Monitor!ForeignModeExplained
  <1> QED BY <1>1, <1>2, <1>3 DEF Monitor!Explained, Monitor!TypeOK

\* The module is changed, or its nodes arrive, or one of them is picked.
LEMMA MonitorListKeeps ==
  ASSUME Monitor!MonitorAssumption, Monitor!Explained,
         \/ \E m \in Modules \cup {NoModule} : Monitor!PickModule(m)
         \/ \E m \in Modules : Monitor!ListArrives(m) \/ Monitor!ListFails(m)
         \/ \E n \in Nodes : Monitor!PickNode(n)
  PROVE  Monitor!Explained'
  <1>1. ASSUME NEW m \in Modules \cup {NoModule}, Monitor!PickModule(m)
        PROVE  Monitor!Explained'
    BY <1>1
    DEF Monitor!PickModule, Monitor!controller, Monitor!Explained,
        Monitor!TypeOK, Monitor!OwnRequests, Monitor!ForeignModeExplained,
        Monitor!ForeignNodeExplained
  <1>2. ASSUME NEW m \in Modules, Monitor!ListArrives(m)
        PROVE  Monitor!Explained'
    <2>1. CASE s4 = NoNode /\ Monitor!NodesOf(m) # {}
      <3>1. PICK n \in Monitor!NodesOf(m) : Monitor!Drive(n)
        BY <1>2, <2>1 DEF Monitor!ListArrives
      <3>2. n \in Nodes /\ ModuleOf[n] = m /\ s4' = n
        BY <3>1 DEF Monitor!NodesOf, Monitor!Drive
      <3>3. /\ s10' = (m # s1) /\ s1' = s1 /\ s3' = m
            /\ s2' \subseteq Modules
        BY <1>2, <2>1
        DEF Monitor!ListArrives, Monitor!Explained, Monitor!TypeOK
      <3> QED BY <3>1, <3>2, <3>3, DriveExplains
              DEF Monitor!Explained, Monitor!TypeOK,
                  Monitor!ForeignNodeExplained
    <2>2. CASE ~(s4 = NoNode /\ Monitor!NodesOf(m) # {})
      BY <1>2, <2>2
      DEF Monitor!ListArrives, Monitor!controller, Monitor!Explained,
          Monitor!TypeOK, Monitor!OwnRequests, Monitor!ForeignModeExplained,
          Monitor!ForeignNodeExplained
    <2> QED BY <2>1, <2>2
  <1>3. ASSUME NEW m \in Modules, Monitor!ListFails(m)
        PROVE  Monitor!Explained'
    BY <1>3
    DEF Monitor!ListFails, Monitor!controller, Monitor!Explained,
        Monitor!TypeOK, Monitor!OwnRequests, Monitor!ForeignModeExplained,
        Monitor!ForeignNodeExplained
  <1>4. ASSUME NEW n \in Nodes, Monitor!PickNode(n)
        PROVE  Monitor!Explained'
    <2>1. ModuleOf[n] = s3 /\ s4' = n
      BY <1>4 DEF Monitor!PickNode, Monitor!NodesOf, Monitor!Drive
    <2>2. s10' = (s3 # s1) /\ UNCHANGED <<s1, s2, s3>>
      BY <1>4 DEF Monitor!PickNode
    <2> QED BY <1>4, <2>1, <2>2, DriveExplains
            DEF Monitor!PickNode, Monitor!Explained, Monitor!TypeOK,
                Monitor!ForeignNodeExplained
  <1> QED BY <1>1, <1>2, <1>3, <1>4

\* The controller loads, shows and acts for the node that is driven.
LEMMA ControllerKeeps ==
  ASSUME Monitor!MonitorAssumption, Monitor!Explained,
         \/ Monitor!Reload
         \/ \E a \in s7 : Monitor!AskEnds(a)
         \/ \E isTile \in BOOLEAN : Monitor!PressAction(isTile)
         \/ \E a \in s8 : Monitor!ActionEnds(a)
  PROVE  Monitor!Explained'
  <1>1. CASE Monitor!Reload
    <2>1. s4 # NoNode => [what |-> "mode", node |-> s4] \in Monitor!Ask
      BY DEF Monitor!Explained, Monitor!TypeOK, Monitor!Ask
    <2>2. /\ s7 \subseteq s7' /\ s7' \subseteq Monitor!Ask
          /\ \A r \in s7' \ s7 : r.node = s4
      BY <1>1, <2>1 DEF Monitor!Reload, Monitor!Explained, Monitor!TypeOK
    <2>3. s2' \subseteq Modules
      BY <1>1 DEF Monitor!Reload, Monitor!Explained, Monitor!TypeOK
    <2>4. UNCHANGED <<s1, s3, s10, s4, s5, s6, s8,
                      s9>>
      BY <1>1 DEF Monitor!Reload
    <2> QED BY <2>2, <2>3, <2>4
            DEF Monitor!Explained, Monitor!TypeOK, Monitor!OwnRequests,
                Monitor!ForeignModeExplained, Monitor!ForeignNodeExplained
  <1>2. ASSUME NEW a \in s7, Monitor!AskEnds(a)
        PROVE  Monitor!Explained'
    <2>1. /\ s7' \in {s7, s7 \ {a}}
          /\ UNCHANGED <<s4, s8, s9, Monitor!lists_>>
      BY <1>2 DEF Monitor!AskEnds
    <2>2. a \in Monitor!Ask /\ (s9 \/ a.node = s4)
      BY DEF Monitor!Explained, Monitor!TypeOK, Monitor!OwnRequests
    <2>3. {s5, s6}' \subseteq Nodes \cup {NoNode}
      BY <1>2, <2>2
      DEF Monitor!AskEnds, Monitor!Ask, Monitor!Explained, Monitor!TypeOK
    <2>4. Monitor!ForeignModeExplained'
      <3>1. CASE s9
        BY <2>1, <3>1 DEF Monitor!ForeignModeExplained
      <3>2. CASE ~s9 /\ a.what = "mode"
        <4>1. s5' \in {s4, NoNode} /\ s6' = s6
          BY <1>2, <2>2, <3>2 DEF Monitor!AskEnds
        <4>2. a # [what |-> "tiles", node |-> s4]
          BY <3>2
        <4> QED BY <2>1, <4>1, <4>2
                DEF Monitor!Explained, Monitor!ForeignModeExplained
      <3>3. CASE ~s9 /\ a.what # "mode"
        <4>1. s6' \in {s4, NoNode} /\ s5' = s5
          BY <1>2, <2>2, <3>3 DEF Monitor!AskEnds
        <4>2. a # [what |-> "mode", node |-> s4]
          BY <3>3
        <4> QED BY <2>1, <4>1, <4>2
                DEF Monitor!Explained, Monitor!ForeignModeExplained
      <3> QED BY <3>1, <3>2, <3>3
    <2>5. Monitor!OwnRequests'
      BY <2>1 DEF Monitor!Explained, Monitor!OwnRequests
    <2> QED BY <2>1, <2>3, <2>4, <2>5
            DEF Monitor!lists_, Monitor!Explained, Monitor!TypeOK,
                Monitor!ForeignNodeExplained
  <1>3. ASSUME NEW isTile \in BOOLEAN, Monitor!PressAction(isTile)
        PROVE  Monitor!Explained'
    BY <1>3
    DEF Monitor!PressAction, Monitor!lists_, Monitor!Explained,
        Monitor!TypeOK, Monitor!OwnRequests, Monitor!ForeignModeExplained,
        Monitor!ForeignNodeExplained
  <1>4. ASSUME NEW a \in s8, Monitor!ActionEnds(a)
        PROVE  Monitor!Explained'
    <2>1. /\ s8' \subseteq s8
          /\ UNCHANGED <<s4, s5, s6, s9, Monitor!lists_>>
      BY <1>4 DEF Monitor!ActionEnds
    <2>2. Monitor!AskBoth(a.node) \subseteq Monitor!Ask
          /\ \A q \in Monitor!AskBoth(a.node) : q.node = a.node
      BY DEF Monitor!Explained, Monitor!TypeOK, Monitor!AskBoth, Monitor!Ask
    <2>3. /\ s7 \subseteq s7' /\ s7' \subseteq Monitor!Ask
          /\ \A r \in s7' \ s7 : r.node = a.node
      BY <1>4, <2>2 DEF Monitor!ActionEnds, Monitor!Explained, Monitor!TypeOK
    <2> QED BY <2>1, <2>3
            DEF Monitor!lists_, Monitor!Explained, Monitor!TypeOK,
                Monitor!OwnRequests, Monitor!ForeignModeExplained,
                Monitor!ForeignNodeExplained
  <1> QED BY <1>1, <1>2, <1>3, <1>4

\* Every step of the page keeps the invariant.
LEMMA MonitorStep ==
  ASSUME Monitor!MonitorAssumption, Monitor!Explained,
         [Monitor!Next]_(Monitor!monitorVars)
  PROVE  Monitor!Explained'
  <1>1. CASE UNCHANGED Monitor!monitorVars
    BY <1>1
    DEF Monitor!monitorVars, Monitor!lists_, Monitor!controller,
        Monitor!Explained, Monitor!TypeOK, Monitor!OwnRequests,
        Monitor!ForeignModeExplained, Monitor!ForeignNodeExplained
  <1>2. CASE Monitor!Next
    BY <1>2, MonitorListKeeps, ControllerKeeps DEF Monitor!Next
  <1> QED BY <1>1, <1>2

\* The invariant of the monitor page holds in every behaviour.
THEOREM MonitorInvariant ==
  PagesSpec => [](view = "monitor" => Monitor!Explained)
  <1> DEFINE Inv == view = "monitor" => Monitor!Explained
  <1>0. PagesInit => Inv
    BY MonitorInit, PagesAssumption DEF PagesInit, PagesAssumption
  <1>1. ASSUME Inv, [PagesNext]_pagesVars
        PROVE  Inv'
    <2>1. view' = view
      BY <1>1 DEF PagesNext, pagesVars
    <2>2. view = "monitor" => [Monitor!Next]_(Monitor!monitorVars)
      BY <1>1
      DEF PagesNext, Step, pagesVars, shared, analytics, Monitor!monitorVars,
          Monitor!lists_, Monitor!controller
    <2> QED BY <1>1, <2>1, <2>2, MonitorStep, PagesAssumption
            DEF PagesAssumption
  <1> QED BY <1>0, <1>1, PTL DEF PagesSpec

\* For any nodes and modules: the mode and the tiles are those of the node
\* that the buttons drive, or its own are being loaded, or the node was
\* changed while requests of another were in flight; and the node is of the
\* selected module, unless the module was changed after it had been chosen or
\* the list was late (Monitor.jsx, loadMode, loadActuators, doAction).
THEOREM MonitorTells == PagesSpec => []ForeignNodeExplained
  <1>1. (view = "monitor" => Monitor!Explained) => ForeignNodeExplained
    BY DEF Monitor!Explained, ForeignNodeExplained
  <1> QED BY <1>1, MonitorInvariant, PTL

-----------------------------------------------------------------------------
(* The live view.                                                          *)
(* Here s1 is card, s2 loading, s3 form, s4 deleting, s5 busy, s6 loads,   *)
(* s7 command, s8 save, s9 stream, s10 unsure.                             *)

\* The page opens without a card; it knows nothing of the stream.
LEMMA LiveInit ==
  ASSUME Live!Init
  PROVE  Live!LiveInv
  BY DEF Live!Init, Live!LiveInv, Live!TypeOK, Live!FreshLists, Live!OneSave,
         Live!CardWillBeTrue, Live!Quiet, Live!NoCommand, Live!NoSave,
         Live!LoadType, Live!CommandType, Live!SaveType, Live!States

\* One load changes its state or what it has got.
LEMMA LoadMoves ==
  ASSUME s6 \in [Chains -> Live!LoadType], Live!FreshLists, Live!OneSave,
         NEW k \in Chains, NEW r \in Live!LoadType, s6' = [s6 EXCEPT ![k] = r],
         r.last => s6[k].last,
         (r.at = "read" /\ ~r.stale) => r.got = s9,
         UNCHANGED <<s9, s8>>, s5' = (s5 /\ (s6[k].last => r.last))
  PROVE  s6' \in [Chains -> Live!LoadType] /\ Live!FreshLists' /\ Live!OneSave'
  <1>1. /\ s6' \in [Chains -> Live!LoadType] /\ s6'[k] = r
        /\ \A j \in Chains \ {k} : s6'[j] = s6[j]
    OBVIOUS
  <1>2. Live!FreshLists'
    BY <1>1 DEF Live!FreshLists
  <1>3. Live!OneSave'
    BY <1>1 DEF Live!OneSave, Live!LoadType
  <1> QED BY <1>1, <1>2, <1>3

\* A new load; that of a save is the only one of its kind.
LEMMA LiveLoadStarts ==
  ASSUME s6 \in [Chains -> Live!LoadType], Live!FreshLists,
         NEW last \in BOOLEAN,
         Live!StartLoad(last), UNCHANGED <<s9, s5>>,
         s7 \in Live!CommandType,
         \/ ~last /\ Live!OneSave /\ s8' = s8
         \/ last /\ Live!OneSave /\ s8.at # "idle" /\ s8' = Live!NoSave
  PROVE  /\ s6' \in [Chains -> Live!LoadType]
         /\ Live!FreshLists'
         /\ Live!OneSave'
         /\ s2' /\ s2' \in BOOLEAN /\ s7' \in Live!CommandType
  <1>1. PICK k \in Chains : /\ s6[k] = Live!Quiet
                            /\ s6' = [s6 EXCEPT ![k] =
                                 [Live!Quiet EXCEPT !.at = "sent",
                                                    !.last = last]]
    BY DEF Live!StartLoad
  <1> DEFINE r == [Live!Quiet EXCEPT !.at = "sent", !.last = last]
  <1>2. r \in Live!LoadType /\ r.at = "sent" /\ r.last = last
    BY DEF Live!Quiet, Live!LoadType, Live!States
  <1> HIDE DEF r
  <1>3. /\ s6' \in [Chains -> Live!LoadType] /\ s6'[k] = r
        /\ \A j \in Chains \ {k} : s6'[j] = s6[j]
    BY <1>1, <1>2 DEF r
  <1>4. Live!FreshLists'
    BY <1>2, <1>3 DEF Live!FreshLists
  <1>5. Live!OneSave'
    BY <1>1, <1>2, <1>3 DEF Live!OneSave, Live!Quiet, Live!NoSave
  <1>6. s7' = [s7 EXCEPT !.mounted = FALSE]
    BY DEF Live!StartLoad
  <1> QED BY <1>3, <1>4, <1>5, <1>6 DEF Live!StartLoad, Live!CommandType

\* The stream changes, and lists read before are stale.
LEMMA StreamMoves ==
  ASSUME Live!TypeOK, Live!FreshLists, NEW s \in Live!States, Live!Becomes(s)
  PROVE  /\ s9' \in Live!States /\ s9' = s
         /\ s6' \in [Chains -> Live!LoadType] /\ Live!FreshLists'
         /\ \A k \in Chains : s6'[k].last = s6[k].last
  <1>1. CASE s = s9
    BY <1>1 DEF Live!Becomes, Live!TypeOK, Live!FreshLists
  <1>2. CASE s # s9
    <2>1. s6' = [k \in Chains |-> [s6[k] EXCEPT
                   !.stale = s6[k].stale \/ s6[k].at = "read"]]
      BY <1>2 DEF Live!Becomes
    <2>2. ASSUME NEW k \in Chains
          PROVE  /\ s6'[k] \in Live!LoadType /\ s6'[k].last = s6[k].last
                 /\ s6'[k].at = s6[k].at
                 /\ s6'[k].at = "read" => s6'[k].stale
      <3>1. s6[k] \in Live!LoadType
        BY DEF Live!TypeOK
      <3>2. s6'[k] = [s6[k] EXCEPT
                           !.stale = s6[k].stale \/ s6[k].at = "read"]
        BY <2>1
      <3>3. (s6[k].stale \/ s6[k].at = "read") \in BOOLEAN
        OBVIOUS
      <3>4. s6'[k].stale = (s6[k].stale \/ s6[k].at = "read")
        BY <3>1, <3>2 DEF Live!LoadType
      <3> QED BY <3>1, <3>2, <3>3, <3>4 DEF Live!LoadType
    <2>3. s6' \in [Chains -> Live!LoadType]
      BY <2>1, <2>2
    <2> QED BY <2>2, <2>3 DEF Live!Becomes, Live!FreshLists
  <1> QED BY <1>1, <1>2

\* Loads, and the end of one.
LEMMA LiveLoadsKeep ==
  ASSUME Live!LiveInv,
         \/ Live!Load
         \/ \E k \in Chains : \/ Live!ListRead(k)
                             \/ Live!ListArrives(k)
                             \/ Live!ListFails(k)
  PROVE  Live!LiveInv'
  <1>0. /\ s6 \in [Chains -> Live!LoadType] /\ Live!FreshLists /\ Live!OneSave
        /\ s7 \in Live!CommandType /\ s9 \in Live!States
    BY DEF Live!LiveInv, Live!TypeOK
  <1>1. CASE Live!Load
    <2>1. Live!StartLoad(FALSE) /\ UNCHANGED <<s1, Live!dialog, s8, s9, s10>>
      BY <1>1 DEF Live!Load
    <2>2. /\ s6' \in [Chains -> Live!LoadType]
          /\ Live!FreshLists'
          /\ Live!OneSave'
          /\ s2' /\ s2' \in BOOLEAN /\ s7' \in Live!CommandType
      BY <1>0, <2>1, LiveLoadStarts DEF Live!dialog
    <2> QED BY <2>1, <2>2
            DEF Live!LiveInv, Live!TypeOK, Live!CardWillBeTrue, Live!dialog
  <1>2. ASSUME NEW k \in Chains, Live!ListRead(k)
        PROVE  Live!LiveInv'
    <2>1. s6[k] \in Live!LoadType /\ ~(s6[k].stale /\ s6[k].at = "read")
      BY <1>0, <1>2 DEF Live!ListRead
    <2> DEFINE r == [s6[k] EXCEPT !.at = "read", !.got = s9]
    <2>2. s6' = [s6 EXCEPT ![k] = r]
      BY <1>0, <1>2 DEF Live!ListRead
    <2>3. r \in Live!LoadType /\ r.last = s6[k].last /\ r.got = s9
      BY <1>0, <2>1 DEF Live!LoadType
    <2> HIDE DEF r
    <2>4. UNCHANGED <<s1, s2, Live!dialog, s7, s8, s9, s10>>
      BY <1>2 DEF Live!ListRead
    <2>5. s5' = (s5 /\ (s6[k].last => r.last))
      BY <2>3, <2>4 DEF Live!dialog, Live!LiveInv, Live!TypeOK
    <2>6. s6' \in [Chains -> Live!LoadType] /\ Live!FreshLists' /\ Live!OneSave'
      BY <1>0, <2>2, <2>3, <2>4, <2>5, LoadMoves
    <2> QED BY <2>4, <2>6
            DEF Live!LiveInv, Live!TypeOK, Live!CardWillBeTrue, Live!Obeyed,
                Live!dialog
  <1>3. ASSUME NEW k \in Chains, Live!LoadEnds(k)
        PROVE  /\ s6' \in [Chains -> Live!LoadType]
               /\ Live!FreshLists'
               /\ Live!OneSave'
               /\ s2' = FALSE /\ s5' \in BOOLEAN
               /\ s7' \in Live!CommandType /\ ~Live!Obeyed'
               /\ UNCHANGED <<s3, s4, s8, s9>>
    <2>1. /\ s6' = [s6 EXCEPT ![k] = Live!Quiet] /\ s2' = FALSE
          /\ s5' = (s5 /\ ~s6[k].last)
          /\ s7' = [s7 EXCEPT !.mounted = FALSE]
          /\ UNCHANGED <<s3, s4, s8, s9>>
      BY <1>3 DEF Live!LoadEnds
    <2>2. /\ Live!Quiet \in Live!LoadType
          /\ ~Live!Quiet.last
          /\ Live!Quiet.at = "idle"
      BY DEF Live!Quiet, Live!LoadType, Live!States
    <2>3. s5' = (s5 /\ (s6[k].last => Live!Quiet.last))
      BY <2>1, <2>2
    <2>4. s6' \in [Chains -> Live!LoadType] /\ Live!FreshLists' /\ Live!OneSave'
      BY <1>0, <2>1, <2>2, <2>3, LoadMoves
    <2>5. s7' \in Live!CommandType /\ ~s7'.mounted
      BY <1>0, <2>1 DEF Live!CommandType
    <2> QED BY <2>1, <2>4, <2>5 DEF Live!Obeyed, Live!LiveInv, Live!TypeOK
  <1>4. ASSUME NEW k \in Chains, Live!ListArrives(k)
        PROVE  Live!LiveInv'
    <2>1. s6[k] \in Live!LoadType /\ (~s6[k].stale => s6[k].got = s9)
      BY <1>0, <1>4 DEF Live!ListArrives, Live!FreshLists
    <2>2. s1' \in Live!States /\ s10' \in BOOLEAN
          /\ (~s10' => s1' = s9)
      BY <1>4, <2>1 DEF Live!ListArrives, Live!LoadType
    <2> QED BY <1>3, <1>4, <2>2
            DEF Live!ListArrives, Live!LiveInv, Live!TypeOK,
                Live!CardWillBeTrue
  <1>5. ASSUME NEW k \in Chains, Live!ListFails(k)
        PROVE  Live!LiveInv'
    BY <1>3, <1>5
    DEF Live!ListFails, Live!LiveInv, Live!TypeOK, Live!CardWillBeTrue,
        Live!States
  <1> QED BY <1>1, <1>2, <1>4, <1>5

\* What the card asks for, and how it ends.
LEMMA LiveCommandKeeps ==
  ASSUME Live!LiveInv,
         \/ \E op \in {"capture", "start", "stop"} : Live!PressCard(op)
         \/ Live!CommandHandled \/ Live!CommandOk \/ Live!CommandFails
  PROVE  Live!LiveInv'
  <1>0. s7 \in Live!CommandType /\ s9 \in Live!States /\ s1 \in Live!States
    BY DEF Live!LiveInv, Live!TypeOK
  <1>1. ASSUME NEW op \in {"capture", "start", "stop"}, Live!PressCard(op)
        PROVE  Live!LiveInv'
    <2>1. /\ s7' = [at |-> "sent", op |-> op, mounted |-> TRUE]
          /\ s7.at = "idle"
          /\ UNCHANGED <<s1, s2, Live!dialog, s6, s8, s9, s10>>
      BY <1>1 DEF Live!PressCard
    <2>2. s7' \in Live!CommandType /\ s7'.at = "sent"
      BY <2>1 DEF Live!CommandType
    <2> QED BY <2>1, <2>2
            DEF Live!LiveInv, Live!TypeOK, Live!FreshLists, Live!OneSave,
                Live!CardWillBeTrue, Live!Obeyed, Live!dialog
  <1>2. CASE Live!CommandHandled
    <2>1. s7.at = "sent" /\ UNCHANGED <<s1, s2, Live!dialog, s8>>
      BY <1>2 DEF Live!CommandHandled
    <2>2. CASE /\ s7.op = "capture" \/ Live!After(s7.op) # s9
               /\ s7' = [s7 EXCEPT !.at = "done"]
               /\ Live!Becomes(Live!After(s7.op))
               /\ s10' = (s10 \/ (s9' # s9 /\ ~s7.mounted))
      <3>1. Live!After(s7.op) \in Live!States
        BY <1>0 DEF Live!After, Live!States
      <3>2. /\ s9' \in Live!States /\ s9' = Live!After(s7.op)
            /\ s6' \in [Chains -> Live!LoadType] /\ Live!FreshLists'
            /\ \A k \in Chains : s6'[k].last = s6[k].last
        BY <2>2, <3>1, StreamMoves DEF Live!LiveInv
      <3>3. Live!OneSave'
        BY <2>1, <3>2 DEF Live!LiveInv, Live!OneSave, Live!dialog
      <3>4. /\ s7' \in Live!CommandType /\ s7'.at = "done"
            /\ s7'.op = s7.op /\ s7'.mounted = s7.mounted
        BY <1>0, <2>2 DEF Live!CommandType
      <3>5. Live!CardWillBeTrue'
        <4>1. SUFFICES ASSUME ~s2, s8.at # "done", ~s10'
                       PROVE  IF Live!Obeyed'
                              THEN s9' = IF s7.op = "start"
                                         THEN "recording" ELSE "idle"
                              ELSE s1 = s9'
          BY <2>1, <3>4 DEF Live!CardWillBeTrue
        <4>2. s1 = s9
          BY <2>1, <2>2, <4>1
          DEF Live!LiveInv, Live!CardWillBeTrue, Live!Obeyed
        <4>3. CASE Live!Obeyed'
          BY <1>0, <2>2, <3>2, <3>4, <4>3
          DEF Live!Obeyed, Live!After, Live!CommandType
        <4>4. CASE ~Live!Obeyed'
          <5>1. s9' = s9
            BY <2>2, <3>2, <3>4, <4>1, <4>4 DEF Live!Obeyed, Live!After
          <5> QED BY <4>2, <4>4, <5>1
        <4> QED BY <4>3, <4>4
      <3>6. s10' \in BOOLEAN
        BY <2>2 DEF Live!LiveInv, Live!TypeOK
      <3> QED BY <2>1, <3>2, <3>3, <3>4, <3>5, <3>6
              DEF Live!LiveInv, Live!TypeOK, Live!dialog
    <2>3. CASE /\ s7' = [s7 EXCEPT !.at = "refused"]
               /\ UNCHANGED <<s9, s6, s10>>
      <3>1. s7' \in Live!CommandType /\ s7'.at = "refused"
        BY <1>0, <2>3 DEF Live!CommandType
      <3> QED BY <2>1, <2>3, <3>1
              DEF Live!LiveInv, Live!TypeOK, Live!FreshLists, Live!OneSave,
                  Live!CardWillBeTrue, Live!Obeyed, Live!dialog
    <2> QED BY <1>2, <2>2, <2>3 DEF Live!CommandHandled
  <1>3. Live!NoCommand \in Live!CommandType /\ Live!NoCommand.at = "idle"
    BY DEF Live!NoCommand, Live!CommandType
  <1>4. CASE Live!CommandOk
    <2>1. /\ s7.at = "done" /\ s7' = Live!NoCommand
          /\ s1' = IF ~s7.mounted \/ s7.op = "capture" THEN s1
                   ELSE IF s7.op = "start" THEN "recording" ELSE "idle"
          /\ UNCHANGED <<s2, Live!dialog, s6, s8, s9, s10>>
      BY <1>4 DEF Live!CommandOk
    <2>2. s1' \in Live!States
      BY <1>0, <2>1 DEF Live!States
    <2> QED BY <1>3, <2>1, <2>2
            DEF Live!LiveInv, Live!TypeOK, Live!FreshLists, Live!OneSave,
                Live!CardWillBeTrue, Live!Obeyed, Live!dialog
  <1>5. CASE Live!CommandFails
    <2>1. /\ s7' = Live!NoCommand /\ s1' \in {s1, "idle"}
          /\ UNCHANGED <<s2, Live!dialog, s6, s8, s9>>
          /\ s10' \in BOOLEAN
          /\ \/ s10'
             \/ s10' = s10 /\ s7.op = "capture" /\ s1' = s1
      BY <1>5 DEF Live!CommandFails, Live!LiveInv, Live!TypeOK
    <2>2. s1' \in Live!States
      BY <1>0, <2>1 DEF Live!States
    <2> QED BY <1>3, <2>1, <2>2
            DEF Live!LiveInv, Live!TypeOK, Live!FreshLists, Live!OneSave,
                Live!CardWillBeTrue, Live!Obeyed, Live!dialog
  <1> QED BY <1>1, <1>2, <1>4, <1>5

\* The form, the question and their saves; and what others do.
LEMMA SaveKeeps ==
  ASSUME Live!LiveInv,
         \/ \E f \in {"create", "edit"} : Live!OpenForm(f)
         \/ Live!OpenDelete \/ Live!CloseDialog \/ Live!Submit
         \/ Live!SaveHandled
         \/ Live!SaveOk
         \/ Live!SaveFails
         \/ Live!StreamChanges
  PROVE  Live!LiveInv'
  <1>0. s8 \in Live!SaveType /\ s9 \in Live!States
    BY DEF Live!LiveInv, Live!TypeOK
  <1>1. CASE (\E f \in {"create", "edit"} : Live!OpenForm(f)) \/ Live!OpenDelete
               \/ Live!CloseDialog
    BY <1>1
    DEF Live!OpenForm, Live!OpenDelete, Live!CloseDialog, Live!LiveInv,
        Live!TypeOK, Live!FreshLists, Live!OneSave, Live!CardWillBeTrue,
        Live!Obeyed
  <1>2. CASE Live!Submit
    <2>1. /\ ~s5 /\ s5' = TRUE
          /\ UNCHANGED <<s1, s2, s3, s4, s6, s7, s9,
                         s10>>
      BY <1>2 DEF Live!Submit
    <2>2. s8' \in Live!SaveType /\ s8'.at = "sent"
      BY <1>2 DEF Live!Submit, Live!LiveInv, Live!TypeOK, Live!SaveType
    <2>3. s8.at = "idle" /\ \A k \in Chains : ~s6[k].last
      BY <2>1 DEF Live!LiveInv, Live!OneSave
    <2> QED BY <2>1, <2>2, <2>3
            DEF Live!LiveInv, Live!TypeOK, Live!FreshLists, Live!OneSave,
                Live!CardWillBeTrue, Live!Obeyed
  <1>3. CASE Live!SaveHandled
    <2>1. /\ s8.at = "sent" /\ s8' = [s8 EXCEPT !.at = "done"]
          /\ Live!Becomes(Live!Saved(s8.op))
          /\ UNCHANGED <<s1, s2, Live!dialog, s7, s10>>
      BY <1>3 DEF Live!SaveHandled
    <2>2. s8' \in Live!SaveType /\ s8'.at = "done"
      BY <1>0, <2>1 DEF Live!SaveType
    <2>3. Live!Saved(s8.op) \in Live!States
      BY <1>0 DEF Live!Saved, Live!States
    <2>4. /\ s9' \in Live!States /\ s6' \in [Chains -> Live!LoadType]
          /\ Live!FreshLists' /\ \A k \in Chains : s6'[k].last = s6[k].last
      BY <2>1, <2>3, StreamMoves DEF Live!LiveInv
    <2> QED BY <2>1, <2>2, <2>4
            DEF Live!LiveInv, Live!TypeOK, Live!OneSave, Live!CardWillBeTrue,
                Live!dialog
  <1>4. Live!NoSave \in Live!SaveType /\ Live!NoSave.at = "idle"
    BY DEF Live!NoSave, Live!SaveType
  <1>5. CASE Live!SaveOk
    <2>1. /\ s8.at = "done" /\ s8' = Live!NoSave /\ Live!StartLoad(TRUE)
          /\ s3' \in {s3, "none"} /\ s4' \in {s4, FALSE}
          /\ UNCHANGED <<s1, s5, s9, s10>>
      BY <1>5 DEF Live!SaveOk
    <2>2. /\ s6' \in [Chains -> Live!LoadType]
          /\ Live!FreshLists'
          /\ Live!OneSave'
          /\ s2' /\ s2' \in BOOLEAN /\ s7' \in Live!CommandType
      BY <2>1, LiveLoadStarts DEF Live!LiveInv, Live!TypeOK
    <2> QED BY <1>4, <2>1, <2>2
            DEF Live!LiveInv, Live!TypeOK, Live!CardWillBeTrue
  <1>6. CASE Live!SaveFails
    BY <1>4, <1>6
    DEF Live!SaveFails, Live!LiveInv, Live!TypeOK, Live!FreshLists,
        Live!OneSave, Live!CardWillBeTrue
  <1>7. CASE Live!StreamChanges
    <2>1. PICK s \in Live!States : Live!Becomes(s)
      BY <1>7 DEF Live!StreamChanges
    <2>2. s10' = TRUE /\ UNCHANGED <<s1, s2, Live!dialog, s7, s8>>
      BY <1>7 DEF Live!StreamChanges
    <2>3. /\ s9' \in Live!States /\ s6' \in [Chains -> Live!LoadType]
          /\ Live!FreshLists' /\ \A k \in Chains : s6'[k].last = s6[k].last
      BY <2>1, StreamMoves DEF Live!LiveInv
    <2> QED BY <2>2, <2>3
            DEF Live!LiveInv, Live!TypeOK, Live!OneSave, Live!CardWillBeTrue,
                Live!dialog
  <1> QED BY <1>1, <1>2, <1>3, <1>5, <1>6, <1>7

\* Every step keeps the invariant.
LEMMA LiveStep ==
  ASSUME Live!LiveInv, [Live!Next]_(Live!liveVars)
  PROVE  Live!LiveInv'
  <1>1. CASE UNCHANGED Live!liveVars
    BY <1>1
    DEF Live!liveVars, Live!dialog, Live!LiveInv, Live!TypeOK,
        Live!FreshLists, Live!OneSave, Live!CardWillBeTrue, Live!Obeyed
  <1>2. CASE Live!Next
    BY <1>2, LiveLoadsKeep, LiveCommandKeeps, SaveKeeps DEF Live!Next
  <1> QED BY <1>1, <1>2

\* The invariant has the property.
LEMMA LiveFacts ==
  ASSUME Live!LiveInv
  PROVE  Live!TypeOK /\ Live!CardIsTrue
  BY DEF Live!LiveInv, Live!CardWillBeTrue, Live!Obeyed, Live!CardIsTrue

\* The invariant of the live view holds in every behaviour.
THEOREM LiveInvariant == PagesSpec => [](view = "live" => Live!LiveInv)
  <1> DEFINE Inv == view = "live" => Live!LiveInv
  <1>0. PagesInit => Inv
    BY LiveInit DEF PagesInit
  <1>1. ASSUME Inv, [PagesNext]_pagesVars
        PROVE  Inv'
    <2>1. view' = view
      BY <1>1 DEF PagesNext, pagesVars
    <2>2. view = "live" => [Live!Next]_(Live!liveVars)
      BY <1>1
      DEF PagesNext, Step, pagesVars, shared, analytics, Live!liveVars,
          Live!dialog
    <2> QED BY <1>1, <2>1, <2>2, LiveStep
  <1> QED BY <1>0, <1>1, PTL DEF PagesSpec

\* For any number of loads side by side: once the page is quiet a card tells
\* the truth about its stream, unless the list was read before the last
\* change, an answer was lost or refused, or someone else made the change
\* (LiveView.jsx, handleRecord, load).
THEOREM CardsTellTheTruth == PagesSpec => []CardIsTrue
  <1>1. (view = "live" => Live!LiveInv) => CardIsTrue
    BY LiveFacts DEF CardIsTrue
  <1> QED BY <1>1, LiveInvariant, PTL

-----------------------------------------------------------------------------
(* The analytics page.                                                     *)
(* Here s1 is module, s2 listLoads, s3 nodes, analysed nodeId, s4          *)
(* tagLoads, tagsOf tagsOf, s5 series, s6 seriesLoads, s7 loading, s8      *)
(* late.                                                                   *)

\* The page opens without a selection.
LEMMA SelectedInit ==
  ASSUME Analytics!Init
  PROVE  Analytics!Selected
  BY DEF Analytics!Init, Analytics!Selected, Analytics!TagLoads,
         Analytics!SeriesLoads, Analytics!NoSeries

\* Loads that are passed stay loads, and nothing is expected of them.
LEMMA PassedLoads ==
  ASSUME NEW loads \in Seq(Analytics!Load)
  PROVE  /\ Analytics!Passed(loads) \in Seq(Analytics!Load)
         /\ Len(Analytics!Passed(loads)) = Len(loads)
         /\ \A i \in 1..Len(loads) : Analytics!Passed(loads)[i].passed
  <1>1. \A i \in 1..Len(loads) : loads[i] \in Analytics!Load
    OBVIOUS
  <1>2. DOMAIN loads = 1..Len(loads) /\ Len(loads) \in Nat
    OBVIOUS
  <1>3. \A l \in Analytics!Load :
          /\ [l EXCEPT !.passed = TRUE] \in Analytics!Load
          /\ [l EXCEPT !.passed = TRUE].passed
    BY DEF Analytics!Load
  <1>4. Analytics!Passed(loads) = [i \in 1..Len(loads) |->
                                     [loads[i] EXCEPT !.passed = TRUE]]
    BY <1>2 DEF Analytics!Passed
  <1>5. Analytics!Passed(loads) \in [1..Len(loads) -> Analytics!Load]
    BY <1>1, <1>3, <1>4
  <1>6. /\ Analytics!Passed(loads) \in Seq(Analytics!Load)
        /\ Len(Analytics!Passed(loads)) = Len(loads)
    BY <1>2, <1>5, SeqDef, LenProperties
  <1>7. \A i \in 1..Len(loads) : Analytics!Passed(loads)[i].passed
    BY <1>1, <1>3, <1>4
  <1> QED BY <1>6, <1>7

\* Another node: nothing is shown, every load is passed.
LEMMA ChangeKeeps ==
  ASSUME Analytics!AnalyticsAssumption, Analytics!Selected,
         NEW n \in Nodes \cup {NoNode},
         s3' \subseteq Nodes, Analytics!ChangeNode(n)
  PROVE  Analytics!Selected'
  <1>1. analysed' = n /\ tagsOf' = NoNode /\ s5' = Analytics!NoSeries
    BY DEF Analytics!ChangeNode
  <1>2. Analytics!TagLoads'
    <2>1. \A r \in s4 : /\ [r EXCEPT !.active = FALSE]
                                   \in [node : Nodes, active : BOOLEAN]
                        /\ ~[r EXCEPT !.active = FALSE].active
      BY DEF Analytics!Selected, Analytics!TagLoads
    <2>2. n # NoNode => [node |-> n, active |-> TRUE]
                          \in [node : Nodes, active : BOOLEAN]
      OBVIOUS
    <2>3. s4' = {[r EXCEPT !.active = FALSE] : r \in s4}
                        \cup (IF n = NoNode THEN {}
                              ELSE {[node |-> n, active |-> TRUE]})
      BY DEF Analytics!ChangeNode
    <2>4. ASSUME NEW r \in s4'
          PROVE  r \in [node : Nodes, active : BOOLEAN]
                 /\ (r.active => r.node = n)
      <3>1. CASE \E q \in s4 : r = [q EXCEPT !.active = FALSE]
        BY <2>1, <3>1
      <3>2. CASE n # NoNode /\ r = [node |-> n, active |-> TRUE]
        BY <2>2, <3>2
      <3> QED BY <2>3, <2>4, <3>1, <3>2
    <2> QED BY <1>1, <2>4 DEF Analytics!TagLoads
  <1>3. PICK loads \in Seq(Analytics!Load) : s6' = Analytics!Passed(loads)
    <2>1. s6 \in Seq(Analytics!Load)
      BY DEF Analytics!Selected, Analytics!SeriesLoads
    <2> DEFINE l == [of |-> [node |-> n, tags |-> tagsOf], passed |-> TRUE]
    <2>2. l \in Analytics!Load
      BY DEF Analytics!Load, Analytics!Series, Analytics!Selected,
             Analytics!TagLoads
    <2>3. s6' = Analytics!Passed(s6)
          \/ s6' = Analytics!Passed(Append(s6, l))
      BY DEF Analytics!ChangeNode
    <2> HIDE DEF l
    <2>4. Append(s6, l) \in Seq(Analytics!Load)
      BY <2>1, <2>2
    <2> QED BY <2>1, <2>3, <2>4
  <1>4. Analytics!SeriesLoads'
    BY <1>1, <1>3, PassedLoads DEF Analytics!SeriesLoads, Analytics!Current
  <1> QED BY <1>1, <1>2, <1>4 DEF Analytics!Selected

\* Nothing is shown and every load is passed: the same node stays selected.
LEMMA ClearKeeps ==
  ASSUME Analytics!Selected, s3' \subseteq Nodes, Analytics!Clear,
         UNCHANGED <<analysed, s4, tagsOf>>
  PROVE  Analytics!Selected'
  <1>1. Analytics!SeriesLoads'
    BY PassedLoads
    DEF Analytics!Clear, Analytics!Selected, Analytics!SeriesLoads,
        Analytics!Current
  <1> QED BY <1>1 DEF Analytics!Selected, Analytics!TagLoads

\* One more load, of the selected node and its tags, which are loaded now.
LEMMA AnalyticsAskKeeps ==
  ASSUME Analytics!AnalyticsAssumption, Analytics!Selected, s3' \subseteq Nodes,
         analysed # NoNode, analysed' = analysed, tagsOf' = analysed,
         s4' \subseteq s4, Analytics!Ask(analysed, analysed)
  PROVE  Analytics!Selected'
  <1> DEFINE l == [of |-> [node |-> analysed, tags |-> analysed],
                   passed |-> FALSE]
             Fits(x) == x.passed \/ (tagsOf' # NoNode /\ x.of = Analytics!Now')
  <1>1. s6' = Append(s6, l) /\ UNCHANGED <<s5, s8>>
    BY DEF Analytics!Ask
  <1>2. l \in Analytics!Load /\ Fits(l)
    BY DEF Analytics!Load, Analytics!Series, Analytics!Selected, Analytics!Now
  <1> HIDE DEF l
  <1>3. s6 \in Seq(Analytics!Load) /\ Len(s6) \in Nat
    BY DEF Analytics!Selected, Analytics!SeriesLoads
  <1>4. tagsOf = NoNode \/ tagsOf = analysed
    BY DEF Analytics!Selected, Analytics!TagLoads
  <1>5. \A i \in 1..Len(s6) : Fits(s6[i])
    BY <1>4
    DEF Analytics!Selected, Analytics!SeriesLoads, Analytics!Current,
        Analytics!Now
  <1> HIDE DEF Fits
  <1>6. Analytics!SeriesLoads'
    <2>1. /\ s6' \in Seq(Analytics!Load)
          /\ Len(s6') = Len(s6) + 1
          /\ s6'[Len(s6) + 1] = l
          /\ \A i \in 1..Len(s6) : s6'[i] = s6[i]
      BY <1>1, <1>2, <1>3
    <2>2. \A i \in 1..Len(s6') : Fits(s6'[i])
      BY <1>2, <1>3, <1>5, <2>1
    <2>3. \/ s5' = Analytics!NoSeries
          \/ s8'
          \/ (tagsOf' # NoNode /\ s5' = Analytics!Now')
      BY <1>1, <1>4
      DEF Analytics!Selected, Analytics!SeriesLoads, Analytics!Now
    <2> QED BY <2>1, <2>2, <2>3
            DEF Analytics!SeriesLoads, Analytics!Current, Fits
  <1> QED BY <1>6 DEF Analytics!Selected, Analytics!TagLoads

\* An answer arrives: the loads before it are passed, it is shown or nothing.
LEMMA SeriesKeep ==
  ASSUME Analytics!Selected, NEW i \in DOMAIN s6, Analytics!SeriesArrive(i)
  PROVE  Analytics!Selected'
  <1>1. s6 \in Seq(Analytics!Load) /\ i \in 1..Len(s6) /\ i \in Nat
        /\ Len(s6) \in Nat
    BY LenProperties DEF Analytics!Selected, Analytics!SeriesLoads
  <1> DEFINE old == Analytics!Passed(SubSeq(s6, 1, i - 1))
             rest == SubSeq(s6, i + 1, Len(s6))
  <1>2. /\ old \in Seq(Analytics!Load)
        /\ \A j \in 1..Len(old) : Analytics!Current(old[j])
    <2>1. SubSeq(s6, 1, i - 1) \in Seq(Analytics!Load)
      BY <1>1
    <2> QED BY <2>1, PassedLoads DEF Analytics!Current
  <1>3. /\ rest \in Seq(Analytics!Load)
        /\ \A j \in 1..Len(rest) : Analytics!Current(rest[j])
    <2> DEFINE len == Len(s6)
    <2>1. \A j \in i + 1 .. len : s6[j] \in Analytics!Load
                                 /\ Analytics!Current(s6[j])
      BY <1>1 DEF Analytics!Selected, Analytics!SeriesLoads
    <2>2. i + 1 \in Int /\ len \in Int
      BY <1>1
    <2>3. /\ rest \in Seq(Analytics!Load)
          /\ Len(rest) = IF i + 1 <= len THEN len - (i + 1) + 1 ELSE 0
          /\ \A j \in 1 .. len - (i + 1) + 1 :
               rest[j] = s6[i + 1 + j - 1]
      BY <2>1, <2>2, SubSeqProperties
    <2>4. ASSUME NEW j \in 1..Len(rest)
          PROVE  Analytics!Current(rest[j])
      <3>1. /\ j \in 1 .. len - (i + 1) + 1
            /\ i + 1 + j - 1 \in i + 1 .. len
        BY <1>1, <2>3
      <3>2. rest[j] = s6[i + 1 + j - 1]
        BY <2>3, <3>1
      <3> QED BY <2>1, <3>1, <3>2
    <2> QED BY <2>3, <2>4
  <1>4. s6' = old \o rest /\ UNCHANGED <<s3, analysed, s4, tagsOf>>
    BY DEF Analytics!SeriesArrive, Analytics!scope
  <1> HIDE DEF old, rest
  <1>5. s6' \in Seq(Analytics!Load)
        /\ \A j \in 1..Len(s6') : Analytics!Current(s6'[j])
    <2>1. /\ old \o rest \in Seq(Analytics!Load)
          /\ Len(old \o rest) = Len(old) + Len(rest)
          /\ \A j \in 1..Len(old) + Len(rest) :
               (old \o rest)[j] = IF j <= Len(old) THEN old[j]
                                  ELSE rest[j - Len(old)]
      BY <1>2, <1>3, ConcatProperties
    <2>2. Len(old) \in Nat /\ Len(rest) \in Nat
      BY <1>2, <1>3
    <2>3. ASSUME NEW j \in 1..Len(old) + Len(rest)
          PROVE  Analytics!Current((old \o rest)[j])
      <3>1. CASE j <= Len(old)
        BY <1>2, <2>1, <2>2, <3>1
      <3>2. CASE j > Len(old)
        <4>1. j - Len(old) \in 1..Len(rest)
          BY <2>2, <3>2
        <4> QED BY <1>3, <2>1, <2>2, <3>2, <4>1
      <3> QED BY <2>2, <3>1, <3>2
    <2> QED BY <1>4, <2>1, <2>3
  <1>6. \/ s5' = Analytics!NoSeries
        \/ s8'
        \/ (tagsOf # NoNode /\ s5' = Analytics!Now)
    <2>1. s6[i] \in Analytics!Load /\ Analytics!Current(s6[i])
      BY <1>1 DEF Analytics!Selected, Analytics!SeriesLoads
    <2>2. s5' = s6[i].of \/ s5' = Analytics!NoSeries
      BY DEF Analytics!SeriesArrive
    <2>3. s8' = s6[i].passed
      BY DEF Analytics!SeriesArrive
    <2> QED BY <2>1, <2>2, <2>3 DEF Analytics!Current
  <1>7. Analytics!SeriesLoads'
    BY <1>4, <1>5, <1>6
    DEF Analytics!SeriesLoads, Analytics!Current, Analytics!Now
  <1> QED BY <1>4, <1>7 DEF Analytics!Selected, Analytics!TagLoads

\* A list of nodes arrives, or fails; another module or node is picked.
LEMMA PickKeeps ==
  ASSUME Analytics!AnalyticsAssumption, Analytics!Selected,
         \/ \E m \in Modules \cup {NoModule} : Analytics!PickModule(m)
         \/ \E r \in s2 : Analytics!ListArrives(r) \/ Analytics!ListFails(r)
         \/ \E n \in Nodes : Analytics!PickNode(n)
  PROVE  Analytics!Selected'
  <1>1. ASSUME UNCHANGED <<analysed, s4, tagsOf, Analytics!chart>>,
               s3' \subseteq Nodes
        PROVE  Analytics!Selected'
    BY <1>1
    DEF Analytics!chart, Analytics!Selected, Analytics!TagLoads,
        Analytics!SeriesLoads, Analytics!Current, Analytics!Now
  <1>2. s3 \subseteq Nodes /\ (analysed # NoNode => analysed \in Nodes)
    BY DEF Analytics!Selected
  <1>3. ASSUME NEW m \in Modules \cup {NoModule}, Analytics!PickModule(m)
        PROVE  Analytics!Selected'
    BY <1>1, <1>2, <1>3, ChangeKeeps DEF Analytics!PickModule
  <1>4. ASSUME NEW r \in s2, Analytics!ListArrives(r)
        PROVE  Analytics!Selected'
    <2>1. Analytics!NodesOf(r.module) \subseteq Nodes
      BY DEF Analytics!NodesOf
    <2>2. CASE r.active
      <3>1. s3' \subseteq Nodes
        BY <1>4, <2>1, <2>2 DEF Analytics!ListArrives
      <3>2. PICK n \in Nodes \cup {NoNode} :
              \/ Analytics!ChangeNode(n)
              \/ /\ n = analysed
                 /\ IF tagsOf = NoNode THEN Analytics!Clear
                                       ELSE Analytics!Ask(n, tagsOf)
                 /\ UNCHANGED <<analysed, s4, tagsOf>>
        BY <1>4, <2>2, <3>1 DEF Analytics!ListArrives
      <3>3. CASE Analytics!ChangeNode(n)
        BY <3>1, <3>3, ChangeKeeps
      <3>4. CASE /\ n = analysed /\ tagsOf = NoNode /\ Analytics!Clear
                 /\ UNCHANGED <<analysed, s4, tagsOf>>
        BY <3>1, <3>4, ClearKeeps
      <3>5. CASE /\ n = analysed /\ tagsOf # NoNode /\ Analytics!Ask(n, tagsOf)
                 /\ UNCHANGED <<analysed, s4, tagsOf>>
        <4>1. tagsOf = analysed
          BY <3>5 DEF Analytics!Selected, Analytics!TagLoads
        <4> QED BY <3>1, <3>5, <4>1, AnalyticsAskKeeps
      <3> QED BY <3>2, <3>3, <3>4, <3>5
    <2>3. CASE ~r.active
      BY <1>1, <1>2, <1>4, <2>3 DEF Analytics!ListArrives
    <2> QED BY <2>2, <2>3
  <1>5. ASSUME NEW r \in s2, Analytics!ListFails(r)
        PROVE  Analytics!Selected'
    BY <1>1, <1>2, <1>5 DEF Analytics!ListFails
  <1>6. ASSUME NEW n \in Nodes, Analytics!PickNode(n)
        PROVE  Analytics!Selected'
    BY <1>2, <1>6, ChangeKeeps DEF Analytics!PickNode, Analytics!scope
  <1> QED BY <1>3, <1>4, <1>5, <1>6

\* Tags arrive, and the series are asked for; or they are asked for again.
LEMMA TagsKeep ==
  ASSUME Analytics!AnalyticsAssumption, Analytics!Selected,
         (\E r \in s4 : Analytics!TagsArrive(r)) \/ Analytics!AskAgain
  PROVE  Analytics!Selected'
  <1>1. s3' = s3 /\ analysed' = analysed /\ s3 \subseteq Nodes
    BY DEF Analytics!TagsArrive, Analytics!AskAgain, Analytics!scope,
           Analytics!Selected
  <1>2. ASSUME NEW r \in s4, Analytics!TagsArrive(r)
        PROVE  Analytics!Selected'
    <2>1. CASE r.active
      <3>1. r.node = analysed /\ r.node \in Nodes
        BY <2>1 DEF Analytics!Selected, Analytics!TagLoads
      <3> QED BY <1>1, <1>2, <2>1, <3>1, AnalyticsAskKeeps
              DEF Analytics!TagsArrive, Analytics!AnalyticsAssumption
    <2>2. CASE ~r.active
      BY <1>1, <1>2, <2>2
      DEF Analytics!TagsArrive, Analytics!chart, Analytics!Selected,
          Analytics!TagLoads, Analytics!SeriesLoads, Analytics!Current,
          Analytics!Now
    <2> QED BY <2>1, <2>2
  <1>3. CASE Analytics!AskAgain
    <2>1. tagsOf = analysed /\ analysed # NoNode
      BY <1>3 DEF Analytics!AskAgain, Analytics!Selected, Analytics!TagLoads
    <2> QED BY <1>1, <1>3, <2>1, AnalyticsAskKeeps DEF Analytics!AskAgain
  <1> QED BY <1>2, <1>3

\* Every step keeps the invariant.
LEMMA SelectedStep ==
  ASSUME Analytics!AnalyticsAssumption, Analytics!Selected,
         [Analytics!Next]_(Analytics!analyticsVars)
  PROVE  Analytics!Selected'
  <1>1. CASE UNCHANGED Analytics!analyticsVars
    BY <1>1
    DEF Analytics!analyticsVars, Analytics!scope, Analytics!chart,
        Analytics!Selected, Analytics!TagLoads, Analytics!SeriesLoads,
        Analytics!Current, Analytics!Now
  <1>2. CASE Analytics!Next
    BY <1>2, PickKeeps, TagsKeep, SeriesKeep DEF Analytics!Next
  <1> QED BY <1>1, <1>2

\* What a run of loads does to the loads and to what they show.
LEMMA ChartTypes ==
  ASSUME Analytics!AnalyticsAssumption, Analytics!AnalyticsInv,
         \/ \E n \in Nodes \cup {NoNode} : Analytics!ChangeNode(n)
         \/ Analytics!Clear
         \/ Analytics!Ask(analysed, tagsOf)
         \/ Analytics!Ask(analysed, tagsOf')
         \/ \E i \in DOMAIN s6 : Analytics!SeriesArrive(i)
         \/ UNCHANGED Analytics!chart
  PROVE  s5' \in Analytics!Series /\ s7' \in BOOLEAN /\ s8' \in BOOLEAN
  <1>0. /\ s5 \in Analytics!Series /\ s7 \in BOOLEAN /\ s8 \in BOOLEAN
        /\ Analytics!NoSeries \in Analytics!Series /\ s6 \in Seq(Analytics!Load)
    BY DEF Analytics!AnalyticsInv, Analytics!TypeOK, Analytics!Selected,
           Analytics!SeriesLoads, Analytics!NoSeries, Analytics!Series
  <1>1. ASSUME NEW n \in Nodes \cup {NoNode}, Analytics!ChangeNode(n)
        PROVE  s5' \in Analytics!Series /\ s7' \in BOOLEAN /\ s8' \in BOOLEAN
    BY <1>0, <1>1 DEF Analytics!ChangeNode
  <1>2. CASE \/ Analytics!Clear
             \/ Analytics!Ask(analysed, tagsOf)
             \/ Analytics!Ask(analysed, tagsOf')
    BY <1>0, <1>2 DEF Analytics!Clear, Analytics!Ask
  <1>3. ASSUME NEW i \in DOMAIN s6, Analytics!SeriesArrive(i)
        PROVE  s5' \in Analytics!Series /\ s7' \in BOOLEAN /\ s8' \in BOOLEAN
    <2>1. s6[i] \in Analytics!Load
      BY <1>0, LenProperties, ElementOfSeq
    <2>2. s6[i].of \in Analytics!Series /\ s6[i].passed \in BOOLEAN
      BY <2>1 DEF Analytics!Load
    <2> QED BY <1>0, <1>3, <2>2 DEF Analytics!SeriesArrive
  <1>4. CASE UNCHANGED Analytics!chart
    BY <1>0, <1>4 DEF Analytics!chart
  <1> QED BY <1>1, <1>2, <1>3, <1>4

\* Every step keeps the types.
LEMMA AnalyticsTypes ==
  ASSUME Analytics!AnalyticsAssumption, Analytics!AnalyticsInv,
         Analytics!Selected', [Analytics!Next]_(Analytics!analyticsVars)
  PROVE  Analytics!TypeOK'
  <1> DEFINE ListLoad == [module : Modules, active : BOOLEAN]
  <1>1. /\ s3' \subseteq Nodes /\ analysed' \in Nodes \cup {NoNode}
        /\ s4' \subseteq [node : Nodes, active : BOOLEAN]
        /\ tagsOf' \in Nodes \cup {NoNode}
        /\ s6' \in Seq([of : Analytics!Series, passed : BOOLEAN])
    BY DEF Analytics!Selected, Analytics!TagLoads, Analytics!SeriesLoads,
           Analytics!Load
  <1>2. s1' \in Modules \cup {NoModule} /\ s2' \subseteq ListLoad
    <2>0. s1 \in Modules \cup {NoModule} /\ s2 \subseteq ListLoad
      BY DEF Analytics!AnalyticsInv, Analytics!TypeOK
    <2>1. ASSUME NEW m \in Modules \cup {NoModule}, Analytics!PickModule(m)
          PROVE  s1' \in Modules \cup {NoModule} /\ s2' \subseteq ListLoad
      <3>1. \A r \in ListLoad : [r EXCEPT !.active = FALSE] \in ListLoad
        OBVIOUS
      <3>2. m # NoModule => [module |-> m, active |-> TRUE] \in ListLoad
        OBVIOUS
      <3>3. /\ s1' = m
            /\ s2' = {[r EXCEPT !.active = FALSE] : r \in s2}
                   \cup (IF m = NoModule THEN {}
                         ELSE {[module |-> m, active |-> TRUE]})
        BY <2>1 DEF Analytics!PickModule
      <3> HIDE DEF ListLoad
      <3> QED BY <2>0, <3>1, <3>2, <3>3
    <2>2. ASSUME NEW r \in s2,
                 Analytics!ListArrives(r) \/ Analytics!ListFails(r)
          PROVE  s1' \in Modules \cup {NoModule} /\ s2' \subseteq ListLoad
      BY <2>0, <2>2 DEF Analytics!ListArrives, Analytics!ListFails
    <2>3. \/ UNCHANGED <<s1, s2>>
          \/ \E m \in Modules \cup {NoModule} : Analytics!PickModule(m)
          \/ \E r \in s2 : Analytics!ListArrives(r) \/ Analytics!ListFails(r)
      BY DEF Analytics!Next, Analytics!analyticsVars, Analytics!scope,
             Analytics!PickNode, Analytics!TagsArrive, Analytics!AskAgain,
             Analytics!SeriesArrive
    <2> QED BY <2>0, <2>1, <2>2, <2>3
  <1>3. \/ \E n \in Nodes \cup {NoNode} : Analytics!ChangeNode(n)
        \/ Analytics!Clear
        \/ Analytics!Ask(analysed, tagsOf)
        \/ Analytics!Ask(analysed, tagsOf')
        \/ \E i \in DOMAIN s6 : Analytics!SeriesArrive(i)
        \/ UNCHANGED Analytics!chart
    <2>1. ASSUME NEW m, Analytics!PickModule(m)
          PROVE  Analytics!ChangeNode(NoNode) \/ UNCHANGED Analytics!chart
      BY <2>1 DEF Analytics!PickModule
    <2>2. ASSUME NEW r, Analytics!ListArrives(r)
          PROVE  \/ \E n \in Nodes \cup {NoNode} : Analytics!ChangeNode(n)
                 \/ Analytics!Clear
                 \/ Analytics!Ask(analysed, tagsOf)
                 \/ UNCHANGED Analytics!chart
      <3>1. Analytics!NodesOf(r.module) \subseteq Nodes
        BY DEF Analytics!NodesOf
      <3> QED BY <2>2, <3>1 DEF Analytics!ListArrives
    <2>3. ASSUME NEW n \in Nodes, Analytics!PickNode(n)
          PROVE  Analytics!ChangeNode(n)
      BY <2>3 DEF Analytics!PickNode
    <2>4. ASSUME NEW r, Analytics!TagsArrive(r)
          PROVE  Analytics!Ask(analysed, tagsOf') \/ UNCHANGED Analytics!chart
      BY <2>4 DEF Analytics!TagsArrive
    <2> QED BY <2>1, <2>2, <2>3, <2>4
            DEF Analytics!Next, Analytics!analyticsVars, Analytics!ListFails,
                Analytics!AskAgain
  <1>4. s5' \in Analytics!Series /\ s7' \in BOOLEAN /\ s8' \in BOOLEAN
    BY <1>3, ChartTypes
  <1> QED BY <1>1, <1>2, <1>4 DEF Analytics!TypeOK

\* The invariant holds when the page opens.
LEMMA AnalyticsInit ==
  ASSUME Analytics!Init
  PROVE  Analytics!AnalyticsInv
  <1>1. Analytics!Selected
    BY SelectedInit
  <1>2. s5 \in Analytics!Series /\ s7 \in BOOLEAN /\ s8 \in BOOLEAN
    BY DEF Analytics!Init, Analytics!NoSeries, Analytics!Series
  <1> QED BY <1>1, <1>2
          DEF Analytics!Init, Analytics!AnalyticsInv, Analytics!TypeOK,
              Analytics!Selected, Analytics!SeriesLoads, Analytics!Load

\* Every step keeps it.
LEMMA AnalyticsStep ==
  ASSUME Analytics!AnalyticsAssumption, Analytics!AnalyticsInv,
         [Analytics!Next]_(Analytics!analyticsVars)
  PROVE  Analytics!AnalyticsInv'
  <1>1. Analytics!Selected'
    BY SelectedStep DEF Analytics!AnalyticsInv
  <1> QED BY <1>1, AnalyticsTypes DEF Analytics!AnalyticsInv

\* Series of another node are late ones.
LEMMA AnalyticsFacts ==
  ASSUME Analytics!AnalyticsInv
  PROVE  Analytics!OnlyLateSeriesAreWrong
  BY DEF Analytics!AnalyticsInv, Analytics!Selected, Analytics!SeriesLoads,
         Analytics!OnlyLateSeriesAreWrong, Analytics!Now

\* Every step shows tags of the selected node, takes them away or selects
\* another node without tags.
LEMMA TagsFollow ==
  ASSUME Analytics!AnalyticsAssumption, Analytics!AnalyticsInv,
         [Analytics!Next]_(Analytics!analyticsVars)
  PROVE  [Analytics!Tags!Next]_<<analysed, tagsOf>>
  <1>1. ASSUME NEW n \in Nodes \cup {NoNode}, Analytics!ChangeNode(n)
        PROVE  Analytics!Tags!Next
    BY <1>1
    DEF Analytics!ChangeNode, Analytics!Tags!Next, Analytics!Tags!Select
  <1>2. SUFFICES ASSUME Analytics!Next, ~UNCHANGED <<analysed, tagsOf>>
                 PROVE  Analytics!Tags!Next
    BY DEF Analytics!analyticsVars
  <1>3. ASSUME NEW m, Analytics!PickModule(m)
        PROVE  Analytics!Tags!Next
    BY <1>1, <1>2, <1>3 DEF Analytics!PickModule
  <1>4. ASSUME NEW r, Analytics!ListArrives(r)
        PROVE  Analytics!Tags!Next
    <2>1. Analytics!NodesOf(r.module) \subseteq Nodes
      BY DEF Analytics!NodesOf
    <2> QED BY <1>1, <1>2, <1>4, <2>1 DEF Analytics!ListArrives
  <1>5. ASSUME NEW n \in Nodes, Analytics!PickNode(n)
        PROVE  Analytics!Tags!Next
    BY <1>1, <1>5 DEF Analytics!PickNode
  <1>6. ASSUME NEW r \in s4, Analytics!TagsArrive(r)
        PROVE  Analytics!Tags!Next
    BY <1>2, <1>6
    DEF Analytics!TagsArrive, Analytics!AnalyticsInv, Analytics!Selected,
        Analytics!TagLoads, Analytics!Tags!Next, Analytics!Tags!Show
  <1> QED BY <1>2, <1>3, <1>4, <1>5, <1>6
          DEF Analytics!Next, Analytics!ListFails, Analytics!AskAgain,
              Analytics!SeriesArrive

\* The invariant of the analytics page holds in every behaviour.
THEOREM AnalyticsInvariant ==
  PagesSpec => [](view = "analytics" => Analytics!AnalyticsInv)
  <1> DEFINE Inv == view = "analytics" => Analytics!AnalyticsInv
  <1>0. PagesInit => Inv
    BY AnalyticsInit, PagesAssumption DEF PagesInit, PagesAssumption
  <1>1. ASSUME Inv, [PagesNext]_pagesVars
        PROVE  Inv'
    <2>1. view' = view
      BY <1>1 DEF PagesNext, pagesVars
    <2>2. view = "analytics" => [Analytics!Next]_(Analytics!analyticsVars)
      BY <1>1
      DEF PagesNext, Step, pagesVars, shared, analytics,
          Analytics!analyticsVars, Analytics!scope, Analytics!chart
    <2> QED BY <1>1, <2>1, <2>2, AnalyticsStep, PagesAssumption
            DEF PagesAssumption
  <1> QED BY <1>0, <1>1, PTL DEF PagesSpec

\* For any number of loads in flight: the series are those of the selected
\* node and its tags, unless their answer came after a newer one's or after
\* the page was cleared (Analytics.jsx, loadData).
THEOREM WrongSeriesWereLate == PagesSpec => []OnlyLateSeriesAreWrong
  <1>1. (view = "analytics" => Analytics!AnalyticsInv) => OnlyLateSeriesAreWrong
    BY AnalyticsFacts DEF OnlyLateSeriesAreWrong
  <1> QED BY <1>1, AnalyticsInvariant, PTL

\* The page implements LatestLoad with its tags: they are those of the last
\* selection or none, because a load that is no longer active is ignored
\* (Analytics.jsx, the effect that loads the tags of the node).
THEOREM TagsFollowTheNode == PagesSpec => TagsAreTheNodes
  <1>1. PagesInit => Analytics!Tags!Init
    BY DEF PagesInit, NoAnalytics, Analytics!Init, Analytics!Tags!Init
  <1>2. ASSUME view = "analytics" => Analytics!AnalyticsInv,
               [PagesNext]_pagesVars
        PROVE  [Analytics!Tags!Next]_<<analysed, tagsOf>>
    <2>1. CASE view = "analytics"
      <3>1. [Analytics!Next]_(Analytics!analyticsVars)
        BY <1>2, <2>1
        DEF PagesNext, Step, pagesVars, shared, analytics,
            Analytics!analyticsVars, Analytics!scope, Analytics!chart
      <3> QED BY <1>2, <2>1, <3>1, TagsFollow, PagesAssumption
              DEF PagesAssumption
    <2>2. CASE view # "analytics"
      BY <1>2, <2>2 DEF PagesNext, Step, pagesVars, analytics
    <2> QED BY <2>1, <2>2
  <1> QED BY <1>1, <1>2, AnalyticsInvariant, PTL
          DEF PagesSpec, TagsAreTheNodes, Analytics!TagsAreTheNodes,
              Analytics!Tags!Spec

-----------------------------------------------------------------------------
(* The history of alerts.                                                  *)
(* Here s1 is raised, s2 active, s3 onlyActive, s4 offset, s5 rows, s6     *)
(* total, s7 load, s8 acks, s9 mine, s10 raced.                            *)

\* The instance means the same operators.
LEMMA AlertsMeans ==
  \A S : Alerts!Cardinality(S) = Cardinality(S)
  BY DEF Alerts!Cardinality, Cardinality

\* What a service has of alerts can be counted.
LEMMA Counted ==
  ASSUME s1 \in 0..MaxAlerts, MaxAlerts \in Nat, NEW filter \in BOOLEAN
  PROVE  /\ Alerts!Matching(filter) \subseteq 1..s1
         /\ Cardinality(Alerts!Matching(filter)) \in 0..MaxAlerts
  <1>1. Alerts!Matching(filter) \subseteq 1..s1
    BY DEF Alerts!Matching
  <1>2. IsFiniteSet(1..s1) /\ Cardinality(1..s1) = s1
    <2>1. s1 \in Nat
      OBVIOUS
    <2> QED BY <2>1, CountTo
  <1>3. /\ IsFiniteSet(Alerts!Matching(filter))
        /\ Cardinality(Alerts!Matching(filter)) <= s1
    BY <1>1, <1>2, FS_Subset
  <1>4. Cardinality(Alerts!Matching(filter)) \in Nat
    BY <1>3, FS_CardinalityType
  <1> QED BY <1>1, <1>3, <1>4

\* A load that is idle is not in flight, and one under way is.
LEMMA IdleLoad ==
  ASSUME Alerts!HistoryAssumption
  PROVE  /\ Alerts!Idle \in Alerts!LoadType
         /\ Alerts!Idle.at = "idle"
         /\ Alerts!Idle.rows = {}
         /\ \A r : r.at # "idle" => r # Alerts!Idle
  BY DEF Alerts!HistoryAssumption, Alerts!Idle, Alerts!LoadType

\* The page loads its first rows.
LEMMA HistoryInit ==
  ASSUME Alerts!HistoryAssumption, Alerts!Init
  PROVE  Alerts!HistoryInv
  <1>1. s1 \in 0..MaxAlerts /\ MaxAlerts \in Nat
    BY DEF Alerts!HistoryAssumption, Alerts!Init
  <1>2. PICK k \in Chains : s7 = [j \in Chains |->
          IF j = k THEN [Alerts!Idle EXCEPT !.at = "asked"] ELSE Alerts!Idle]
    BY DEF Alerts!Init
  <1>3. [Alerts!Idle EXCEPT !.at = "asked"] \in Alerts!LoadType
        /\ [Alerts!Idle EXCEPT !.at = "asked"].rows = {}
    BY IdleLoad DEF Alerts!LoadType, Alerts!Idle
  <1>4. \A j \in Chains : s7[j] \in Alerts!LoadType /\ s7[j].rows = {}
    BY <1>2, <1>3, IdleLoad
  <1>5. Alerts!TypeOK
    <2>1. s7 \in [Chains -> Alerts!LoadType]
      BY <1>2, <1>4
    <2>2. s2 \subseteq 1..s1 /\ s8 \subseteq Alerts!AckType
          /\ s9 \subseteq Alerts!Alerts /\ s5 \subseteq Alerts!Row
      BY DEF Alerts!Init
    <2>3. /\ s3 \in BOOLEAN /\ s10 \in BOOLEAN
          /\ s4 \in 0..MaxAlerts /\ s6 \in 0..MaxAlerts
      <3>1. s3 = FALSE /\ s10 = FALSE /\ s4 = 0 /\ s6 = 0
        BY DEF Alerts!Init
      <3>2. 0 \in 0..MaxAlerts
        BY <1>1
      <3> QED BY <3>1, <3>2, Zenon
    <2> QED BY <1>1, <2>1, <2>2, <2>3 DEF Alerts!TypeOK
  <1>6. Alerts!NothingUnheard
    BY <1>4 DEF Alerts!Init, Alerts!NothingUnheard, Alerts!Known
  <1>7. Alerts!OneLoad
    <2>1. \A j \in Alerts!InFlight : j = k
      BY <1>2 DEF Alerts!InFlight
    <2> QED BY <1>4, <2>1 DEF Alerts!Init, Alerts!OneLoad, Alerts!Right
  <1> QED BY <1>5, <1>6, <1>7 DEF Alerts!HistoryInv

\* A request for a page: its load is the only one, or loads overlap.
LEMMA AlertsAskKeeps ==
  ASSUME Alerts!HistoryAssumption, s7 \in [Chains -> Alerts!LoadType],
         \A k \in Chains : Alerts!Known(s7[k].rows),
         NEW filter \in BOOLEAN, NEW from \in 0..MaxAlerts,
         Alerts!Ask(filter, from),
         s1' = s1
  PROVE  /\ s7' \in [Chains -> Alerts!LoadType] /\ s10' \in BOOLEAN
         /\ \A k \in Chains : Alerts!Known(s7[k].rows)'
         /\ Alerts!OneLoad'
  <1>1. PICK k \in Chains \ Alerts!InFlight :
          s7' = [s7 EXCEPT ![k] = [Alerts!Idle EXCEPT !.at = "asked",
                                         !.filter = filter, !.offset = from]]
    BY DEF Alerts!Ask
  <1> DEFINE r == [Alerts!Idle EXCEPT !.at = "asked", !.filter = filter,
                                      !.offset = from]
  <1>2. r \in Alerts!LoadType /\ r.rows = {} /\ r # Alerts!Idle
    BY IdleLoad DEF Alerts!LoadType, Alerts!Idle
  <1> HIDE DEF r
  <1>3. /\ s7' \in [Chains -> Alerts!LoadType] /\ s7'[k] = r
        /\ \A j \in Chains \ {k} : s7'[j] = s7[j]
    BY <1>1, <1>2 DEF r
  <1>4. s10' = (Alerts!InFlight # {})
    BY DEF Alerts!Ask
  <1>5. Alerts!OneLoad'
    <2>1. SUFFICES ASSUME ~s10'
                   PROVE  Alerts!OneLoad'
      BY DEF Alerts!OneLoad
    <2>2. \A j \in Chains : s7[j] = Alerts!Idle
      BY <1>4, <2>1 DEF Alerts!InFlight
    <2>3. Alerts!InFlight' = {k}
      BY <1>2, <1>3, <2>2 DEF Alerts!InFlight
    <2>4. \A j \in Chains : s7'[j].rows = {}
      BY <1>2, <1>3, <2>2, IdleLoad
    <2> QED BY <2>3, <2>4 DEF Alerts!OneLoad, Alerts!Right
  <1>6. \A j \in Chains : Alerts!Known(s7[j].rows)'
    BY <1>2, <1>3 DEF Alerts!Known
  <1> QED BY <1>3, <1>4, <1>5, <1>6

\* The user looks at other rows, or at the same again.
LEMMA QueryKeeps ==
  ASSUME Alerts!HistoryAssumption, Alerts!HistoryInv,
         Alerts!SetFilter \/ Alerts!GoNext \/ Alerts!GoPrev \/ Alerts!Refresh
  PROVE  Alerts!HistoryInv'
  <1>0. /\ s7 \in [Chains -> Alerts!LoadType]
        /\ \A k \in Chains : Alerts!Known(s7[k].rows)
        /\ MaxAlerts \in Nat /\ AlertRows \in Nat \ {0}
        /\ s4 \in 0..MaxAlerts /\ s6 \in 0..MaxAlerts
    BY DEF Alerts!HistoryInv, Alerts!TypeOK, Alerts!NothingUnheard,
           Alerts!HistoryAssumption
  <1>1. /\ UNCHANGED <<Alerts!server, s5, s6, s8, s9>>
        /\ s3' \in BOOLEAN
        /\ \E filter \in BOOLEAN, from \in 0..MaxAlerts :
             Alerts!Ask(filter, from) /\ s4' \in {from, s4}
    <2>1. CASE Alerts!SetFilter
      <3>1. (~s3) \in BOOLEAN
        OBVIOUS
      <3>2. /\ UNCHANGED <<Alerts!server, s5, s6, s8, s9>>
            /\ s3' = ~s3 /\ s4' = 0 /\ Alerts!Ask(~s3, 0)
        BY <2>1 DEF Alerts!SetFilter
      <3>3. 0 \in 0..MaxAlerts
        BY <1>0
      <3> QED BY <3>1, <3>2, <3>3, Zenon
    <2>2. CASE Alerts!GoNext
      <3>1. Alerts!Least(Alerts!Most(0, s6 - AlertRows), s4 + AlertRows)
              \in 0..MaxAlerts
        BY <1>0, <2>2 DEF Alerts!GoNext, Alerts!Least, Alerts!Most
      <3> QED BY <2>2, <3>1
              DEF Alerts!GoNext, Alerts!GoTo, Alerts!HistoryInv, Alerts!TypeOK
    <2>3. CASE Alerts!GoPrev
      <3>1. Alerts!Most(0, s4 - AlertRows) \in 0..MaxAlerts
        BY <1>0, <2>3 DEF Alerts!GoPrev, Alerts!Most
      <3> QED BY <2>3, <3>1
              DEF Alerts!GoPrev, Alerts!GoTo, Alerts!HistoryInv, Alerts!TypeOK
    <2>4. CASE Alerts!Refresh
      BY <1>0, <2>4
      DEF Alerts!Refresh, Alerts!query, Alerts!HistoryInv, Alerts!TypeOK
    <2> QED BY <2>1, <2>2, <2>3, <2>4
  <1>2. /\ s7' \in [Chains -> Alerts!LoadType] /\ s10' \in BOOLEAN
        /\ \A k \in Chains : Alerts!Known(s7[k].rows)'
        /\ Alerts!OneLoad'
    BY <1>0, <1>1, AlertsAskKeeps DEF Alerts!server
  <1>3. s4' \in 0..MaxAlerts
    BY <1>0, <1>1
  <1>4. Alerts!TypeOK'
    BY <1>1, <1>2, <1>3 DEF Alerts!HistoryInv, Alerts!TypeOK, Alerts!server
  <1>5. Alerts!NothingUnheard'
    BY <1>1, <1>2
    DEF Alerts!HistoryInv, Alerts!NothingUnheard, Alerts!Known, Alerts!server
  <1> QED BY <1>2, <1>4, <1>5 DEF Alerts!HistoryInv

\* An alert is acknowledged: it is not active any more, and loads that were
\* under way are known to overlap the next one.
LEMMA AckKeeps ==
  ASSUME Alerts!HistoryAssumption, Alerts!HistoryInv,
         \/ \E a \in Alerts!Alerts : Alerts!PressAck(a)
         \/ \E ack \in s8 : Alerts!AckOk(ack) \/ Alerts!AckFails(ack)
  PROVE  Alerts!HistoryInv'
  <1>1. ASSUME NEW a \in Alerts!Alerts, Alerts!PressAck(a)
        PROVE  Alerts!HistoryInv'
    <2>1. /\ [id |-> a, active |-> TRUE] \in s5
          /\ s8' = s8 \cup
               {[id |-> a, filter |-> s3, offset |-> s4]}
          /\ UNCHANGED <<Alerts!server, Alerts!query, s5, s6, s7, s9, s10>>
      BY <1>1 DEF Alerts!PressAck
    <2>2. a \in 1..s1
      BY <2>1 DEF Alerts!HistoryInv, Alerts!NothingUnheard, Alerts!Known
    <2>3. [id |-> a, filter |-> s3, offset |-> s4] \in Alerts!AckType
      BY DEF Alerts!HistoryInv, Alerts!TypeOK, Alerts!AckType
    <2> QED BY <2>1, <2>2, <2>3
            DEF Alerts!HistoryInv, Alerts!TypeOK, Alerts!NothingUnheard,
                Alerts!Known, Alerts!OneLoad, Alerts!Right, Alerts!InFlight,
                Alerts!server, Alerts!query
  <1>2. ASSUME NEW ack \in s8
        PROVE  /\ ack.id \in 1..s1 /\ ack.id \in Alerts!Alerts
               /\ ack.filter \in BOOLEAN /\ ack.offset \in 0..MaxAlerts
    BY DEF Alerts!HistoryInv, Alerts!TypeOK, Alerts!NothingUnheard,
           Alerts!Known, Alerts!AckType
  <1>3. ASSUME NEW ack \in s8, Alerts!AckOk(ack)
        PROVE  Alerts!HistoryInv'
    <2>1. /\ s8' = s8 \ {ack} /\ s2' = s2 \ {ack.id}
          /\ s9' = s9 \cup {ack.id} /\ Alerts!Ask(ack.filter, ack.offset)
          /\ UNCHANGED <<s1, Alerts!query, s5, s6>>
      BY <1>3 DEF Alerts!AckOk
    <2>2. /\ s7' \in [Chains -> Alerts!LoadType] /\ s10' \in BOOLEAN
          /\ \A k \in Chains : Alerts!Known(s7[k].rows)'
          /\ Alerts!OneLoad'
      BY <1>2, <2>1, AlertsAskKeeps
      DEF Alerts!HistoryInv, Alerts!TypeOK, Alerts!NothingUnheard
    <2>3. /\ s2 \subseteq 1..s1 /\ s9 \subseteq 1..s1
          /\ s9 \cap s2 = {}
      BY DEF Alerts!HistoryInv, Alerts!TypeOK, Alerts!NothingUnheard
    <2>4. /\ s2' \subseteq 1..s1 /\ s9' \subseteq 1..s1
          /\ s9' \cap s2' = {} /\ s9' \subseteq Alerts!Alerts
      BY <1>2, <2>1, <2>3 DEF Alerts!HistoryInv, Alerts!TypeOK
    <2>5. Alerts!TypeOK'
      BY <2>1, <2>2, <2>4 DEF Alerts!HistoryInv, Alerts!TypeOK, Alerts!query
    <2>6. Alerts!Known(s8)' /\ Alerts!Known(s5)'
      BY <2>1 DEF Alerts!HistoryInv, Alerts!NothingUnheard, Alerts!Known
    <2>7. Alerts!NothingUnheard'
      BY <2>1, <2>2, <2>4, <2>6 DEF Alerts!NothingUnheard
    <2> QED BY <2>2, <2>5, <2>7 DEF Alerts!HistoryInv
  <1>4. ASSUME NEW ack \in s8, Alerts!AckFails(ack)
        PROVE  Alerts!HistoryInv'
    BY <1>4
    DEF Alerts!AckFails, Alerts!HistoryInv, Alerts!TypeOK,
        Alerts!NothingUnheard, Alerts!Known, Alerts!OneLoad, Alerts!Right,
        Alerts!InFlight, Alerts!query
  <1> QED BY <1>1, <1>3, <1>4

\* The service answers a load with what is active now, and the answer, or its
\* loss, is shown.
LEMMA LoadKeeps ==
  ASSUME Alerts!HistoryAssumption, Alerts!HistoryInv,
         \E k \in Chains : \/ Alerts!ServiceReads(k)
                           \/ Alerts!LoadArrives(k)
                           \/ Alerts!LoadFails(k)
  PROVE  Alerts!HistoryInv'
  <1>0. /\ s7 \in [Chains -> Alerts!LoadType] /\ s1 \in 0..MaxAlerts
        /\ MaxAlerts \in Nat
    BY DEF Alerts!HistoryInv, Alerts!TypeOK, Alerts!HistoryAssumption
  <1>1. ASSUME NEW k \in Chains, Alerts!ServiceReads(k)
        PROVE  Alerts!HistoryInv'
    <2> DEFINE all == Alerts!Matching(s7[k].filter)
               seen == {[id |-> a, active |-> a \in s2] :
                          a \in Alerts!Window(all, s7[k].offset)}
               r == [Alerts!Idle EXCEPT !.at = "read", !.rows = seen,
                                        !.total = Cardinality(all)]
    <2>1. /\ s7[k].at = "asked" /\ s7' = [s7 EXCEPT ![k] = r]
          /\ UNCHANGED <<Alerts!server, Alerts!query, s5, s6, s8, s9, s10>>
      BY <1>1, AlertsMeans DEF Alerts!ServiceReads
    <2>2. s7[k].filter \in BOOLEAN
      BY <1>0 DEF Alerts!LoadType
    <2>3. all \subseteq 1..s1 /\ Cardinality(all) \in 0..MaxAlerts
      BY <1>0, <2>2, Counted
    <2>4. seen \subseteq Alerts!Row /\ Alerts!Known(seen) /\ Alerts!Right(seen)
      <3>1. ASSUME NEW s \in seen
            PROVE  /\ s \in Alerts!Row
                   /\ s.id \in 1..s1
                   /\ (s.active => s.id \in s2)
        <4>1. PICK a \in all : s = [id |-> a, active |-> a \in s2]
          BY DEF Alerts!Window
        <4>2. s.id = a /\ s.active = (a \in s2)
          BY <4>1
        <4>3. (a \in s2) \in BOOLEAN /\ a \in 1..s1 /\ a \in Alerts!Alerts
          BY <1>0, <2>3 DEF Alerts!Alerts
        <4>4. s \in Alerts!Row
          BY <4>1, <4>3 DEF Alerts!Row
        <4> QED BY <4>2, <4>3, <4>4
      <3>2. s9 \cap s2 = {}
        BY DEF Alerts!HistoryInv, Alerts!NothingUnheard
      <3> QED BY <3>1, <3>2 DEF Alerts!Known, Alerts!Right
    <2> HIDE DEF all, seen
    <2>5. r \in Alerts!LoadType /\ r.rows = seen /\ r # Alerts!Idle
      BY <2>3, <2>4, IdleLoad DEF Alerts!LoadType, Alerts!Idle
    <2> HIDE DEF r
    <2>6. /\ s7' \in [Chains -> Alerts!LoadType] /\ s7'[k] = r
          /\ \A j \in Chains \ {k} : s7'[j] = s7[j]
      BY <1>0, <2>1, <2>5
    <2>7. s7[k] # Alerts!Idle
      BY <2>1, IdleLoad
    <2>8. Alerts!InFlight' = Alerts!InFlight
      BY <2>5, <2>6, <2>7 DEF Alerts!InFlight
    <2>9. Alerts!NothingUnheard'
      BY <2>1, <2>4, <2>5, <2>6
      DEF Alerts!HistoryInv, Alerts!NothingUnheard, Alerts!Known,
          Alerts!server
    <2>10. Alerts!OneLoad'
      BY <2>1, <2>4, <2>5, <2>6, <2>8
      DEF Alerts!HistoryInv, Alerts!OneLoad, Alerts!Right
    <2> QED BY <2>1, <2>6, <2>9, <2>10
            DEF Alerts!HistoryInv, Alerts!TypeOK, Alerts!server, Alerts!query
  <1>2. ASSUME NEW k \in Chains, s7[k] # Alerts!Idle, s5' \in {s7[k].rows, {}},
               s6' \in {s7[k].total, s6},
               s7' = [s7 EXCEPT ![k] = Alerts!Idle],
               UNCHANGED <<Alerts!server, Alerts!query, s8, s9, s10>>
        PROVE  Alerts!HistoryInv'
    <2>1. /\ s7' \in [Chains -> Alerts!LoadType] /\ s7'[k] = Alerts!Idle
          /\ \A j \in Chains \ {k} : s7'[j] = s7[j]
      BY <1>0, <1>2, IdleLoad
    <2>2. s7[k] \in Alerts!LoadType
      BY <1>0
    <2>3. s5' \subseteq Alerts!Row /\ s6' \in 0..MaxAlerts
      BY <1>2, <2>2 DEF Alerts!LoadType, Alerts!HistoryInv, Alerts!TypeOK
    <2>4. Alerts!NothingUnheard'
      BY <1>2, <2>1, IdleLoad
      DEF Alerts!HistoryInv, Alerts!NothingUnheard, Alerts!Known,
          Alerts!server
    <2>5. Alerts!OneLoad'
      <3>1. Alerts!InFlight' \subseteq Alerts!InFlight
        BY <2>1 DEF Alerts!InFlight
      <3>2. ~s10 => Alerts!Right(s5)'
        BY <1>2 DEF Alerts!HistoryInv, Alerts!OneLoad, Alerts!Right
      <3> QED BY <1>2, <2>1, <3>1, IdleLoad
              DEF Alerts!HistoryInv, Alerts!OneLoad, Alerts!Right
    <2> QED BY <1>2, <2>1, <2>3, <2>4, <2>5
            DEF Alerts!HistoryInv, Alerts!TypeOK, Alerts!server, Alerts!query
  <1>3. ASSUME NEW k \in Chains, Alerts!LoadArrives(k)
        PROVE  Alerts!HistoryInv'
    BY <1>2, <1>3, IdleLoad DEF Alerts!LoadArrives
  <1>4. ASSUME NEW k \in Chains, Alerts!LoadFails(k)
        PROVE  Alerts!HistoryInv'
    BY <1>2, <1>4 DEF Alerts!LoadFails
  <1> QED BY <1>1, <1>3, <1>4

\* Every step keeps the invariant.
LEMMA HistoryStep ==
  ASSUME Alerts!HistoryAssumption, Alerts!HistoryInv,
         [Alerts!Next]_(Alerts!historyVars)
  PROVE  Alerts!HistoryInv'
  <1>1. CASE UNCHANGED Alerts!historyVars
    BY <1>1
    DEF Alerts!historyVars, Alerts!server, Alerts!query, Alerts!HistoryInv,
        Alerts!TypeOK, Alerts!NothingUnheard, Alerts!Known, Alerts!OneLoad,
        Alerts!Right, Alerts!InFlight
  <1>2. CASE Alerts!Raise
    <2>1. /\ s1' = s1 + 1 /\ s1 < MaxAlerts
          /\ s2' = s2 \cup {s1 + 1}
          /\ UNCHANGED <<Alerts!query, s5, s6, s7, s8, s9, s10>>
      BY <1>2 DEF Alerts!Raise
    <2>2. /\ s1 \in Nat /\ s1 \in 0..MaxAlerts /\ MaxAlerts \in Nat
          /\ s2 \subseteq 1..s1
      BY DEF Alerts!HistoryInv, Alerts!TypeOK, Alerts!HistoryAssumption
    <2>3. /\ 1..s1 \subseteq 1..s1' /\ s1 + 1 \in 1..s1'
          /\ s1 + 1 \notin 1..s1 /\ s1' \in 0..MaxAlerts
      BY <2>1, <2>2
    <2>4. s2' \subseteq 1..s1'
      BY <2>1, <2>2, <2>3
    <2>5. Alerts!TypeOK'
      BY <2>1, <2>3, <2>4 DEF Alerts!query, Alerts!HistoryInv, Alerts!TypeOK
    <2>6. /\ s9' \subseteq 1..s1' /\ s9' \cap s2' = {}
      BY <2>1, <2>3 DEF Alerts!HistoryInv, Alerts!NothingUnheard
    <2>7. /\ Alerts!Known(s5)'
          /\ Alerts!Known(s8)'
          /\ \A k \in Chains : Alerts!Known(s7[k].rows)'
      BY <2>1, <2>3 DEF Alerts!HistoryInv, Alerts!NothingUnheard, Alerts!Known
    <2>8. Alerts!NothingUnheard'
      BY <2>6, <2>7 DEF Alerts!NothingUnheard
    <2>9. Alerts!OneLoad'
      BY <2>1
      DEF Alerts!HistoryInv, Alerts!OneLoad, Alerts!Right, Alerts!InFlight
    <2> QED BY <2>5, <2>8, <2>9 DEF Alerts!HistoryInv
  <1>3. CASE Alerts!Next
    BY <1>2, <1>3, QueryKeeps, AckKeeps, LoadKeeps DEF Alerts!Next
  <1> QED BY <1>1, <1>3

\* The invariant has the property.
LEMMA HistoryFacts ==
  ASSUME Alerts!HistoryInv
  PROVE  Alerts!TypeOK /\ Alerts!AcknowledgedIsShown
  BY DEF Alerts!HistoryInv, Alerts!OneLoad, Alerts!Right,
         Alerts!AcknowledgedIsShown

\* The invariant of the alert history holds in every behaviour.
THEOREM AlertsInvariant == PagesSpec => [](view = "alerts" => Alerts!HistoryInv)
  <1> DEFINE Inv == view = "alerts" => Alerts!HistoryInv
  <1>0. PagesInit => Inv
    BY HistoryInit, PagesAssumption DEF PagesInit, PagesAssumption
  <1>1. ASSUME Inv, [PagesNext]_pagesVars
        PROVE  Inv'
    <2>1. view' = view
      BY <1>1 DEF PagesNext, pagesVars
    <2>2. view = "alerts" => [Alerts!Next]_(Alerts!historyVars)
      BY <1>1
      DEF PagesNext, Step, pagesVars, shared, analytics, Alerts!historyVars,
          Alerts!server, Alerts!query
    <2> QED BY <1>1, <2>1, <2>2, HistoryStep, PagesAssumption
            DEF PagesAssumption
  <1> QED BY <1>0, <1>1, PTL DEF PagesSpec

\* For any number of alerts and loads: when nothing is in flight, no alert
\* that was acknowledged here is offered again as active, unless two loads
\* overlapped (Alerts.jsx, handleAck).
THEOREM AcknowledgedAlertsStaySo == PagesSpec => []AcknowledgedIsShown
  <1>1. (view = "alerts" => Alerts!HistoryInv) => AcknowledgedIsShown
    BY HistoryFacts DEF AcknowledgedIsShown
  <1> QED BY <1>1, AlertsInvariant, PTL

-----------------------------------------------------------------------------
(* The charts.                                                             *)
(* Here s1 is series, s2 booleanSet.                                       *)

\* The places of a sequence that are summed up have a greatest one, its end.
LEMMA LastPlace ==
  ASSUME NEW n \in Nat
  PROVE  /\ Charts!Max(1..n + 1) = n + 1
         /\ \A s \in SUBSET (1..n + 1) : n + 1 \in s => Charts!Max(s) = n + 1
         /\ (1..n + 1) \ {n + 1} = 1..n
  <1>1. ASSUME NEW s \in SUBSET (1..n + 1), n + 1 \in s
        PROVE  Charts!Max(s) = n + 1
    <2>1. \A y \in s : y \in 1..n + 1 /\ n + 1 >= y
      OBVIOUS
    <2>2. \A x \in s : (\A y \in s : x >= y) => x = n + 1
      BY <1>1, <2>1
    <2> QED BY <1>1, <2>1, <2>2 DEF Charts!Max
  <1> QED BY <1>1

\* The function by which a sum is computed exists.
LEMMA SumExists ==
  ASSUME NEW q, NEW n \in Nat
  PROVE  \E f : f = [s \in SUBSET (1..n) |->
                       IF s = {} THEN 0
                       ELSE f[s \ {Charts!Max(s)}] + q[Charts!Max(s)]]
  <1> DEFINE Sums(f, k) == f = [s \in SUBSET (1..k) |->
                                  IF s = {} THEN 0
                                  ELSE f[s \ {Charts!Max(s)}]
                                         + q[Charts!Max(s)]]
             T == {k \in Nat : \E f : Sums(f, k)}
  <1>1. 0 \in T
    <2>1. Sums([s \in SUBSET (1..0) |-> 0], 0)
      <3>1. 1..0 = {}
        OBVIOUS
      <3>2. \A s \in SUBSET (1..0) : s = {}
        BY <3>1
      <3> QED BY <3>2
    <2> QED BY <2>1
  <1>2. ASSUME NEW k \in Nat, k \in T
        PROVE  k + 1 \in T
    <2>1. PICK f : Sums(f, k)
      BY <1>2
    <2> DEFINE g == [s \in SUBSET (1..k + 1) |->
                       IF k + 1 \in s THEN f[s \ {k + 1}] + q[k + 1]
                       ELSE f[s]]
    <2>2. ASSUME NEW s \in SUBSET (1..k + 1), s # {}
          PROVE  g[s] = g[s \ {Charts!Max(s)}] + q[Charts!Max(s)]
      <3>1. CASE k + 1 \in s
        <4>1. Charts!Max(s) = k + 1
          BY <3>1, LastPlace
        <4>2. s \ {k + 1} \in SUBSET (1..k + 1) /\ k + 1 \notin s \ {k + 1}
          OBVIOUS
        <4>3. g[s \ {k + 1}] = f[s \ {k + 1}]
          BY <4>2
        <4> QED BY <3>1, <4>1, <4>3
      <3>2. CASE k + 1 \notin s
        <4>1. s \in SUBSET (1..k)
          BY <3>2
        <4>2. s \ {Charts!Max(s)} \in SUBSET (1..k + 1)
              /\ k + 1 \notin s \ {Charts!Max(s)}
          BY <3>2
        <4>3. g[s] = f[s] /\ g[s \ {Charts!Max(s)}] = f[s \ {Charts!Max(s)}]
          BY <3>2, <4>2
        <4>4. f[s] = f[s \ {Charts!Max(s)}] + q[Charts!Max(s)]
          BY <2>1, <2>2, <4>1
        <4> QED BY <4>3, <4>4
      <3> QED BY <3>1, <3>2
    <2>3. g[{}] = 0
      <3>1. {} \in SUBSET (1..k) /\ {} \in SUBSET (1..k + 1) /\ k + 1 \notin {}
        OBVIOUS
      <3>2. f[{}] = 0
        BY <2>1, <3>1
      <3> QED BY <3>1, <3>2
    <2>4. \A s \in SUBSET (1..k + 1) :
            g[s] = IF s = {} THEN 0
                   ELSE g[s \ {Charts!Max(s)}] + q[Charts!Max(s)]
      BY <2>2, <2>3
    <2>5. g = [s \in SUBSET (1..k + 1) |-> g[s]]
      OBVIOUS
    <2> HIDE DEF g
    <2>6. g = [s \in SUBSET (1..k + 1) |->
                 IF s = {} THEN 0
                 ELSE g[s \ {Charts!Max(s)}] + q[Charts!Max(s)]]
      BY <2>4, <2>5
    <2>7. Sums(g, k + 1)
      BY <2>6
    <2> HIDE DEF Sums
    <2>8. \E h : Sums(h, k + 1)
      BY <2>7
    <2> QED BY <2>8
  <1> HIDE DEF T
  <1>3. n \in T
    BY <1>1, <1>2, Induction
  <1> QED BY <1>3 DEF T

\* The sum of a sequence as the charts compute it.
Sum(q) == Charts!FoldLeft(+, 0, q)

\* The sum of a sequence is the last of its partial sums.
LEMMA SumIs ==
  ASSUME NEW n \in Nat, NEW q, DOMAIN q = 1..n, NEW part,
         part[0] = 0, \A k \in 1..n : part[k] = part[k - 1] + q[k]
  PROVE  Sum(q) = part[n]
  <1> DEFINE iter == CHOOSE f : f = [s \in SUBSET (1..n) |->
                       IF s = {} THEN 0
                       ELSE f[s \ {Charts!Max(s)}] + q[Charts!Max(s)]]
  <1>1. Sum(q) = iter[1..n]
    BY Zenon DEF Sum, Charts!FoldLeft, Charts!MapThenFoldSet
  <1>2. iter = [s \in SUBSET (1..n) |->
                  IF s = {} THEN 0
                  ELSE iter[s \ {Charts!Max(s)}] + q[Charts!Max(s)]]
    BY SumExists
  <1> HIDE DEF iter
  <1> DEFINE T == {k \in Nat : k <= n => iter[1..k] = part[k]}
  <1>3. 0 \in T
    <2>1. 1..0 = {} /\ {} \in SUBSET (1..n)
      OBVIOUS
    <2> QED BY <1>2, <2>1
  <1>4. ASSUME NEW k \in Nat, k \in T
        PROVE  k + 1 \in T
    <2> SUFFICES ASSUME k + 1 <= n
                 PROVE  iter[1..k + 1] = part[k + 1]
      OBVIOUS
    <2>1. 1..k + 1 \in SUBSET (1..n) /\ 1..k + 1 # {}
      OBVIOUS
    <2>2. iter[1..k + 1] = iter[1..k] + q[k + 1]
      <3>1. iter[1..k + 1] = iter[(1..k + 1) \ {Charts!Max(1..k + 1)}]
                               + q[Charts!Max(1..k + 1)]
        BY <1>2, <2>1
      <3> QED BY <3>1, LastPlace
    <2>3. iter[1..k] = part[k] /\ part[k + 1] = part[k] + q[k + 1]
      BY <1>4
    <2> QED BY <2>2, <2>3
  <1> HIDE DEF T
  <1>5. n \in T
    BY <1>3, <1>4, Induction
  <1>6. iter[1..n] = part[n]
    BY <1>5 DEF T
  <1> QED BY <1>1, <1>6, Zenon

\* The instance means the same operators.
LEMMA ChartsMeans ==
  /\ \A S : Charts!Cardinality(S) = Cardinality(S)
  /\ \A q : Charts!ToSet(q) = {q[i] : i \in DOMAIN q}
  BY DEF Charts!Cardinality, Cardinality, Charts!ToSet

\* The points of a series have their types.
LEMMA Points ==
  ASSUME Charts!ChartAssumption, Charts!TypeOK, NEW m \in Metrics
  PROVE  /\ s1[m] \in Seq(Charts!Point)
         /\ DOMAIN s1[m] = 1..Len(s1[m]) /\ Len(s1[m]) \in Nat
         /\ \A i \in DOMAIN s1[m] :
              /\ s1[m][i].t \in 1..MaxTime /\ s1[m][i].v \in 0..MaxValue
              /\ s1[m][i].v \in Nat /\ s1[m][i].t \in Nat
              /\ s1[m][i] = [t |-> s1[m][i].t, v |-> s1[m][i].v]
  <1>1. s1[m] \in Seq(Charts!Point)
    BY DEF Charts!TypeOK
  <1>2. \A i \in DOMAIN s1[m] : s1[m][i] \in Charts!Point
    BY <1>1
  <1>3. \A p \in Charts!Point :
          /\ p.t \in 1..MaxTime /\ p.v \in 0..MaxValue
          /\ p.v \in Nat /\ p.t \in Nat
          /\ p = [t |-> p.t, v |-> p.v]
    BY DEF Charts!Point, Charts!ChartAssumption
  <1> QED BY <1>1, <1>2, <1>3

\* The axis of some metrics has each of their times at one place.
LEMMA AxisHasTheTimes ==
  ASSUME Charts!ChartAssumption, Charts!TypeOK, NEW ms \in SUBSET Metrics
  PROVE  LET axis == Charts!BuildAxis(ms)
         IN \A m \in ms : \A j \in DOMAIN s1[m] :
              \E i \in DOMAIN axis : axis[i] = s1[m][j].t
  <1> DEFINE axis == Charts!BuildAxis(ms)
             times == UNION {Charts!Times(s1[m]) : m \in ms}
             n == Charts!Cardinality(times)
             Below(t) == {u \in times : u < t}
  <1>1. /\ \A m \in ms : \A j \in DOMAIN s1[m] : s1[m][j].t \in times
        /\ times \in SUBSET (1..MaxTime)
    <2>1. \A m \in ms : Charts!Times(s1[m]) \subseteq 1..MaxTime
      BY Points DEF Charts!Times
    <2> QED BY <2>1 DEF Charts!Times
  <1>2. IsFiniteSet(times) /\ times \in SUBSET Nat
    <2>1. MaxTime \in Nat
      BY DEF Charts!ChartAssumption
    <2>2. IsFiniteSet(1..MaxTime) /\ 1..MaxTime \subseteq Nat
      BY <2>1, CountTo
    <2> HIDE DEF times
    <2> QED BY <1>1, <2>2, FS_Subset
  <1>3. axis = [i \in 1..n |->
                  CHOOSE t \in times : Charts!Cardinality(Below(t)) = i - 1]
    BY DEF Charts!BuildAxis
  <1> HIDE DEF times, axis
  <1>4. /\ n \in Nat
        /\ \A i \in 1..n : \E t \in times : Charts!Cardinality(Below(t)) = i - 1
        /\ \A t \in times : Charts!Cardinality(Below(t)) + 1 \in 1..n
        /\ \A t, u \in times :
             Charts!Cardinality(Below(t)) = Charts!Cardinality(Below(u))
               => t = u
    BY <1>2, Ranked, ChartsMeans DEF n, Below
  <1> HIDE DEF n, Below
  <1>5. ASSUME NEW t \in times
        PROVE  \E i \in DOMAIN axis : axis[i] = t
    <2> DEFINE i == Charts!Cardinality(Below(t)) + 1
    <2>1. i \in 1..n
      BY <1>4
    <2>2. Charts!Cardinality(Below(t)) = i - 1
      <3>1. Below(t) \in SUBSET times
        BY DEF Below
      <3>2. Cardinality(Below(t)) \in Nat
        BY <1>2, <3>1, FS_Subset, FS_CardinalityType
      <3> QED BY <3>2, ChartsMeans
    <2> HIDE DEF i
    <2>3. axis[i] \in times /\ Charts!Cardinality(Below(axis[i])) = i - 1
      BY <1>3, <1>4, <2>1
    <2>4. axis[i] = t
      BY <1>4, <2>2, <2>3
    <2> QED BY <1>3, <2>1, <2>4
  <1> QED BY <1>1, <1>5 DEF axis

\* A series has one point at a time.
LEMMA OnePoint ==
  ASSUME Charts!ChartAssumption, Charts!ChartInv, NEW m \in Metrics,
         NEW j \in DOMAIN s1[m], NEW time, s1[m][j].t = time
  PROVE  /\ {k \in DOMAIN s1[m] : s1[m][k].t = time} = {j}
         /\ Charts!Max({j}) = j
  <1>1. \A k \in DOMAIN s1[m] : k \in Nat /\ s1[m][k].t \in Nat
    <2>1. Charts!TypeOK
      BY DEF Charts!ChartInv
    <2>2. DOMAIN s1[m] = 1..Len(s1[m]) /\ Len(s1[m]) \in Nat
      BY <2>1, Points
    <2>3. \A k \in DOMAIN s1[m] : s1[m][k].t \in Nat
      BY <2>1, Points
    <2> QED BY <2>2, <2>3
  <1>2. \A k \in DOMAIN s1[m] : s1[m][k].t = time => k = j
    <2>1. \A i, k \in DOMAIN s1[m] : i < k => s1[m][i].t < s1[m][k].t
      BY DEF Charts!ChartInv, Charts!TimesIncrease
    <2> QED BY <1>1, <2>1
  <1>3. Charts!Max({j}) = j
    BY <1>1 DEF Charts!Max
  <1> QED BY <1>2, <1>3

\* A line that is aligned to its axis has the points of its series.
LEMMA LineIsTheSeries ==
  ASSUME Charts!ChartAssumption, Charts!ChartInv,
         NEW ms \in SUBSET Metrics, NEW m \in ms
  PROVE  LET axis == Charts!BuildAxis(ms)
         IN Charts!Plotted(axis, Charts!AlignToAxis(axis, s1[m]))
              = Charts!ToSet(s1[m])
  <1> DEFINE axis == Charts!BuildAxis(ms)
             line == Charts!AlignToAxis(axis, s1[m])
             At(i) == {j \in DOMAIN s1[m] : s1[m][j].t = axis[i]}
  <1>0. Charts!TypeOK
    BY DEF Charts!ChartInv
  <1>1. \A j \in DOMAIN s1[m] : \E i \in DOMAIN axis : axis[i] = s1[m][j].t
    BY <1>0, AxisHasTheTimes
  <1>2. /\ DOMAIN line = DOMAIN axis
        /\ \A i \in DOMAIN axis :
             line[i] = IF At(i) = {} THEN Charts!Gap
                       ELSE s1[m][Charts!Max(At(i))].v
    BY DEF Charts!AlignToAxis
  <1> HIDE DEF axis, line
  <1>3. ASSUME NEW i \in DOMAIN axis, NEW j \in DOMAIN s1[m],
               s1[m][j].t = axis[i]
        PROVE  /\ line[i] = s1[m][j].v /\ line[i] # Charts!Gap
               /\ [t |-> axis[i], v |-> line[i]] = s1[m][j]
    <2>1. At(i) = {j} /\ Charts!Max(At(i)) = j
      <3>1. m \in Metrics
        OBVIOUS
      <3> QED BY <1>3, <3>1, OnePoint
    <2>2. line[i] = s1[m][j].v
      BY <1>2, <2>1
    <2>3. /\ s1[m][j].v \in Nat
          /\ s1[m][j] = [t |-> s1[m][j].t, v |-> s1[m][j].v]
      BY <1>0, Points
    <2>4. line[i] # Charts!Gap
      BY <2>2, <2>3 DEF Charts!Gap
    <2> QED BY <1>3, <2>2, <2>3, <2>4
  <1>4. ASSUME NEW i \in DOMAIN axis, line[i] # Charts!Gap
        PROVE  \E j \in DOMAIN s1[m] : s1[m][j].t = axis[i]
    BY <1>2, <1>4
  <1>5. ASSUME NEW p \in Charts!Plotted(axis, line)
        PROVE  p \in Charts!ToSet(s1[m])
    <2>1. PICK i \in DOMAIN axis :
            p = [t |-> axis[i], v |-> line[i]] /\ line[i] # Charts!Gap
      BY <1>5 DEF Charts!Plotted
    <2>2. PICK j \in DOMAIN s1[m] : s1[m][j].t = axis[i]
      BY <1>4, <2>1
    <2>3. p = s1[m][j]
      BY <1>3, <2>1, <2>2
    <2> QED BY <2>3, ChartsMeans
  <1>6. ASSUME NEW p \in Charts!ToSet(s1[m])
        PROVE  p \in Charts!Plotted(axis, line)
    <2>1. PICK j \in DOMAIN s1[m] : p = s1[m][j]
      BY <1>6, ChartsMeans
    <2>2. PICK i \in DOMAIN axis : axis[i] = s1[m][j].t
      BY <1>1
    <2>3. p = [t |-> axis[i], v |-> line[i]] /\ line[i] # Charts!Gap
      BY <1>3, <2>1, <2>2
    <2> QED BY <2>3 DEF Charts!Plotted
  <1> QED BY <1>5, <1>6 DEF axis, line

\* The two charts have the lines of all series.
LEMMA LinesAreRight ==
  ASSUME Charts!ChartAssumption, Charts!ChartInv
  PROVE  Charts!LinesAreTheSeries
  <1>1. s2 \subseteq Metrics
    BY DEF Charts!ChartInv, Charts!TypeOK
  <1>2. Charts!BoolMetrics \in SUBSET Metrics
        /\ Charts!AnalogMetrics \in SUBSET Metrics
    BY <1>1 DEF Charts!BoolMetrics, Charts!AnalogMetrics
  <1> QED BY <1>2, LineIsTheSeries
          DEF Charts!LinesAreTheSeries, Charts!TrendLine, Charts!StateLine

\* A value is counted by the bar between whose bounds it is, and by one only.
LEMMA BinBounds ==
  ASSUME Charts!ChartAssumption, NEW low \in Nat, NEW high \in Nat, low < high,
         NEW v \in Nat, low <= v, v <= high
  PROVE  /\ Charts!BinOf(v, low, high) \in 0..Bins - 1
         /\ \A b \in 1..Bins :
              LET scaled == (v - low) * Bins
                  width == high - low
              IN Charts!BinOf(v, low, high) = b - 1
                   <=> /\ (b - 1) * width <= scaled
                       /\ scaled < b * width
                            \/ (b = Bins /\ scaled = b * width)
  <1> DEFINE s == (v - low) * Bins
             w == high - low
             q == s \div w
             bin == Charts!BinOf(v, low, high)
  <1>1. w \in Nat \ {0} /\ Bins \in Nat \ {0} /\ v - low \in Nat /\ v - low <= w
    BY DEF Charts!ChartAssumption
  <1>2. s \in Nat
    BY <1>1
  <1>3. s <= Bins * w
    <2>1. (v - low) * Bins <= w * Bins
      BY <1>1, Products
    <2>2. w * Bins = Bins * w
      BY <1>1
    <2> QED BY <2>1, <2>2
  <1>4. bin = IF q >= Bins THEN Bins - 1 ELSE q
    BY DEF Charts!BinOf
  <1> HIDE DEF s, w, q, bin
  <1>5. q \in Nat /\ q * w <= s /\ s < (q + 1) * w
    BY <1>1, <1>2, Quotient DEF q
  <1>6. bin \in 0..Bins - 1
    BY <1>1, <1>4, <1>5
  <1>7. ASSUME NEW b \in 1..Bins
        PROVE  bin = b - 1 <=> /\ (b - 1) * w <= s
                               /\ s < b * w \/ (b = Bins /\ s = b * w)
    <2>0. /\ b \in Int /\ b - 1 \in Int /\ q \in Int /\ q + 1 \in Int
          /\ Bins \in Int
          /\ 1 <= b /\ b <= Bins
      BY <1>1, <1>5
    <2>1. CASE q >= Bins
      <3>1. Bins * w <= q * w /\ Bins * w \in Int /\ q * w \in Int
        BY <1>1, <2>0, <2>1, Products
      <3>2. s = Bins * w
        BY <1>2, <1>3, <1>5, <3>1
      <3>3. (Bins - 1) * w <= Bins * w
        BY <1>1, <2>0, Products
      <3>4. ~(Bins * w < b * w)
        BY <1>1, <2>0, Products
      <3> QED BY <1>4, <2>0, <2>1, <3>2, <3>3, <3>4
    <2>2. CASE ~(q >= Bins)
      <3>1. bin = q
        BY <1>4, <2>2
      <3>2. q = b - 1 => (b - 1) * w <= s /\ s < b * w
        BY <1>5, <2>0
      <3>3. ASSUME (b - 1) * w <= s, s < b * w
            PROVE  q = b - 1
        <4>1. q * w < b * w /\ (b - 1) * w < (q + 1) * w
          <5>1. /\ q * w \in Int /\ b * w \in Int
                /\ (b - 1) * w \in Int /\ (q + 1) * w \in Int
            BY <1>1, <2>0, Products
          <5> QED BY <1>2, <1>5, <3>3, <5>1
        <4>2. q < b /\ b - 1 < q + 1
          BY <1>1, <2>0, <4>1, Products
        <4> QED BY <2>0, <4>2
      <3>4. ~(s = Bins * w)
        <4>1. q + 1 <= Bins
          BY <2>0, <2>2
        <4>2. /\ (q + 1) * w <= Bins * w
              /\ (q + 1) * w \in Int /\ Bins * w \in Int
          BY <1>1, <2>0, <4>1, Products
        <4> QED BY <1>2, <1>5, <4>2
      <3> QED BY <3>1, <3>2, <3>3, <3>4
    <2> QED BY <2>1, <2>2
  <1> QED BY <1>6, <1>7 DEF s, w, bin

\* The least and the greatest value of a series that is not empty.
LEMMA Bounds ==
  ASSUME Charts!ChartAssumption, Charts!TypeOK, NEW m \in Metrics, s1[m] # <<>>
  PROVE  LET low == Charts!Min(Charts!Values(s1[m]))
             high == Charts!Max(Charts!Values(s1[m]))
         IN /\ low \in Nat /\ high \in Nat /\ low <= high
            /\ \A i \in DOMAIN s1[m] :
                 s1[m][i].v \in Nat /\ low <= s1[m][i].v /\ s1[m][i].v <= high
  <1> DEFINE vs == Charts!Values(s1[m])
  <1>1. vs \in SUBSET (0..MaxValue) /\ MaxValue \in Nat
    <2>1. \A i \in DOMAIN s1[m] : s1[m][i].v \in 0..MaxValue
      BY Points, Zenon
    <2> QED BY <2>1 DEF Charts!Values, Charts!ChartAssumption
  <1>2. vs # {}
    <2>1. DOMAIN s1[m] # {}
      <3>1. s1[m] \in Seq(Charts!Point)
        BY Points
      <3>2. DOMAIN s1[m] = 1..Len(s1[m]) /\ Len(s1[m]) \in Nat \ {0}
        BY <3>1
      <3>3. 1 \in 1..Len(s1[m])
        BY <3>2
      <3> QED BY <3>2, <3>3
    <2> QED BY <2>1 DEF Charts!Values
  <1>3. \A i \in DOMAIN s1[m] : s1[m][i].v \in vs
    BY DEF Charts!Values
  <1> HIDE DEF vs
  <1>4. \A x \in vs : x \in Nat
    BY <1>1
  <1>5. Charts!Min(vs) \in vs /\ \A y \in vs : Charts!Min(vs) <= y
    <2>1. \E x \in vs : \A y \in vs : x <= y
      BY <1>2, <1>4, LeastNumber
    <2> QED BY <2>1 DEF Charts!Min
  <1>6. Charts!Max(vs) \in vs /\ \A y \in vs : Charts!Max(vs) >= y
    <2>1. \E x \in vs : \A y \in vs : x >= y
      BY <1>1, <1>2, GreatestNumber
    <2> QED BY <2>1 DEF Charts!Max
  <1>7. \A x, y \in Nat : x >= y => y <= x
    OBVIOUS
  <1> QED BY <1>3, <1>4, <1>5, <1>6, <1>7 DEF vs

\* The bars count the values between their bounds, and each value once.
LEMMA BarsAreRight ==
  ASSUME Charts!ChartAssumption, Charts!TypeOK
  PROVE  Charts!BarsCountTheSeries
  <1> SUFFICES ASSUME NEW m \in Metrics
               PROVE  LET pts == s1[m]
                          bars == Charts!Histogram(pts)
                          stats == Charts!StatsOf(pts)
                          width == stats.max - stats.min
                      IN /\ Sum(bars) = stats.count
                         /\ \A b \in DOMAIN bars : Len(bars) > 1 =>
                              bars[b] = Charts!Cardinality({i \in DOMAIN pts :
                                LET scaled == (pts[i].v - stats.min) * Bins
                                IN /\ (b - 1) * width <= scaled
                                   /\ scaled < b * width
                                        \/ (b = Bins /\ scaled = b * width)})
    BY Zenon DEF Charts!BarsCountTheSeries, Sum
  <1> DEFINE pts == s1[m]
             bars == Charts!Histogram(pts)
             stats == Charts!StatsOf(pts)
             low == Charts!Min(Charts!Values(pts))
             high == Charts!Max(Charts!Values(pts))
             width == stats.max - stats.min
             Between(i, b) ==
               LET scaled == (pts[i].v - stats.min) * Bins
               IN /\ (b - 1) * width <= scaled
                  /\ scaled < b * width \/ (b = Bins /\ scaled = b * width)
             Bin(i) == Charts!BinOf(pts[i].v, low, high)
  <1>0. /\ pts \in Seq(Charts!Point) /\ Len(pts) \in Nat
        /\ DOMAIN pts = 1..Len(pts)
    BY Points
  <1>1. CASE pts = <<>>
    <2>1. bars = <<>> /\ stats.count = 0
      BY <1>1 DEF Charts!Histogram, Charts!StatsOf, Charts!NoStats
    <2>2. DOMAIN bars = 1..0 /\ Len(bars) = 0 /\ DOMAIN bars = {}
      BY <2>1
    <2> DEFINE part == [k \in 0..0 |-> 0]
    <2>3. part[0] = 0 /\ \A k \in 1..0 : part[k] = part[k - 1] + bars[k]
      OBVIOUS
    <2> HIDE DEF bars, part
    <2>4. Sum(bars) = part[0]
      BY <2>2, <2>3, SumIs
    <2>5. Sum(bars) = stats.count
      BY <2>1, <2>3, <2>4, Zenon
    <2> QED BY <2>2, <2>5, Zenon DEF bars
  <1>2. CASE pts # <<>>
    <2>1. /\ low \in Nat /\ high \in Nat /\ low <= high
          /\ \A i \in DOMAIN pts :
               pts[i].v \in Nat /\ low <= pts[i].v /\ pts[i].v <= high
      BY <1>2, Bounds
    <2>2. stats.count = Len(pts) /\ stats.min = low /\ stats.max = high
      BY <1>2 DEF Charts!StatsOf
    <2>3. bars = IF low = high THEN <<Len(pts)>>
                 ELSE [b \in 1..Bins |-> Charts!Cardinality(
                         {i \in DOMAIN pts : Bin(i) = b - 1})]
      BY <1>2 DEF Charts!Histogram
    <2> HIDE DEF bars, stats, low, high
    <2>4. CASE low = high
      <3>1. /\ bars = <<Len(pts)>> /\ DOMAIN bars = 1..1 /\ Len(bars) = 1
            /\ bars[1] = Len(pts)
        BY <2>3, <2>4
      <3> DEFINE part == [k \in 0..1 |-> IF k = 0 THEN 0 ELSE Len(pts)]
      <3>2. /\ part[0] = 0 /\ part[1] = Len(pts)
            /\ \A k \in 1..1 : part[k] = part[k - 1] + bars[k]
        BY <1>0, <3>1
      <3> HIDE DEF part
      <3> DEFINE one == 1
      <3>3. /\ one \in Nat /\ DOMAIN bars = 1..one /\ part[0] = 0
            /\ \A k \in 1..one : part[k] = part[k - 1] + bars[k]
        BY <3>1, <3>2
      <3> HIDE DEF one
      <3>4. Sum(bars) = part[one]
        BY <3>3, SumIs
      <3>5. Sum(bars) = stats.count
        BY <2>2, <3>2, <3>4, Zenon DEF one
      <3>6. ~(Len(bars) > 1)
        BY <3>1
      <3> QED BY <3>5, <3>6, Zenon DEF bars, stats
    <2>5. CASE low # high
      <3>0. Bins \in Nat /\ low < high
        BY <2>1, <2>5 DEF Charts!ChartAssumption
      <3>1. /\ DOMAIN bars = 1..Bins
            /\ \A b \in 1..Bins :
                 bars[b] = Cardinality({i \in DOMAIN pts : Bin(i) = b - 1})
        BY <2>3, <2>5, ChartsMeans
      <3>2. \A i \in DOMAIN pts :
              Bin(i) \in 0..Bins - 1
                /\ \A b \in 1..Bins : Bin(i) = b - 1 <=> Between(i, b)
        <4> SUFFICES ASSUME NEW i \in DOMAIN pts
                     PROVE  Bin(i) \in 0..Bins - 1
                              /\ \A b \in 1..Bins :
                                   Bin(i) = b - 1 <=> Between(i, b)
          OBVIOUS
        <4>1. pts[i].v \in Nat /\ low <= pts[i].v /\ pts[i].v <= high
          BY <2>1
        <4>2. /\ Bin(i) \in 0..Bins - 1
              /\ \A b \in 1..Bins :
                   LET scaled == (pts[i].v - low) * Bins
                   IN Bin(i) = b - 1
                        <=> /\ (b - 1) * (high - low) <= scaled
                            /\ scaled < b * (high - low)
                                 \/ (b = Bins /\ scaled = b * (high - low))
          BY <2>1, <3>0, <4>1, BinBounds
        <4> HIDE DEF Bin
        <4> QED BY <2>2, <4>2
      <3> HIDE DEF Bin, Between
      <3>3. \A b \in 1..Bins : bars[b] = Charts!Cardinality(
                                 {i \in DOMAIN pts : Between(i, b)})
        <4>1. \A b \in 1..Bins : {i \in DOMAIN pts : Bin(i) = b - 1}
                                   = {i \in DOMAIN pts : Between(i, b)}
          BY <3>2
        <4> QED BY <3>1, <4>1, ChartsMeans
      <3> DEFINE Below(k) == {i \in DOMAIN pts : Bin(i) < k}
                 part == [k \in 0..Bins |-> Cardinality(Below(k))]
      <3>4. IsFiniteSet(DOMAIN pts) /\ Cardinality(DOMAIN pts) = Len(pts)
        BY <1>0, CountTo
      <3>5. part[0] = 0
        <4>1. Below(0) = {}
          BY <3>2
        <4> QED BY <3>0, <4>1, FS_EmptySet
      <3>6. part[Bins] = Len(pts)
        <4>1. Below(Bins) = DOMAIN pts
          BY <3>0, <3>2
        <4>2. part[Bins] = Cardinality(Below(Bins))
          BY <3>0
        <4> HIDE DEF part, Below
        <4> QED BY <3>4, <4>1, <4>2
      <3>7. ASSUME NEW k \in 1..Bins
            PROVE  part[k] = part[k - 1] + bars[k]
        <4> DEFINE here == {i \in DOMAIN pts : Bin(i) = k - 1}
        <4>1. /\ Below(k) = Below(k - 1) \cup here
              /\ Below(k - 1) \cap here = {}
              /\ Below(k - 1) \in SUBSET DOMAIN pts
              /\ here \in SUBSET DOMAIN pts
          BY <3>0, <3>2
        <4>2. /\ part[k] = Cardinality(Below(k))
              /\ part[k - 1] = Cardinality(Below(k - 1))
              /\ bars[k] = Cardinality(here)
          BY <3>0, <3>1
        <4> HIDE DEF Below, here, part
        <4>3. IsFiniteSet(Below(k - 1)) /\ IsFiniteSet(here)
          BY <3>4, <4>1, FS_Subset
        <4>4. Cardinality(Below(k)) = Cardinality(Below(k - 1))
                + Cardinality(here) - Cardinality({})
          BY <4>1, <4>3, FS_Union
        <4>5. /\ Cardinality(Below(k - 1)) \in Nat /\ Cardinality(here) \in Nat
              /\ Cardinality({}) = 0
          BY <4>3, FS_CardinalityType, FS_EmptySet
        <4> QED BY <4>2, <4>4, <4>5
      <3> HIDE DEF part
      <3>8. Sum(bars) = part[Bins]
        BY <3>0, <3>1, <3>5, <3>7, SumIs
      <3>9. Sum(bars) = stats.count
        BY <2>2, <3>6, <3>8, Zenon
      <3> QED BY <3>1, <3>3, <3>9, Zenon DEF bars, stats, Between
    <2> QED BY <2>4, <2>5
  <1> QED BY <1>1, <1>2, Zenon

\* A point that comes is later than those that are there.
LEMMA PointComes ==
  ASSUME Charts!ChartAssumption, Charts!ChartInv,
         NEW m \in Metrics, NEW p \in Charts!Point,
         s1[m] # <<>> => Charts!Last(s1[m]).t < p.t,
         s1' = [s1 EXCEPT ![m] = Append(@, p)],
         s2' = s2
  PROVE  Charts!ChartInv'
  <1>0. Charts!TypeOK
    BY DEF Charts!ChartInv
  <1>1. /\ s1 \in [Metrics -> Seq(Charts!Point)] /\ s1[m] \in Seq(Charts!Point)
        /\ Len(s1[m]) \in Nat
    BY <1>0 DEF Charts!TypeOK
  <1> DEFINE q == Append(s1[m], p)
             n == Len(s1[m])
  <1>2. /\ q \in Seq(Charts!Point) /\ DOMAIN q = 1..n + 1 /\ DOMAIN s1[m] = 1..n
        /\ q[n + 1] = p /\ \A i \in 1..n : q[i] = s1[m][i]
    BY <1>1
  <1>3. s1' \in [Metrics -> Seq(Charts!Point)] /\ s1'[m] = q
        /\ \A k \in Metrics \ {m} : s1'[k] = s1[k]
    BY <1>1, <1>2
  <1> HIDE DEF q
  <1>4. Charts!TypeOK'
    BY <1>0, <1>3 DEF Charts!TypeOK
  <1>5. \A i, j \in 1..n : i < j => s1[m][i].t < s1[m][j].t
    BY <1>2 DEF Charts!ChartInv, Charts!TimesIncrease
  <1>6. \A i \in 1..n : s1[m][i].t \in Nat
    BY <1>0, <1>2, Points
  <1>7. p.t \in Nat
    BY DEF Charts!Point, Charts!ChartAssumption
  <1>8. \A i \in 1..n : s1[m][i].t < p.t
    <2> SUFFICES ASSUME NEW i \in 1..n
                 PROVE  s1[m][i].t < p.t
      OBVIOUS
    <2>1. n \in 1..n /\ s1[m] # <<>>
      BY <1>1
    <2>2. s1[m][n].t < p.t
      BY <2>1 DEF Charts!Last
    <2>3. s1[m][i].t < s1[m][n].t \/ i = n
      BY <1>1, <1>5, <2>1
    <2> QED BY <1>6, <1>7, <2>1, <2>2, <2>3
  <1> HIDE DEF n
  <1>9. ASSUME NEW i \in 1..n + 1, NEW j \in 1..n + 1, i < j
        PROVE  q[i].t < q[j].t
    <2>0. n \in Nat
      BY <1>1 DEF n
    <2>1. i \in 1..n
      BY <1>9, <2>0
    <2>2. CASE j \in 1..n
      BY <1>2, <1>5, <1>9, <2>1, <2>2
    <2>3. CASE j = n + 1
      BY <1>2, <1>8, <2>1, <2>3
    <2> QED BY <2>0, <2>2, <2>3
  <1>10. Charts!TimesIncrease'
    <2> SUFFICES ASSUME NEW k \in Metrics
                 PROVE  \A i, j \in DOMAIN s1'[k] :
                          i < j => s1'[k][i].t < s1'[k][j].t
      BY DEF Charts!TimesIncrease
    <2>1. CASE k = m
      BY <1>2, <1>3, <1>9, <2>1
    <2>2. CASE k # m
      BY <1>3, <2>2 DEF Charts!ChartInv, Charts!TimesIncrease
    <2> QED BY <2>1, <2>2
  <1> QED BY <1>4, <1>10 DEF Charts!ChartInv

\* Every load and every classification keeps the series in order.
LEMMA ChartStep ==
  ASSUME Charts!ChartAssumption, Charts!ChartInv,
         [Charts!Next]_(Charts!chartVars)
  PROVE  Charts!ChartInv'
  <1>1. CASE Charts!Load
    <2>1. CASE s1' = [m \in Metrics |-> <<>>]
      <3>1. /\ [m \in Metrics |-> <<>>] \in [Metrics -> Seq(Charts!Point)]
            /\ \A m \in Metrics : DOMAIN s1'[m] = {}
        BY <2>1
      <3> QED BY <1>1, <2>1, <3>1
              DEF Charts!Load, Charts!ChartInv, Charts!TypeOK,
                  Charts!TimesIncrease
    <2>2. CASE s1' # [m \in Metrics |-> <<>>]
      <3>1. PICK m \in Metrics, p \in Charts!Point :
              /\ s1[m] # <<>> => Charts!Last(s1[m]).t < p.t
              /\ s1' = [s1 EXCEPT ![m] = Append(@, p)]
        BY <1>1, <2>2 DEF Charts!Load
      <3> QED BY <1>1, <3>1, PointComes DEF Charts!Load
    <2> QED BY <2>1, <2>2
  <1>2. CASE Charts!Classify
    BY <1>2
    DEF Charts!Classify, Charts!ChartInv, Charts!TypeOK, Charts!TimesIncrease
  <1>3. CASE UNCHANGED Charts!chartVars
    BY <1>3
    DEF Charts!chartVars, Charts!ChartInv, Charts!TypeOK, Charts!TimesIncrease
  <1> QED BY <1>1, <1>2, <1>3 DEF Charts!Next

\* Without series the charts are in order.
LEMMA ChartInit ==
  ASSUME Charts!Init
  PROVE  Charts!ChartInv
  <1>1. \A m \in Metrics : s1[m] = <<>> /\ DOMAIN s1[m] = {}
    BY DEF Charts!Init
  <1> QED BY <1>1
          DEF Charts!Init, Charts!ChartInv, Charts!TypeOK, Charts!TimesIncrease

\* The invariant of the charts holds in every behaviour.
THEOREM ChartsInvariant == PagesSpec => [](view = "charts" => Charts!ChartInv)
  <1> DEFINE Inv == view = "charts" => Charts!ChartInv
  <1>0. PagesInit => Inv
    BY ChartInit DEF PagesInit
  <1>1. ASSUME Inv, [PagesNext]_pagesVars
        PROVE  Inv'
    <2>1. view' = view
      BY <1>1 DEF PagesNext, pagesVars
    <2>2. view = "charts" => [Charts!Next]_(Charts!chartVars)
      BY <1>1
      DEF PagesNext, Step, pagesVars, shared, analytics, Charts!chartVars
    <2> QED BY <1>1, <2>1, <2>2, ChartStep, PagesAssumption
            DEF PagesAssumption
  <1> QED BY <1>0, <1>1, PTL DEF PagesSpec

\* Each metric is drawn in one of the two charts, with each of its points at
\* the place of its time and nothing else, and its histogram counts each of
\* its values once (Analytics.jsx:96-99 and histogram).
THEOREM ChartsAreRight == PagesSpec => []ChartsShowTheSeries
  <1>1. (view = "charts" => Charts!ChartInv) => ChartsShowTheSeries
    BY LinesAreRight, BarsAreRight, PagesAssumption
    DEF ChartsShowTheSeries, PagesAssumption, Charts!ChartInv
  <1> QED BY <1>1, ChartsInvariant, PTL

-----------------------------------------------------------------------------
(* The timeline.                                                           *)
(* Here s1 is plan, s2 enabled, s3 now, s4 last.                           *)

\* What the clock and the plans are.
LEMMA ClockFacts ==
  ASSUME Timeline!ClockAssumption, Timeline!TypeOK
  PROVE  /\ DayLength \in Nat \ {0} /\ Days \in Nat \ {0}
         /\ Upcoming \in Nat \ {0} /\ s3 \in Nat
         /\ \A s \in Schedules :
              /\ s \in Nat /\ s1[s] \in Plans
              /\ s1[s].kind \in {"schedule", "cycle", "duration"}
              /\ s1[s].on \in Nat /\ s1[s].off \in Nat
              /\ s1[s].days \subseteq 0..Days - 1
              /\ s1[s].kind = "schedule"
                   => s1[s].on < DayLength /\ s1[s].off < DayLength
              /\ s1[s].kind = "cycle" => s1[s].on > 0 /\ s1[s].off > 0
  <1>1. /\ DayLength \in Nat \ {0} /\ Days \in Nat \ {0}
        /\ Upcoming \in Nat \ {0} /\ s3 \in Nat
    BY DEF Timeline!ClockAssumption, Timeline!TypeOK
  <1>2. \A s \in Schedules : s \in Nat /\ s1[s] \in Plans
    BY DEF Timeline!ClockAssumption, Timeline!TypeOK
  <1> QED BY <1>1, <1>2 DEF Timeline!ClockAssumption

\* A window changes at its two times and at no other.
LEMMA WindowChanges ==
  ASSUME NEW p, p.on \in Nat, p.off \in Nat, NEW d \in Nat \ {0},
         p.on < d, p.off < d, p.on # p.off,
         NEW t \in 0..d - 1, NEW u \in 0..d - 1,
         u = t + 1 \/ (u = 0 /\ t = d - 1)
  PROVE  /\ (Timeline!InWindow(p, u) <=> ~Timeline!InWindow(p, t))
              <=> u \in {p.on, p.off}
         /\ u = p.on => Timeline!InWindow(p, u)
         /\ u = p.off => ~Timeline!InWindow(p, u)
  BY DEF Timeline!InWindow

\* A runner changes its output at the times of its window, on its days.
LEMMA EngineChanges ==
  ASSUME Timeline!ClockAssumption, Timeline!TimelineInv, Timeline!Tick,
         NEW s \in Schedules, s2[s], s1[s].kind = "schedule",
         s1[s].on # s1[s].off, s4[s] # "none"
  PROVE  LET p == s1[s]
             time == s3' % DayLength
         IN /\ s4'[s] # s4[s]
                 <=> /\ Timeline!DayActive(p, s3' \div DayLength)
                     /\ time \in {p.on, p.off}
            /\ s4'[s] # s4[s] =>
                 s4'[s] = IF time = p.on THEN "on" ELSE "off"
  <1> DEFINE p == s1[s]
             d == DayLength
             day == s3 \div d
             next == s3' \div d
             time == s3' % d
             before == IF Timeline!DayActive(p, day) THEN s3 % d ELSE d - 1
  <1>0. /\ d \in Nat \ {0} /\ s3 \in Nat /\ s3' = s3 + 1 /\ s3' \in Nat
        /\ p.on \in Nat /\ p.off \in Nat /\ p.on < d /\ p.off < d
    <2>1. Timeline!TypeOK
      BY DEF Timeline!TimelineInv
    <2> QED BY <2>1, ClockFacts DEF Timeline!Tick
  <1>1. s4[s] = IF Timeline!InWindow(p, before) THEN "on" ELSE "off"
    BY DEF Timeline!TimelineInv, Timeline!LastIsDue, Timeline!Due
  <1>2. s4'[s] = Timeline!Eval(p, s3', s4[s])
    BY DEF Timeline!Tick
  <1>3. s4'[s] = IF Timeline!DayActive(p, next)
                 THEN IF Timeline!InWindow(p, time) THEN "on" ELSE "off"
                 ELSE s4[s]
    BY <1>2 DEF Timeline!Eval
  <1>4. s3 % d \in 0..d - 1 /\ time \in 0..d - 1
    BY <1>0, Division
  <1>5. \/ next = day /\ time = (s3 % d) + 1
        \/ time = 0 /\ s3 % d = d - 1
    BY <1>0, NextMoment
  <1>6. before \in 0..d - 1
    BY <1>0, <1>4
  <1>7. Timeline!DayActive(p, next) =>
          time = before + 1 \/ (time = 0 /\ before = d - 1)
    BY <1>5
  <1> HIDE DEF p, d, day, next, time, before
  <1>8. Timeline!DayActive(p, next) =>
          /\ (Timeline!InWindow(p, time) <=> ~Timeline!InWindow(p, before))
               <=> time \in {p.on, p.off}
          /\ time = p.on => Timeline!InWindow(p, time)
          /\ time = p.off => ~Timeline!InWindow(p, time)
    <2>1. p.on # p.off
      BY DEF p
    <2> QED BY <1>0, <1>4, <1>6, <1>7, <2>1, WindowChanges
  <1>9. /\ s4'[s] # s4[s] <=> /\ Timeline!DayActive(p, next)
                              /\ time \in {p.on, p.off}
        /\ s4'[s] # s4[s] => s4'[s] = IF time = p.on THEN "on" ELSE "off"
    BY <1>1, <1>3, <1>8
  <1> QED BY <1>9 DEF p, d, next, time

\* The times that the page finds are times of the schedule, after now; there
\* is one at most; and the next moment is found if it is one.
LEMMA TimesFound ==
  ASSUME Timeline!ClockAssumption, Timeline!TypeOK,
         NEW time \in Nat, time < DayLength, NEW days \in SUBSET (0..Days - 1)
  PROVE  LET Active(day) == days = {} \/ day % Days \in days
         IN /\ \A t \in Timeline!NextHHMM(time, days) :
                 /\ t \in Nat /\ t > s3
                 /\ t % DayLength = time /\ Active(t \div DayLength)
            /\ \A t, u \in Timeline!NextHHMM(time, days) : t = u
            /\ ((s3 + 1) % DayLength = time /\ Active((s3 + 1) \div DayLength))
                 => s3 + 1 \in Timeline!NextHHMM(time, days)
  <1> DEFINE d == DayLength
             today == s3 \div d
             Active(day) == days = {} \/ day % Days \in days
             at == {(today + add) * d + time :
                      add \in {a \in 0..Days :
                                 days = {} \/ (today + a) % Days \in days}}
  <1>0. d \in Nat \ {0} /\ Days \in Nat \ {0} /\ s3 \in Nat /\ today \in Nat
        /\ time \in 0..d - 1
    <2>1. d \in Nat \ {0} /\ Days \in Nat \ {0} /\ s3 \in Nat
      BY ClockFacts
    <2> QED BY <2>1, Division
  <1>1. Timeline!NextHHMM(time, days)
          = {t \in at : t > s3 /\ \A u \in at : u > s3 => t <= u}
    BY DEF Timeline!NextHHMM
  <1>2. \A t \in at : \E a \in 0..Days :
          Active(today + a) /\ t = (today + a) * d + time
    OBVIOUS
  <1>3. \A a \in 0..Days : Active(today + a) => (today + a) * d + time \in at
    OBVIOUS
  <1> HIDE DEF at
  <1>4. ASSUME NEW t \in at
        PROVE  t \in Nat /\ t % d = time /\ Active(t \div d)
    <2>1. PICK a \in 0..Days : Active(today + a) /\ t = (today + a) * d + time
      BY <1>2
    <2>2. today + a \in Nat
      BY <1>0
    <2> DEFINE q == today + a
    <2> HIDE DEF q, d
    <2>3. q \in Nat /\ t = q * d + time /\ Active(q)
      BY <2>1, <2>2 DEF q
    <2>4. t \in Nat /\ t % d = time /\ t \div d = q
      BY <1>0, <2>3, Composed
    <2> QED BY <2>3, <2>4
  <1>5. ASSUME (s3 + 1) % d = time, Active((s3 + 1) \div d)
        PROVE  s3 + 1 \in at
    <2> DEFINE q == (s3 + 1) \div d
    <2>1. s3 + 1 \in Nat /\ s3 + 1 = q * d + time /\ q \in Nat
      <3> DEFINE n == s3 + 1
      <3>1. n \in Nat
        BY <1>0
      <3> HIDE DEF n
      <3>2. n \div d \in Nat /\ n = (n \div d) * d + (n % d)
        BY <1>0, <3>1, Division
      <3>3. n % d = time
        BY <1>5 DEF n
      <3> QED BY <3>1, <3>2, <3>3 DEF n
    <2>2. q = today \/ q = today + 1
      BY <1>0, NextMoment
    <2> DEFINE a == q - today
    <2>3. a \in 0..Days /\ today + a = q
      BY <1>0, <2>1, <2>2
    <2> HIDE DEF a, q
    <2>4. Active(today + a)
      BY <1>5, <2>3 DEF q
    <2> QED BY <1>3, <2>1, <2>3, <2>4
  <1>6. ASSUME s3 + 1 \in at
        PROVE  s3 + 1 \in Timeline!NextHHMM(time, days)
    <2>1. \A u \in at : u > s3 => s3 + 1 <= u
      BY <1>0, <1>4
    <2> QED BY <1>0, <1>1, <1>6, <2>1
  <1>7. \A t, u \in Timeline!NextHHMM(time, days) : t = u
    <2>1. \A t, u \in at : t <= u /\ u <= t => t = u
      BY <1>4
    <2> QED BY <1>1, <2>1
  <1>8. \A t \in Timeline!NextHHMM(time, days) :
          t \in Nat /\ t > s3 /\ t % d = time /\ Active(t \div d)
    BY <1>1, <1>4
  <1> QED BY <1>5, <1>6, <1>7, <1>8

\* The library's operators in an instance are those of the library.
LEMMA TimelineMeans ==
  /\ \A S : Timeline!IsFiniteSet(S) <=> IsFiniteSet(S)
  /\ \A S : Timeline!Cardinality(S) = Cardinality(S)
  BY DEF Timeline!IsFiniteSet, IsFiniteSet, Timeline!Cardinality, Cardinality

\* A runner that evaluates its schedule has dispatched something or nothing.
LEMMA Evaluates ==
  ASSUME NEW p, NEW t, NEW before \in {"none", "on", "off"}
  PROVE  Timeline!Eval(p, t, before) \in {"none", "on", "off"}
  BY DEF Timeline!Eval

\* What a new runner dispatches is due.
LEMMA NewIsDue ==
  ASSUME NEW p, Timeline!Eval(p, s3, "none") # "none"
  PROVE  Timeline!Eval(p, s3, "none") = Timeline!Due(p)
  BY DEF Timeline!Eval, Timeline!Due

\* The invariant holds when the page opens, in the first week of the clock.
LEMMA TimelineInit ==
  ASSUME Timeline!ClockAssumption, Timeline!Init
  PROVE  Timeline!TimelineInv
  <1>1. DayLength \in Nat /\ Days \in Nat /\ MaxClock \in Nat
    BY DEF Timeline!ClockAssumption
  <1>2. DayLength * Days \in Nat
    BY <1>1
  <1>3. DayLength * Days <= MaxClock + 1 /\ s3 \in 0..DayLength * Days - 1
    BY DEF Timeline!ClockAssumption, Timeline!Init
  <1> DEFINE week == DayLength * Days
  <1> HIDE DEF week
  <1>4. week \in Nat /\ week <= MaxClock + 1 /\ s3 \in 0..week - 1
    BY <1>2, <1>3 DEF week
  <1>5. s3 \in 0..MaxClock
    BY <1>1, <1>4
  <1>6. s4 \in [Schedules -> {"none", "on", "off"}]
    BY Evaluates DEF Timeline!Init
  <1>7. Timeline!TypeOK
    BY <1>5, <1>6 DEF Timeline!Init, Timeline!TypeOK
  <1>8. Timeline!LastIsDue
    <2>1. \A s \in Schedules : s4[s] = Timeline!Eval(s1[s], s3, "none")
      BY DEF Timeline!Init
    <2> QED BY <2>1, NewIsDue DEF Timeline!LastIsDue
  <1> QED BY <1>7, <1>8 DEF Timeline!TimelineInv

\* A tick and a switch keep the types.
LEMMA TimelineTyped ==
  ASSUME Timeline!ClockAssumption, Timeline!TypeOK,
         [Timeline!Next]_(Timeline!timelineVars)
  PROVE  Timeline!TypeOK'
  <1>0. s3 \in 0..MaxClock /\ MaxClock \in Nat
    BY DEF Timeline!TypeOK, Timeline!ClockAssumption
  <1>1. CASE Timeline!Tick
    <2>1. s3' \in 0..MaxClock
      BY <1>0, <1>1 DEF Timeline!Tick
    <2>2. ASSUME NEW s \in Schedules
          PROVE  (IF s2[s] THEN Timeline!Eval(s1[s], s3', s4[s]) ELSE s4[s])
                   \in {"none", "on", "off"}
      <3>1. s4[s] \in {"none", "on", "off"}
        BY DEF Timeline!TypeOK
      <3> QED BY <3>1, Evaluates
    <2>3. s4' \in [Schedules -> {"none", "on", "off"}]
      BY <1>1, <2>2 DEF Timeline!Tick
    <2> QED BY <1>1, <2>1, <2>3 DEF Timeline!Tick, Timeline!TypeOK
  <1>2. ASSUME NEW s \in Schedules, Timeline!Toggle(s)
        PROVE  Timeline!TypeOK'
    <2>1. (IF s2[s] THEN "none" ELSE Timeline!Eval(s1[s], s3, "none"))
            \in {"none", "on", "off"}
      BY Evaluates
    <2>2. s4' \in [Schedules -> {"none", "on", "off"}]
      BY <1>2, <2>1 DEF Timeline!Toggle, Timeline!TypeOK
    <2>3. s2' \in [Schedules -> BOOLEAN]
      <3>1. (~s2[s]) \in BOOLEAN
        OBVIOUS
      <3> QED BY <1>2, <3>1 DEF Timeline!Toggle, Timeline!TypeOK
    <2> QED BY <1>2, <2>2, <2>3 DEF Timeline!Toggle, Timeline!TypeOK
  <1>3. CASE UNCHANGED Timeline!timelineVars
    BY <1>3 DEF Timeline!timelineVars, Timeline!TypeOK
  <1> QED BY <1>1, <1>2, <1>3 DEF Timeline!Next

\* What a runner has dispatched stays due: on a day without the schedule the
\* window is what it was at the end of the last day, and a switch begins anew.
LEMMA TimelineStep ==
  ASSUME Timeline!ClockAssumption, Timeline!TimelineInv,
         [Timeline!Next]_(Timeline!timelineVars)
  PROVE  Timeline!TimelineInv'
  <1>0. Timeline!TypeOK /\ Timeline!LastIsDue /\ Timeline!TypeOK'
    BY TimelineTyped DEF Timeline!TimelineInv
  <1>1. CASE Timeline!Tick
    <2>1. /\ DayLength \in Nat \ {0} /\ s3 \in Nat /\ s3' = s3 + 1
          /\ s1' = s1 /\ s2' = s2
      BY <1>0, <1>1, ClockFacts DEF Timeline!Tick
    <2>2. ASSUME NEW s \in Schedules, s2[s], s1[s].kind = "schedule",
                 s4'[s] # "none"
          PROVE  s4'[s] = Timeline!Due(s1[s])'
      <3> DEFINE p == s1[s]
                 d == DayLength
                 day == s3 \div d
                 next == s3' \div d
      <3>1. s4'[s] = IF Timeline!DayActive(p, next)
                     THEN IF Timeline!InWindow(p, s3' % d) THEN "on"
                          ELSE "off"
                     ELSE s4[s]
        BY <1>1, <2>2 DEF Timeline!Tick, Timeline!Eval
      <3>2. Timeline!Due(p)' = IF Timeline!DayActive(p, next)
                               THEN IF Timeline!InWindow(p, s3' % d)
                                    THEN "on" ELSE "off"
                               ELSE IF Timeline!InWindow(p, d - 1)
                                    THEN "on" ELSE "off"
        BY <2>1 DEF Timeline!Due, Timeline!DayActive, Timeline!InWindow
      <3>3. CASE Timeline!DayActive(p, next)
        BY <3>1, <3>2, <3>3, <2>1
      <3>4. CASE ~Timeline!DayActive(p, next)
        <4>1. s4[s] # "none" /\ s4'[s] = s4[s]
          BY <2>2, <3>1, <3>4
        <4>2. s4[s] = Timeline!Due(p)
          BY <1>0, <2>2, <4>1 DEF Timeline!LastIsDue
        <4>3. next = day \/ s3 % d = d - 1
          BY <2>1, NextMoment
        <4>4. Timeline!Due(p) = IF Timeline!InWindow(p, d - 1) THEN "on"
                                ELSE "off"
          BY <3>4, <4>3 DEF Timeline!Due
        <4> QED BY <3>2, <3>4, <4>1, <4>2, <4>4, <2>1
      <3> QED BY <3>3, <3>4
    <2>3. Timeline!LastIsDue'
      BY <2>1, <2>2 DEF Timeline!LastIsDue
    <2> QED BY <1>0, <2>3 DEF Timeline!TimelineInv
  <1>2. ASSUME NEW s \in Schedules, Timeline!Toggle(s)
        PROVE  Timeline!TimelineInv'
    <2>1. /\ s1' = s1 /\ s3' = s3
          /\ s2' = [s2 EXCEPT ![s] = ~@]
          /\ s4' = [s4 EXCEPT ![s] = IF s2[s] THEN "none"
                                     ELSE Timeline!Eval(s1[s], s3, "none")]
      BY <1>2 DEF Timeline!Toggle
    <2>2. /\ s2 \in [Schedules -> BOOLEAN]
          /\ s4 \in [Schedules -> {"none", "on", "off"}]
      BY <1>0 DEF Timeline!TypeOK
    <2>3. ASSUME NEW t \in Schedules, s2'[t], s1[t].kind = "schedule",
                 s4'[t] # "none"
          PROVE  s4'[t] = Timeline!Due(s1[t])
      <3>1. CASE t = s
        <4>1. ~s2[s] /\ s4'[s] = Timeline!Eval(s1[s], s3, "none")
          BY <2>1, <2>2, <2>3, <3>1
        <4> QED BY <2>3, <3>1, <4>1, NewIsDue
      <3>2. CASE t # s
        <4>1. s2[t] /\ s4'[t] = s4[t]
          BY <2>1, <2>2, <2>3, <3>2
        <4> QED BY <1>0, <2>3, <4>1 DEF Timeline!LastIsDue
      <3> QED BY <3>1, <3>2
    <2>4. \A t \in Schedules : Timeline!Due(s1[t])' = Timeline!Due(s1[t])
      BY <2>1 DEF Timeline!Due, Timeline!DayActive, Timeline!InWindow
    <2>5. Timeline!LastIsDue'
      BY <2>1, <2>3, <2>4 DEF Timeline!LastIsDue
    <2> QED BY <1>0, <2>5 DEF Timeline!TimelineInv
  <1>3. CASE UNCHANGED Timeline!timelineVars
    <2>1. s1' = s1 /\ s2' = s2 /\ s3' = s3 /\ s4' = s4
      BY <1>3 DEF Timeline!timelineVars
    <2>2. Timeline!LastIsDue'
      BY <1>0, <2>1 DEF Timeline!LastIsDue, Timeline!Due,
                        Timeline!DayActive, Timeline!InWindow
    <2> QED BY <1>0, <2>2 DEF Timeline!TimelineInv
  <1> QED BY <1>1, <1>2, <1>3 DEF Timeline!Next

\* The invariant of the timeline holds in every behaviour.
THEOREM TimelineInvariant ==
  PagesSpec => [](view = "timeline" => Timeline!TimelineInv)
  <1> DEFINE Inv == view = "timeline" => Timeline!TimelineInv
  <1>0. PagesInit => Inv
    BY TimelineInit, PagesAssumption DEF PagesInit, PagesAssumption
  <1>1. ASSUME Inv, [PagesNext]_pagesVars
        PROVE  Inv'
    <2>1. view' = view
      BY <1>1 DEF PagesNext, pagesVars
    <2>2. view = "timeline" => [Timeline!Next]_(Timeline!timelineVars)
      BY <1>1
      DEF PagesNext, Step, pagesVars, shared, analytics, Timeline!timelineVars
    <2> QED BY <1>1, <2>1, <2>2, TimelineStep, PagesAssumption
            DEF PagesAssumption
  <1> QED BY <1>0, <1>1, PTL DEF PagesSpec

\* The changes that the page derives from one schedule are finitely many.
LEMMA OfOneSchedule ==
  ASSUME Timeline!ClockAssumption, Timeline!TypeOK, NEW s \in Schedules
  PROVE  /\ IsFiniteSet(Timeline!ComputeTransitions(s))
         /\ \A c \in Timeline!ComputeTransitions(s) :
              c.of = s /\ c.at \in Nat /\ c.to \in {"on", "off"}
  <1> DEFINE p == s1[s]
             Change(to, at) == [of |-> s, to |-> to, at |-> at]
             cycle == p.on + p.off
             pos == s3 % cycle
  <1>0. /\ s3 \in Nat /\ p.on \in Nat /\ p.off \in Nat
        /\ p.kind \in {"schedule", "cycle", "duration"}
        /\ p.kind = "cycle" => p.on > 0 /\ p.off > 0
    BY ClockFacts
  <1>1. CASE p.kind = "cycle"
    <2>1. cycle \in Nat \ {0} /\ pos \in 0..cycle - 1
      <3>1. cycle \in Nat \ {0}
        BY <1>0, <1>1
      <3> HIDE DEF cycle
      <3> QED BY <1>0, <3>1, Division
    <2>2. CASE pos < p.on
      <3> DEFINE a == s3 + p.on - pos
                 b == s3 + cycle - pos
      <3>1. a \in Nat /\ b \in Nat
        <4> HIDE DEF pos
        <4> QED BY <1>0, <2>1, <2>2
      <3>2. Timeline!ComputeTransitions(s)
              = {Change("off", a), Change("on", b)}
        <4>1. ~(pos >= p.on)
          <5> HIDE DEF pos
          <5> QED BY <1>0, <2>1, <2>2
        <4> QED BY <1>1, <2>2, <4>1 DEF Timeline!ComputeTransitions
      <3> HIDE DEF a, b
      <3>3. IsFiniteSet({Change("off", a), Change("on", b)})
        <4>1. IsFiniteSet({Change("off", a)})
          BY FS_Singleton
        <4>2. {Change("off", a), Change("on", b)}
                = {Change("off", a)} \cup {Change("on", b)}
          OBVIOUS
        <4> QED BY <4>1, <4>2, FS_AddElement
      <3> QED BY <3>1, <3>2, <3>3
    <2>3. CASE ~(pos < p.on)
      <3> DEFINE a == s3 + cycle - pos
                 b == s3 + cycle - pos + p.on
      <3>1. a \in Nat /\ b \in Nat
        <4> HIDE DEF pos
        <4> QED BY <1>0, <2>1, <2>3
      <3>2. Timeline!ComputeTransitions(s)
              = {Change("on", a), Change("off", b)}
        <4>1. pos >= p.on
          <5> HIDE DEF pos
          <5> QED BY <1>0, <2>1, <2>3
        <4> QED BY <1>1, <2>3, <4>1 DEF Timeline!ComputeTransitions
      <3> HIDE DEF a, b
      <3>3. IsFiniteSet({Change("on", a), Change("off", b)})
        <4>1. IsFiniteSet({Change("on", a)})
          BY FS_Singleton
        <4>2. {Change("on", a), Change("off", b)}
                = {Change("on", a)} \cup {Change("off", b)}
          OBVIOUS
        <4> QED BY <4>1, <4>2, FS_AddElement
      <3> QED BY <3>1, <3>2, <3>3
    <2> QED BY <2>2, <2>3
  <1>2. CASE p.kind = "schedule"
    <2> DEFINE on == Timeline!NextHHMM(p.on, p.days)
               off == Timeline!NextHHMM(p.off, p.days)
               A == {Change("on", t) : t \in on}
               B == {Change("off", t) : t \in off}
    <2>1. Timeline!ComputeTransitions(s) = A \cup B
      BY <1>2 DEF Timeline!ComputeTransitions
    <2>2. p.on < DayLength /\ p.off < DayLength
          /\ p.days \in SUBSET (0..Days - 1)
      BY <1>2, ClockFacts
    <2>3. /\ \A t \in on : t \in Nat
          /\ \A t, u \in on : t = u
      BY <1>0, <2>2, TimesFound
    <2>4. /\ \A t \in off : t \in Nat
          /\ \A t, u \in off : t = u
      BY <1>0, <2>2, TimesFound
    <2> HIDE DEF on, off
    <2>5. IsFiniteSet(A)
      <3>1. \A c, d \in A : c = d
        BY <2>3
      <3> QED BY <3>1, OneAtMost
    <2>6. IsFiniteSet(B)
      <3>1. \A c, d \in B : c = d
        BY <2>4
      <3> QED BY <3>1, OneAtMost
    <2>7. \A c \in A \cup B : c.of = s /\ c.at \in Nat /\ c.to \in {"on", "off"}
      BY <2>3, <2>4
    <2> HIDE DEF A, B
    <2>8. IsFiniteSet(A \cup B)
      BY <2>5, <2>6, FS_Union
    <2> QED BY <2>1, <2>7, <2>8
  <1>3. CASE p.kind = "duration"
    <2>1. Timeline!ComputeTransitions(s) = {Change("off", s3 + p.on)}
      BY <1>3 DEF Timeline!ComputeTransitions
    <2>2. s3 + p.on \in Nat
      BY <1>0
    <2>3. IsFiniteSet({Change("off", s3 + p.on)})
      BY FS_Singleton
    <2> QED BY <2>1, <2>2, <2>3
  <1> QED BY <1>0, <1>1, <1>2, <1>3

\* What LoadSchedules takes the soonest of.
AllChanges ==
  UNION {Timeline!ComputeTransitions(s) : s \in {s \in Schedules : s2[s]}}

\* So are those of all the schedules; and of one schedule there are its own.
LEMMA OfAllSchedules ==
  ASSUME Timeline!ClockAssumption, Timeline!TypeOK
  PROVE  /\ IsFiniteSet(AllChanges)
         /\ \A c \in AllChanges : c.at \in Nat
         /\ \A s \in Schedules :
              s2[s] => {c \in AllChanges : c.of = s}
                         = Timeline!ComputeTransitions(s)
  <1> DEFINE E == {s \in Schedules : s2[s]}
             f == [s \in E |-> Timeline!ComputeTransitions(s)]
             T == {Timeline!ComputeTransitions(s) : s \in E}
  <1>1. IsFiniteSet(E)
    <2>1. IsFiniteSet(Schedules) /\ E \subseteq Schedules
      BY TimelineMeans DEF Timeline!ClockAssumption
    <2> HIDE DEF E
    <2> QED BY <2>1, FS_Subset
  <1>2. f \in Surjection(E, T)
    <2>1. f \in [E -> T]
      OBVIOUS
    <2>2. \A t \in T : \E s \in E : f[s] = t
      OBVIOUS
    <2> QED BY <2>1, <2>2 DEF Surjection
  <1>3. \A t \in T : IsFiniteSet(t)
    BY OfOneSchedule
  <1>4. AllChanges = UNION T
    BY DEF AllChanges
  <1>5. \A s \in E : \A c \in Timeline!ComputeTransitions(s) :
          c.of = s /\ c.at \in Nat
    BY OfOneSchedule
  <1>6. \A c : c \in AllChanges
                 <=> \E s \in E : c \in Timeline!ComputeTransitions(s)
    BY <1>4
  <1>7. IsFiniteSet(T)
    <2> HIDE DEF E, f, T
    <2> QED BY <1>1, <1>2, FS_Surjection
  <1>8. IsFiniteSet(AllChanges)
    <2> HIDE DEF T
    <2> QED BY <1>3, <1>4, <1>7, FS_UNION
  <1>9. \A c \in AllChanges : c.at \in Nat
    BY <1>5, <1>6
  <1>10. ASSUME NEW s \in Schedules, s2[s]
         PROVE  {c \in AllChanges : c.of = s} = Timeline!ComputeTransitions(s)
    <2>1. s \in E
      BY <1>10
    <2>2. \A c \in AllChanges : c.of = s => c \in Timeline!ComputeTransitions(s)
      BY <1>5, <1>6
    <2>3. \A c \in Timeline!ComputeTransitions(s) : c \in AllChanges /\ c.of = s
      BY <1>5, <1>6, <2>1
    <2> HIDE DEF E
    <2> QED BY <2>2, <2>3
  <1> QED BY <1>8, <1>9, <1>10

\* Nothing is shown that is later than a change that is not.
LEMMA SoonestAreShown ==
  ASSUME Timeline!ClockAssumption, Timeline!TypeOK,
         NEW c \in AllChanges, c \notin Timeline!LoadSchedules,
         NEW d \in Timeline!LoadSchedules
  PROVE  d \in AllChanges /\ d.at <= c.at
  <1> DEFINE Before(e) == {x \in AllChanges : Timeline!Earlier(x, e)}
  <1>0. Timeline!LoadSchedules
          = {e \in AllChanges : Cardinality(Before(e)) < Upcoming}
    BY TimelineMeans DEF Timeline!LoadSchedules, AllChanges
  <1>1. \A e \in AllChanges : IsFiniteSet(Before(e))
                              /\ Cardinality(Before(e)) \in Nat
    <2>1. \A e \in AllChanges : Before(e) \subseteq AllChanges
      OBVIOUS
    <2> HIDE DEF Before
    <2> QED BY <2>1, OfAllSchedules, FS_Subset, FS_CardinalityType
  <1>2. Upcoming \in Nat
    BY ClockFacts
  <1>3. ASSUME d \in AllChanges, c.at < d.at
        PROVE  Cardinality(Before(c)) <= Cardinality(Before(d))
    <2>1. \A x \in AllChanges : x.at \in Nat
      BY OfAllSchedules
    <2>2. \A x \in AllChanges : Timeline!Earlier(x, c) => Timeline!Earlier(x, d)
      BY <1>3, <2>1 DEF Timeline!Earlier
    <2>3. Before(c) \subseteq Before(d)
      BY <2>2
    <2> HIDE DEF Before
    <2> QED BY <1>1, <1>3, <2>3, FS_Subset
  <1>4. c.at \in Nat /\ \A x \in AllChanges : x.at \in Nat
    BY OfAllSchedules
  <1>5. d \in AllChanges
    BY <1>0
  <1> HIDE DEF Before
  <1> QED BY <1>0, <1>1, <1>2, <1>3, <1>4, <1>5

\* The changes of one time-of-day schedule that come with the next tick.
LEMMA AtTheTick ==
  ASSUME Timeline!ClockAssumption, Timeline!TypeOK, NEW s \in Schedules,
         s1[s].kind = "schedule"
  PROVE  LET p == s1[s]
             n == s3 + 1
             comes == /\ Timeline!DayActive(p, n \div DayLength)
                      /\ n % DayLength \in {p.on, p.off}
         IN /\ \A c \in Timeline!ComputeTransitions(s) :
                 /\ c.at >= n
                 /\ c.at = n =>
                      /\ comes
                      /\ c = [of |-> s, at |-> n,
                              to |-> IF c.to = "on" THEN "on" ELSE "off"]
                      /\ c.to = "on" => n % DayLength = p.on
                      /\ c.to # "on" => n % DayLength = p.off
            /\ comes => [of |-> s, at |-> n,
                         to |-> IF n % DayLength = p.on THEN "on" ELSE "off"]
                          \in Timeline!ComputeTransitions(s)
  <1> DEFINE p == s1[s]
             n == s3 + 1
             d == DayLength
             on == Timeline!NextHHMM(p.on, p.days)
             off == Timeline!NextHHMM(p.off, p.days)
             Change(to, at) == [of |-> s, to |-> to, at |-> at]
  <1>1. Timeline!ComputeTransitions(s)
          = {Change("on", t) : t \in on} \cup {Change("off", t) : t \in off}
    BY DEF Timeline!ComputeTransitions
  <1>2. /\ p.on \in Nat /\ p.off \in Nat /\ p.on < d /\ p.off < d
        /\ p.days \in SUBSET (0..Days - 1) /\ s3 \in Nat
    BY ClockFacts
  <1>3. /\ \A t \in on : t \in Nat /\ t > s3 /\ t % d = p.on
                         /\ Timeline!DayActive(p, t \div d)
        /\ n % d = p.on /\ Timeline!DayActive(p, n \div d) => n \in on
    BY <1>2, TimesFound DEF Timeline!DayActive
  <1>4. /\ \A t \in off : t \in Nat /\ t > s3 /\ t % d = p.off
                          /\ Timeline!DayActive(p, t \div d)
        /\ n % d = p.off /\ Timeline!DayActive(p, n \div d) => n \in off
    BY <1>2, TimesFound DEF Timeline!DayActive
  <1>5. n \in Nat /\ \A t \in Nat : t > s3 <=> t >= n
    BY <1>2
  <1> HIDE DEF p, n, on, off, d
  <1>6. \A c \in Timeline!ComputeTransitions(s) :
          \/ \E t \in on : c = Change("on", t)
          \/ \E t \in off : c = Change("off", t)
    BY <1>1
  <1>7. ASSUME NEW c \in Timeline!ComputeTransitions(s)
        PROVE  /\ c.at >= n
               /\ c.at = n =>
                    /\ Timeline!DayActive(p, n \div d)
                    /\ n % d \in {p.on, p.off}
                    /\ c = [of |-> s, at |-> n,
                            to |-> IF c.to = "on" THEN "on" ELSE "off"]
                    /\ c.to = "on" => n % d = p.on
                    /\ c.to # "on" => n % d = p.off
    <2>1. CASE \E t \in on : c = Change("on", t)
      BY <2>1, <1>3, <1>5
    <2>2. CASE \E t \in off : c = Change("off", t)
      BY <2>2, <1>4, <1>5
    <2> QED BY <1>6, <2>1, <2>2
  <1>8. ASSUME Timeline!DayActive(p, n \div d), n % d \in {p.on, p.off}
        PROVE  [of |-> s, at |-> n,
                to |-> IF n % d = p.on THEN "on" ELSE "off"]
                 \in Timeline!ComputeTransitions(s)
    <2>1. CASE n % d = p.on
      BY <1>1, <1>3, <1>8, <2>1
    <2>2. CASE n % d # p.on
      BY <1>1, <1>4, <1>8, <2>2
    <2> QED BY <2>1, <2>2
  <1> QED BY <1>7, <1>8 DEF p, n, d

\* The first change that is shown of a schedule is the one the engine makes.
LEMMA ForecastOfOne ==
  ASSUME Timeline!ClockAssumption, Timeline!TimelineInv, Timeline!Tick,
         NEW s \in Schedules, s2[s], s1[s].kind = "schedule",
         s1[s].on # s1[s].off, s4[s] # "none"
  PROVE  LET own == {c \in Timeline!LoadSchedules : c.of = s}
             first == {c \in own : \A d \in own : c.at <= d.at}
         IN IF s4'[s] = s4[s] THEN \A c \in own : c.at # s3'
            ELSE IF own = {} THEN \A c \in Timeline!LoadSchedules : c.at <= s3'
            ELSE first = {[of |-> s, to |-> s4'[s], at |-> s3']}
  <1> DEFINE p == s1[s]
             n == s3 + 1
             own == {c \in Timeline!LoadSchedules : c.of = s}
             first == {c \in own : \A d \in own : c.at <= d.at}
             next == [of |-> s, to |-> s4'[s], at |-> n]
             comes == /\ Timeline!DayActive(p, n \div DayLength)
                      /\ n % DayLength \in {p.on, p.off}
  <1>0. Timeline!TypeOK /\ s3' = n /\ n \in Nat
    <2>1. Timeline!TypeOK
      BY DEF Timeline!TimelineInv
    <2> QED BY <2>1, ClockFacts DEF Timeline!Tick
  <1>1. /\ s4'[s] # s4[s] <=> comes
        /\ s4'[s] # s4[s] =>
             s4'[s] = IF n % DayLength = p.on THEN "on" ELSE "off"
    BY <1>0, EngineChanges
  <1>2. own \subseteq Timeline!ComputeTransitions(s)
    <2>1. Timeline!LoadSchedules \subseteq AllChanges
      BY DEF Timeline!LoadSchedules, AllChanges
    <2> QED BY <1>0, <2>1, OfAllSchedules
  <1>3. ASSUME NEW c \in Timeline!ComputeTransitions(s)
        PROVE  /\ c.at \in Nat /\ c.at >= n
               /\ c.at = n => comes
               /\ c.at = n => c = next
    <2>1. c.at \in Nat
      BY <1>0, OfOneSchedule
    <2>2. /\ c.at >= n
          /\ c.at = n =>
               /\ comes
               /\ c = [of |-> s, at |-> n,
                       to |-> IF c.to = "on" THEN "on" ELSE "off"]
               /\ c.to = "on" => n % DayLength = p.on
               /\ c.to # "on" => n % DayLength = p.off
      BY <1>0, AtTheTick
    <2>3. p.on # p.off
      OBVIOUS
    <2> HIDE DEF p, n, comes
    <2> QED BY <1>1, <2>1, <2>2, <2>3
  <1>4. ASSUME s4'[s] # s4[s]
        PROVE  next \in Timeline!ComputeTransitions(s)
    <2>1. comes => [of |-> s, at |-> n,
                    to |-> IF n % DayLength = p.on THEN "on" ELSE "off"]
                     \in Timeline!ComputeTransitions(s)
      BY <1>0, AtTheTick
    <2>2. next = [of |-> s, at |-> n,
                  to |-> IF n % DayLength = p.on THEN "on" ELSE "off"]
      BY <1>1, <1>4
    <2> HIDE DEF next, n, p, comes
    <2> QED BY <1>1, <1>4, <2>1, <2>2
  <1>5. next.at = n /\ next.of = s
    OBVIOUS
  <1>6. \A c \in own : c \in Timeline!LoadSchedules /\ c.of = s
    OBVIOUS
  <1>7. CASE s4'[s] = s4[s]
    <2>1. \A c \in own : c.at # s3'
      <3> HIDE DEF own, comes, next, n
      <3> QED BY <1>0, <1>1, <1>2, <1>3, <1>7
    <2> QED BY <1>7, <2>1
  <1>8. CASE s4'[s] # s4[s] /\ own = {}
    <2>1. next \notin Timeline!LoadSchedules
      BY <1>5, <1>8
    <2>2. next \in AllChanges
      <3>1. next \in {c \in AllChanges : c.of = s}
        <4> HIDE DEF next
        <4> QED BY <1>0, <1>4, <1>8, OfAllSchedules
      <3> QED BY <3>1
    <2>3. \A c \in Timeline!LoadSchedules : c.at <= s3'
      <3> HIDE DEF next, n, own
      <3> QED BY <1>0, <1>5, <2>1, <2>2, SoonestAreShown
    <2> QED BY <1>8, <2>3
  <1>9. CASE s4'[s] # s4[s] /\ own # {}
    <2>1. next \in own
      <3>1. PICK c \in own : TRUE
        BY <1>9
      <3>2. CASE next \in Timeline!LoadSchedules
        BY <1>5, <3>2
      <3>3. CASE next \notin Timeline!LoadSchedules
        <4>1. next \in AllChanges
          <5>1. next \in {e \in AllChanges : e.of = s}
            <6> HIDE DEF next
            <6> QED BY <1>0, <1>4, <1>9, OfAllSchedules
          <5> QED BY <5>1
        <4> HIDE DEF next, own, n
        <4>2. c.at <= n
          BY <1>0, <1>5, <1>6, <3>3, <4>1, SoonestAreShown
        <4>3. c.at = n
          BY <1>0, <1>2, <1>3, <4>2
        <4> QED BY <1>2, <1>3, <4>3
      <3> QED BY <3>2, <3>3
    <2>2. first = {next}
      <3> HIDE DEF next, own, n, comes
      <3>1. \A c \in own : next.at <= c.at
        BY <1>0, <1>2, <1>3, <1>5
      <3>2. \A c \in own : c.at <= next.at => c = next
        BY <1>0, <1>2, <1>3, <1>5
      <3> QED BY <2>1, <3>1, <3>2
    <2> QED BY <1>0, <1>9, <2>2
  <1> QED BY <1>7, <1>8, <1>9

\* What the timeline shows first of a time-of-day schedule that has started
\* is the next change that the engine makes, unless sooner changes fill the
\* timeline or its window is empty (Monitor.jsx:161-204, scheduler.go:207).
THEOREM ForecastIsRight == PagesSpec => ForecastIsTheNextChange
  <1> DEFINE Inv == view = "timeline" => Timeline!TimelineInv
  <1>1. ASSUME Inv, [PagesNext]_pagesVars
        PROVE  view = "timeline" => Timeline!ForecastIsTheNextChange
    <2> SUFFICES ASSUME view = "timeline", Timeline!Tick
                 PROVE  Timeline!ForecastIsTheNextChange
      BY DEF Timeline!ForecastIsTheNextChange
    <2>1. Timeline!ClockAssumption
      BY PagesAssumption DEF PagesAssumption
    <2> QED BY <1>1, <2>1, ForecastOfOne DEF Timeline!ForecastIsTheNextChange
  <1> QED BY <1>1, TimelineInvariant, PTL DEF PagesSpec, ForecastIsTheNextChange
=============================================================================
