-------------------------- MODULE NodePagesProofs ---------------------------
(* Theorems about the pages that configure a node: its pairing with a      *)
(* module, its own portal, its actuators and its telemetry mapping.        *)
EXTENDS WebPages, SequencesExt, FiniteSetTheorems, SequenceTheorems, TLAPS

-----------------------------------------------------------------------------
(* Sequences from which a row goes and to which one comes.                 *)

\* What is left when one row goes.
LEMMA RemoveAtShifts ==
  ASSUME NEW S, NEW q \in Seq(S), NEW i \in 1..Len(q)
  PROVE  /\ RemoveAt(q, i) \in Seq(S)
         /\ Len(RemoveAt(q, i)) = Len(q) - 1
         /\ \A j \in 1..Len(q) - 1 :
              RemoveAt(q, i)[j] = IF j < i THEN q[j] ELSE q[j + 1]
  <1> DEFINE front == SubSeq(q, 1, i - 1)
             back == SubSeq(q, i + 1, Len(q))
  <1>0. Len(q) \in Nat /\ i \in Int /\ \A j \in 1..Len(q) : q[j] \in S
    BY LenProperties, ElementOfSeq
  <1>1. /\ front \in Seq(S) /\ Len(front) = i - 1
        /\ \A j \in 1..i - 1 : front[j] = q[j]
    <2>1. \A j \in 1..(i - 1) : q[j] \in S
      BY <1>0
    <2> QED BY <1>0, <2>1, SubSeqProperties
  <1>2. /\ back \in Seq(S) /\ Len(back) = Len(q) - i
        /\ \A j \in 1..Len(q) - i : back[j] = q[i + j]
    <2>1. \A j \in (i + 1)..Len(q) : q[j] \in S
      BY <1>0
    <2>2. /\ back \in Seq(S)
          /\ Len(back) = IF i + 1 <= Len(q) THEN Len(q) - (i + 1) + 1 ELSE 0
          /\ \A j \in 1..Len(q) - (i + 1) + 1 : back[j] = q[(i + 1) + j - 1]
      BY <1>0, <2>1, SubSeqProperties
    <2> QED BY <1>0, <2>2
  <1> HIDE DEF front, back
  <1>3. /\ front \o back \in Seq(S)
        /\ Len(front \o back) = Len(front) + Len(back)
        /\ \A j \in 1..Len(front) + Len(back) :
             (front \o back)[j] = IF j <= Len(front) THEN front[j]
                                  ELSE back[j - Len(front)]
    BY <1>1, <1>2, ConcatProperties
  <1>4. RemoveAt(q, i) = front \o back
    BY DEF RemoveAt, front, back
  <1>5. ASSUME NEW j \in 1..Len(q) - 1
        PROVE  (front \o back)[j] = IF j < i THEN q[j] ELSE q[j + 1]
    <2>1. j \in 1..Len(front) + Len(back)
      BY <1>0, <1>1, <1>2
    <2>2. (front \o back)[j] = IF j <= i - 1 THEN front[j]
                               ELSE back[j - (i - 1)]
      BY <1>1, <1>3, <2>1
    <2>3. CASE j < i
      BY <1>0, <1>1, <2>2, <2>3
    <2>4. CASE ~(j < i)
      <3>1. j - (i - 1) \in 1..Len(q) - i /\ i + (j - (i - 1)) = j + 1
        BY <1>0, <2>4
      <3>2. back[j - (i - 1)] = q[j + 1]
        BY <1>2, <3>1
      <3> QED BY <1>0, <2>2, <2>4, <3>2
    <2> QED BY <2>3, <2>4
  <1>6. Len(front \o back) = Len(q) - 1
    BY <1>0, <1>1, <1>2, <1>3
  <1> QED BY <1>3, <1>4, <1>5, <1>6

\* The elements of an injective sequence of which one goes.
LEMMA OneGoes ==
  ASSUME NEW S, NEW q \in Seq(S), NEW i \in 1..Len(q), IsInjective(q)
  PROVE  /\ IsInjective(RemoveAt(q, i))
         /\ ToSet(RemoveAt(q, i)) \subseteq ToSet(q)
  <1> DEFINE r == RemoveAt(q, i)
             At(j) == IF j < i THEN j ELSE j + 1
  <1>1. /\ Len(q) \in Nat /\ DOMAIN q = 1..Len(q)
        /\ \A j, k \in 1..Len(q) : q[j] = q[k] => j = k
    BY LenProperties DEF IsInjective
  <1>2. /\ r \in Seq(S) /\ Len(r) = Len(q) - 1
        /\ \A j \in 1..Len(q) - 1 : r[j] = IF j < i THEN q[j] ELSE q[j + 1]
    BY RemoveAtShifts
  <1> HIDE DEF r
  <1>3. /\ DOMAIN r = 1..Len(q) - 1
        /\ \A j \in 1..Len(q) - 1 : r[j] = q[At(j)] /\ At(j) \in 1..Len(q)
    BY <1>1, <1>2, LenProperties
  <1>4. IsInjective(r)
    <2>1. SUFFICES ASSUME NEW j \in 1..Len(q) - 1, NEW k \in 1..Len(q) - 1,
                          r[j] = r[k]
                   PROVE  j = k
      BY <1>3 DEF IsInjective
    <2>2. At(j) = At(k)
      <3> HIDE DEF At
      <3> QED BY <1>1, <1>3, <2>1
    <2> QED BY <1>1, <2>2
  <1>5. ToSet(r) \subseteq ToSet(q)
    BY <1>1, <1>3 DEF ToSet
  <1> QED BY <1>4, <1>5 DEF r

\* A new element in front of an injective sequence.
LEMMA OneComes ==
  ASSUME NEW S, NEW q \in Seq(S), NEW x \in S, IsInjective(q), x \notin ToSet(q)
  PROVE  /\ <<x>> \o q \in Seq(S) /\ IsInjective(<<x>> \o q)
         /\ ToSet(<<x>> \o q) \subseteq ToSet(q) \cup {x}
  <1> DEFINE r == <<x>> \o q
  <1>1. /\ Len(q) \in Nat /\ DOMAIN q = 1..Len(q)
        /\ \A j, k \in 1..Len(q) : q[j] = q[k] => j = k
        /\ \A j \in 1..Len(q) : q[j] # x
    BY LenProperties DEF IsInjective, ToSet
  <1>2. <<x>> \in Seq(S) /\ Len(<<x>>) = 1 /\ <<x>>[1] = x
    OBVIOUS
  <1>3. /\ r \in Seq(S) /\ Len(r) = Len(q) + 1
        /\ \A j \in 1..Len(q) + 1 : r[j] = IF j = 1 THEN x ELSE q[j - 1]
    <2>1. /\ r \in Seq(S) /\ Len(r) = 1 + Len(q)
          /\ \A j \in 1..1 + Len(q) :
               r[j] = IF j <= 1 THEN <<x>>[j] ELSE q[j - 1]
      BY <1>2, ConcatProperties
    <2> QED BY <1>1, <1>2, <2>1
  <1> HIDE DEF r
  <1>4. DOMAIN r = 1..Len(q) + 1
    BY <1>3, LenProperties
  <1>5. IsInjective(r)
    <2>1. SUFFICES ASSUME NEW j \in 1..Len(q) + 1, NEW k \in 1..Len(q) + 1,
                          r[j] = r[k]
                   PROVE  j = k
      BY <1>4 DEF IsInjective
    <2>2. /\ j # 1 => j - 1 \in 1..Len(q)
          /\ k # 1 => k - 1 \in 1..Len(q)
      BY <1>1
    <2> QED BY <1>1, <1>3, <2>1, <2>2
  <1>6. ToSet(r) \subseteq ToSet(q) \cup {x}
    <2>1. ASSUME NEW j \in 1..Len(q) + 1
          PROVE  r[j] \in ToSet(q) \cup {x}
      <3>1. j # 1 => j - 1 \in 1..Len(q)
        BY <1>1
      <3> QED BY <1>1, <1>3, <3>1 DEF ToSet
    <2> QED BY <1>4, <2>1 DEF ToSet
  <1> QED BY <1>3, <1>5, <1>6 DEF r

\* The sequence of the elements of a finite set.
LEMMA Sequenced ==
  ASSUME NEW S, IsFiniteSet(S)
  PROVE  SetToSeq(S) \in Seq(S) /\ ToSet(SetToSeq(S)) = S
  <1> DEFINE n == Cardinality(S)
             q == SetToSeq(S)
  <1>1. n \in Nat /\ ExistsBijection(1..n, S)
    BY FS_CardinalityType
  <1>2. \E f \in [1..n -> S] : IsInjective(f)
    BY <1>1 DEF ExistsBijection, Bijection, Injection, IsInjective
  <1>3. q \in [1..n -> S] /\ IsInjective(q)
    BY <1>2 DEF SetToSeq
  <1>4. IsFiniteSet(1..n) /\ Cardinality(1..n) = n
    <2>1. 1 \in Int /\ n \in Int
      BY <1>1
    <2>2. /\ IsFiniteSet(1..n)
          /\ Cardinality(1..n) = IF 1 > n THEN 0 ELSE n - 1 + 1
      BY <2>1, FS_Interval, Zenon
    <2> QED BY <1>1, <2>2
  <1>5. q \in Surjection(1..n, S)
    <2>1. q \in Injection(1..n, S)
      BY <1>3 DEF Injection
    <2> QED BY <1>4, <2>1, FS_Injection
  <1> HIDE DEF n, q
  <1>6. q \in Seq(S)
    BY <1>1, <1>3, SeqDef
  <1>7. ToSet(q) = S
    BY <1>3, <1>5 DEF ToSet, Surjection
  <1> QED BY <1>6, <1>7 DEF q

-----------------------------------------------------------------------------
(* The pairing of nodes with modules.                                      *)
(* Here s1 is known, s2 moduleOf, s3 alive, s4 deleting, s5 orphans, s6    *)
(* paired, s7 discovered, s8 isLoading, s9 busyId, s10 handler.            *)

\* The page loads: no node is known, nothing is under way.
LEMMA ListedInit ==
  ASSUME Pairing!PairingAssumption, Pairing!Init
  PROVE  Pairing!Listed
  <1>1. Pairing!Idle \in Pairing!HandlerType /\ ~Pairing!Relies(Pairing!Idle)
    BY DEF Pairing!Idle, Pairing!HandlerType, Pairing!Relies
  <1>2. Pairing!Handlers
    BY <1>1 DEF Pairing!Init, Pairing!Handlers
  <1>3. Pairing!Records
    BY DEF Pairing!Init, Pairing!Records, Pairing!Pairings,
           Pairing!UnknownUnpaired, Pairing!PairedToStaying
  <1> QED BY <1>2, <1>3 DEF Pairing!Init, Pairing!Listed

\* The module of one node, or its record, changes; what else is paired stays.
LEMMA AssignKeeps ==
  ASSUME s3 \subseteq Modules, Pairing!Records, UNCHANGED <<s3, s4>>,
         NEW n, NEW m \in Modules \cup {NoModule}, NEW orphan \in BOOLEAN,
         Pairing!Assign(n, m, orphan), orphan \/ Pairing!Staying(m)
  PROVE  Pairing!Records'
  <1>1. n \in s1 /\ s1' = s1 /\ n \in PairedNodes
    BY DEF Pairing!Assign, Pairing!Records, Pairing!Pairings
  <1>2. s2' = [s2 EXCEPT ![n] = m]
    BY DEF Pairing!Assign
  <1>3. Pairing!Pairings' /\ Pairing!UnknownUnpaired'
    BY <1>1, <1>2
    DEF Pairing!Records, Pairing!Pairings, Pairing!UnknownUnpaired
  <1>4. ASSUME NEW k \in s1' \ s5'
        PROVE  Pairing!Staying(s2'[k])
    <2>1. CASE k = n
      BY <1>1, <1>2, <1>4, <2>1
      DEF Pairing!Assign, Pairing!Records, Pairing!Pairings
    <2>2. CASE k # n
      BY <1>1, <1>2, <1>4, <2>2
      DEF Pairing!Assign, Pairing!Records, Pairing!Pairings,
          Pairing!PairedToStaying
    <2> QED BY <2>1, <2>2
  <1>5. Pairing!PairedToStaying'
    BY <1>4 DEF Pairing!PairedToStaying, Pairing!Staying
  <1> QED BY <1>3, <1>5 DEF Pairing!Records

\* A node that is deleted is paired to nothing.
LEMMA ForgetKeeps ==
  ASSUME Pairing!Records, UNCHANGED <<s3, s4>>, NEW n, Pairing!Forget(n)
  PROVE  Pairing!Records'
  <1>1. n \in PairedNodes /\ s2' = [s2 EXCEPT ![n] = NoModule]
    BY DEF Pairing!Forget, Pairing!Records, Pairing!Pairings
  <1>2. s1' = s1 \ {n} /\ s5' = s5 \ {n}
    BY DEF Pairing!Forget
  <1>3. Pairing!Pairings' /\ Pairing!UnknownUnpaired'
    BY <1>1, <1>2
    DEF Pairing!Records, Pairing!Pairings, Pairing!UnknownUnpaired
  <1>4. Pairing!PairedToStaying'
    BY <1>1, <1>2
    DEF Pairing!Records, Pairing!Pairings, Pairing!PairedToStaying,
        Pairing!Staying
  <1> QED BY <1>3, <1>4 DEF Pairing!Records

\* One handler moves on; it relies on its module only if that stays.
LEMMA HandlerMoves ==
  ASSUME Pairing!Handlers, UNCHANGED <<s3, s4>>, NEW s \in Chains,
         NEW h \in Pairing!HandlerType,
         Pairing!Relies(h) => Pairing!Staying(Here),
         s10' = [s10 EXCEPT ![s] = h]
  PROVE  Pairing!Handlers'
  <1>1. s10' \in [Chains -> Pairing!HandlerType]
    BY DEF Pairing!Handlers
  <1>2. ASSUME NEW t \in Chains, Pairing!Relies(s10'[t])
        PROVE  Pairing!Staying(Here)
    BY <1>2 DEF Pairing!Handlers
  <1> QED BY <1>1, <1>2 DEF Pairing!Handlers, Pairing!Staying, Pairing!Relies

\* What leaves pairings and handlers alone keeps the invariant.
LEMMA RecordsStay ==
  ASSUME Pairing!Records, UNCHANGED <<Pairing!records, s3, s4>>
  PROVE  Pairing!Records'
  BY DEF Pairing!records, Pairing!Records, Pairing!Pairings,
         Pairing!UnknownUnpaired, Pairing!PairedToStaying, Pairing!Staying

\* A module's nodes are detached, and then its record goes or stays.
LEMMA DeletionKeeps ==
  ASSUME Pairing!PairingAssumption, Pairing!Listed,
         (\E m \in Modules : Pairing!DetachNodes(m)) \/ Pairing!DeleteModule
           \/ Pairing!DeleteModuleFails
  PROVE  Pairing!Listed'
  <1>1. ASSUME NEW m \in Modules, Pairing!DetachNodes(m)
        PROVE  Pairing!Listed'
    <2>1. /\ s4 = NoModule /\ m \in s3 /\ s4' = m
          /\ UNCHANGED <<s1, s5, s3>>
      BY <1>1 DEF Pairing!DetachNodes
    <2>2. s2' = [n \in PairedNodes |-> IF s2[n] = m THEN NoModule
                                       ELSE s2[n]]
      BY <1>1 DEF Pairing!DetachNodes
    <2>3. Pairing!Pairings' /\ Pairing!UnknownUnpaired'
      BY <2>1, <2>2
      DEF Pairing!Listed, Pairing!Records, Pairing!Pairings,
          Pairing!UnknownUnpaired
    <2>4. Pairing!PairedToStaying'
      BY <2>1, <2>2, Pairing!PairingAssumption
      DEF Pairing!Listed, Pairing!Records, Pairing!Pairings,
          Pairing!PairedToStaying, Pairing!Staying, Pairing!PairingAssumption
    <2>5. ASSUME NEW s \in Chains
          PROVE  /\ s10'[s] \in Pairing!HandlerType
                 /\ Pairing!Relies(s10'[s]) => Pairing!Staying(Here)'
      <3>1. s10[s] \in Pairing!HandlerType
            /\ (Pairing!Relies(s10[s]) => Pairing!Staying(Here))
        BY DEF Pairing!Listed, Pairing!Handlers
      <3> DEFINE now == s10[s].detached
                        \/ (m = Here /\ s10[s].step = "checked")
      <3>2. s10'[s] = [s10[s] EXCEPT !.detached = now]
        BY <1>1, <3>1 DEF Pairing!DetachNodes, Pairing!HandlerType
      <3>3. now \in BOOLEAN
        BY <3>1 DEF Pairing!HandlerType
      <3> HIDE DEF now
      <3>4. /\ s10'[s] \in Pairing!HandlerType /\ s10'[s].detached = now
            /\ s10'[s].step = s10[s].step
        BY <3>1, <3>2, <3>3 DEF Pairing!HandlerType
      <3>5. Pairing!Relies(s10'[s]) => Pairing!Relies(s10[s]) /\ m # Here
        BY <3>4 DEF Pairing!Relies, now
      <3> QED BY <2>1, <3>1, <3>4, <3>5 DEF Pairing!Staying
    <2>6. Pairing!Handlers'
      <3>1. s10' = [s \in Chains |-> s10'[s]]
        BY <1>1 DEF Pairing!DetachNodes
      <3> QED BY <2>5, <3>1
              DEF Pairing!Handlers, Pairing!Relies, Pairing!Staying
    <2> QED BY <2>1, <2>3, <2>4, <2>6 DEF Pairing!Listed, Pairing!Records
  <1>2. CASE Pairing!DeleteModule
    BY <1>2
    DEF Pairing!DeleteModule, Pairing!records, Pairing!Listed,
        Pairing!Records, Pairing!Pairings, Pairing!UnknownUnpaired,
        Pairing!PairedToStaying, Pairing!Handlers, Pairing!Relies,
        Pairing!Staying
  <1>3. CASE Pairing!DeleteModuleFails
    BY <1>3
    DEF Pairing!DeleteModuleFails, Pairing!records, Pairing!Listed,
        Pairing!Records, Pairing!Pairings, Pairing!UnknownUnpaired,
        Pairing!PairedToStaying, Pairing!Handlers, Pairing!Relies,
        Pairing!Staying
  <1> QED BY <1>1, <1>2, <1>3

\* A discovery message, or another operator, changes one node.
LEMMA PairingOthersKeep ==
  ASSUME Pairing!PairingAssumption, Pairing!Listed, NEW n \in PairedNodes,
         Pairing!HandleDiscovery(n) \/ Pairing!OtherOperator(n)
  PROVE  Pairing!Listed'
  <1>1. UNCHANGED <<s3, s4, s10>>
    BY DEF Pairing!HandleDiscovery, Pairing!OtherOperator
  <1>2. Pairing!Handlers'
    BY <1>1
    DEF Pairing!Listed, Pairing!Handlers, Pairing!Staying, Pairing!Relies
  <1>3. CASE Pairing!HandleDiscovery(n)
    <2>1. s1' = s1 \cup {n} /\ UNCHANGED <<s2, s5>>
          /\ s2[n] = NoModule
      BY <1>3
      DEF Pairing!HandleDiscovery, Pairing!Listed, Pairing!Records,
          Pairing!UnknownUnpaired
    <2> QED BY <1>1, <1>2, <2>1
            DEF Pairing!Listed, Pairing!Records, Pairing!Pairings,
                Pairing!UnknownUnpaired, Pairing!PairedToStaying,
                Pairing!Staying
  <1>4. CASE Pairing!OtherOperator(n)
    <2>1. ASSUME NEW m \in s3, Pairing!Assign(n, m, m = s4)
          PROVE  Pairing!Records'
      <3>1. m \in Modules \cup {NoModule} /\ (m = s4 \/ Pairing!Staying(m))
        BY DEF Pairing!Listed, Pairing!Staying
      <3> QED BY <1>1, <2>1, <3>1, AssignKeeps DEF Pairing!Listed
    <2>2. ASSUME Pairing!Assign(n, NoModule, FALSE)
          PROVE  Pairing!Records'
      BY <1>1, <2>2, AssignKeeps DEF Pairing!Listed, Pairing!Staying
    <2>3. ASSUME Pairing!Forget(n)
          PROVE  Pairing!Records'
      BY <1>1, <2>3, ForgetKeeps DEF Pairing!Listed
    <2> QED BY <1>1, <1>2, <1>4, <2>1, <2>2, <2>3
            DEF Pairing!OtherOperator, Pairing!Listed
  <1> QED BY <1>3, <1>4

\* The page starts a handler: it has checked nothing yet.
LEMMA StartKeeps ==
  ASSUME Pairing!PairingAssumption, Pairing!Listed,
         \/ Pairing!FetchData
         \/ \E n \in PairedNodes : \/ Pairing!HandlePair(n)
                                   \/ Pairing!HandleUnpair(n)
                                   \/ Pairing!HandleDelete(n)
  PROVE  Pairing!Listed'
  <1>1. UNCHANGED Pairing!service
    BY DEF Pairing!FetchData, Pairing!HandlePair, Pairing!HandleUnpair,
           Pairing!HandleDelete, Pairing!Press
  <1>2. Pairing!Records' /\ UNCHANGED <<s3, s4>>
    BY <1>1, RecordsStay DEF Pairing!service, Pairing!Listed
  <1>3. PICK h \in Pairing!HandlerType : Pairing!Begin(h) /\ ~Pairing!Relies(h)
    <2>1. ASSUME NEW kind \in {"pair", "unpair", "delete"},
                 NEW n \in PairedNodes
          PROVE  /\ [Pairing!Idle EXCEPT !.kind = kind, !.step = "sent",
                                         !.node = n]
                      \in Pairing!HandlerType
                 /\ ~Pairing!Relies([Pairing!Idle EXCEPT
                                       !.kind = kind, !.step = "sent",
                                                         !.node = n])
      BY DEF Pairing!Idle, Pairing!HandlerType, Pairing!Relies
    <2>2. /\ [Pairing!Idle EXCEPT !.kind = "poll", !.step = "lists"]
               \in Pairing!HandlerType
          /\ ~Pairing!Relies([Pairing!Idle EXCEPT !.kind = "poll",
                                                  !.step = "lists"])
      BY DEF Pairing!Idle, Pairing!HandlerType, Pairing!Relies
    <2> QED BY <2>1, <2>2
            DEF Pairing!FetchData, Pairing!HandlePair, Pairing!HandleUnpair,
                Pairing!HandleDelete, Pairing!Press
  <1>4. PICK s \in Chains : s10' = [s10 EXCEPT ![s] = h]
    BY <1>3 DEF Pairing!Begin
  <1> QED BY <1>2, <1>3, <1>4, HandlerMoves DEF Pairing!Listed

\* A command of the page reaches the service.
LEMMA PairingCommandKeeps ==
  ASSUME Pairing!PairingAssumption, Pairing!Listed, NEW s \in Chains,
         Pairing!PairNode(s) \/ Pairing!UnpairNode(s) \/ Pairing!DeleteNode(s)
  PROVE  Pairing!Listed'
  <1>1. UNCHANGED <<s3, s4>> /\ Pairing!Done(s)
    BY DEF Pairing!PairNode, Pairing!UnpairNode, Pairing!DeleteNode
  <1>2. /\ s10[s] \in Pairing!HandlerType
        /\ (Pairing!Relies(s10[s]) => Pairing!Staying(Here))
    BY DEF Pairing!Listed, Pairing!Handlers
  <1>3. Pairing!Handlers'
    <2> DEFINE h == [Pairing!Idle EXCEPT !.kind = s10[s].kind, !.step = "lists"]
    <2>1. h \in Pairing!HandlerType /\ ~Pairing!Relies(h)
      BY <1>2 DEF Pairing!Idle, Pairing!HandlerType, Pairing!Relies
    <2>2. s10' = [s10 EXCEPT ![s] = h]
      BY <1>1 DEF Pairing!Done
    <2> HIDE DEF h
    <2> QED BY <1>1, <2>1, <2>2, HandlerMoves DEF Pairing!Listed
  <1>4. CASE Pairing!PairNode(s)
    <2>1. s10[s].detached \in BOOLEAN /\ Here \in Modules
      BY <1>2 DEF Pairing!HandlerType, Pairing!PairingAssumption
    <2>2. s10[s].detached \/ Pairing!Staying(Here)
      BY <1>2, <1>4 DEF Pairing!PairNode, Pairing!Relies
    <2>3. Pairing!Assign(s10[s].node, Here, s10[s].detached)
      BY <1>4 DEF Pairing!PairNode
    <2> QED BY <1>1, <1>3, <2>1, <2>2, <2>3, AssignKeeps DEF Pairing!Listed
  <1>5. CASE Pairing!UnpairNode(s)
    BY <1>1, <1>3, <1>5, AssignKeeps
    DEF Pairing!UnpairNode, Pairing!Listed, Pairing!Staying
  <1>6. CASE Pairing!DeleteNode(s)
    BY <1>1, <1>3, <1>6, ForgetKeeps DEF Pairing!DeleteNode, Pairing!Listed
  <1> QED BY <1>4, <1>5, <1>6

\* The other steps of a handler read the service or end.
LEMMA PairingHandlerKeeps ==
  ASSUME Pairing!PairingAssumption, Pairing!Listed, NEW s \in Chains,
         \/ Pairing!CheckModule(s)
         \/ Pairing!ListNodes(s)
         \/ Pairing!ListDiscovered(s)
         \/ Pairing!ListsArrive(s)
         \/ Pairing!ListsFail(s)
         \/ Pairing!CommandFails(s)
  PROVE  Pairing!Listed'
  <1>1. UNCHANGED Pairing!service
    BY DEF Pairing!CheckModule, Pairing!ListNodes, Pairing!ListDiscovered,
           Pairing!ListsArrive, Pairing!ListsFail, Pairing!CommandFails
  <1>2. Pairing!Records' /\ UNCHANGED <<s3, s4>>
    BY <1>1, RecordsStay DEF Pairing!service, Pairing!Listed
  <1>3. s10[s] \in Pairing!HandlerType
    BY DEF Pairing!Listed, Pairing!Handlers
  <1>4. \E h \in Pairing!HandlerType :
          /\ Pairing!Relies(h) => Pairing!Staying(Here)
          /\ s10' = [s10 EXCEPT ![s] = h]
    <2>1. CASE Pairing!CheckModule(s)
      <3> DEFINE h == [s10[s] EXCEPT !.step = "checked",
                                     !.detached = (s4 = Here)]
      <3>1. s10' = [s10 EXCEPT ![s] = h]
        BY <2>1 DEF Pairing!CheckModule, Pairing!Listed, Pairing!Handlers
      <3>2. h \in Pairing!HandlerType /\ h.detached = (s4 = Here)
        BY <1>3 DEF Pairing!HandlerType
      <3> HIDE DEF h
      <3>3. Pairing!Relies(h) => Pairing!Staying(Here)
        BY <2>1, <3>2 DEF Pairing!CheckModule, Pairing!Relies, Pairing!Staying
      <3> QED BY <3>1, <3>2, <3>3
    <2>2. CASE Pairing!ListNodes(s)
      <3> DEFINE ns == {n \in s1 : s2[n] = Here}
                 h == [s10[s] EXCEPT !.got = @ \cup {"paired"},
                                     !.paired = ns]
      <3>1. s10' = [s10 EXCEPT ![s] = h] /\ s10[s].step = "lists"
        BY <2>2 DEF Pairing!ListNodes, Pairing!Listed, Pairing!Handlers
      <3>2. ns \in SUBSET PairedNodes
        BY DEF Pairing!Listed, Pairing!Records, Pairing!Pairings
      <3> HIDE DEF ns
      <3>3. h \in Pairing!HandlerType /\ h.step = s10[s].step
        BY <1>3, <3>2 DEF Pairing!HandlerType
      <3> HIDE DEF h
      <3> QED BY <3>1, <3>3 DEF Pairing!Relies
    <2>3. CASE Pairing!ListDiscovered(s)
      <3> DEFINE ns == {n \in s1 : s2[n] = NoModule}
                 h == [s10[s] EXCEPT !.got = @ \cup {"discovered"},
                                     !.discovered = ns]
      <3>1. s10' = [s10 EXCEPT ![s] = h] /\ s10[s].step = "lists"
        BY <2>3 DEF Pairing!ListDiscovered, Pairing!Listed, Pairing!Handlers
      <3>2. ns \in SUBSET PairedNodes
        BY DEF Pairing!Listed, Pairing!Records, Pairing!Pairings
      <3> HIDE DEF ns
      <3>3. h \in Pairing!HandlerType /\ h.step = s10[s].step
        BY <1>3, <3>2 DEF Pairing!HandlerType
      <3> HIDE DEF h
      <3> QED BY <3>1, <3>3 DEF Pairing!Relies
    <2>4. CASE \/ Pairing!ListsArrive(s)
               \/ Pairing!ListsFail(s)
               \/ Pairing!CommandFails(s)
      <3>1. /\ Pairing!Idle \in Pairing!HandlerType
            /\ ~Pairing!Relies(Pairing!Idle)
        BY DEF Pairing!Idle, Pairing!HandlerType, Pairing!Relies
      <3> QED BY <2>4, <3>1
              DEF Pairing!ListsArrive, Pairing!ListsFail,
                  Pairing!CommandFails, Pairing!End
    <2> QED BY <2>1, <2>2, <2>3, <2>4
  <1> QED BY <1>2, <1>4, HandlerMoves DEF Pairing!Listed

\* Every step keeps the invariant.
LEMMA ListedStep ==
  ASSUME Pairing!PairingAssumption, Pairing!Listed,
         [Pairing!Next]_(Pairing!pairingVars)
  PROVE  Pairing!Listed'
  <1>1. CASE UNCHANGED Pairing!pairingVars
    BY <1>1
    DEF Pairing!pairingVars, Pairing!service, Pairing!records, Pairing!Listed,
        Pairing!Records, Pairing!Pairings, Pairing!UnknownUnpaired,
        Pairing!PairedToStaying, Pairing!Handlers, Pairing!Relies,
        Pairing!Staying
  <1>2. CASE Pairing!Next
    BY <1>2, DeletionKeeps, PairingOthersKeep, StartKeeps,
       PairingCommandKeeps, PairingHandlerKeeps DEF Pairing!Next
  <1> QED BY <1>1, <1>2

\* The rest of the page, and the history, keep their types.
LEMMA PairingTypes ==
  ASSUME Pairing!PairingAssumption, Pairing!PairingInv, Pairing!Listed',
         [Pairing!Next]_(Pairing!pairingVars)
  PROVE  Pairing!TypeOK'
  <1>1. /\ s3' \subseteq Modules /\ s1' \subseteq PairedNodes
        /\ s2' \in [PairedNodes -> Modules \cup {NoModule}]
        /\ s4' \in Modules \cup {NoModule}
        /\ s10' \in [Chains -> Pairing!HandlerType]
    BY DEF Pairing!Listed, Pairing!Records, Pairing!Pairings, Pairing!Handlers
  <1>2. \A s \in Chains : s10[s] \in Pairing!HandlerType
    BY DEF Pairing!PairingInv, Pairing!TypeOK
  <1>3. s5' \subseteq PairedNodes
    <2>1. ASSUME NEW n, NEW m, NEW orphan, Pairing!Assign(n, m, orphan)
          PROVE  s5' \subseteq PairedNodes
      BY <2>1 DEF Pairing!Assign, Pairing!PairingInv, Pairing!TypeOK
    <2>2. ASSUME NEW n, Pairing!Forget(n)
          PROVE  s5' \subseteq PairedNodes
      BY <2>2 DEF Pairing!Forget, Pairing!PairingInv, Pairing!TypeOK
    <2>3. \/ s5' = s5
          \/ \E n, m, orphan : Pairing!Assign(n, m, orphan)
          \/ \E n : Pairing!Forget(n)
      BY DEF Pairing!Next, Pairing!pairingVars, Pairing!service,
             Pairing!records, Pairing!FetchData, Pairing!DeleteModule,
             Pairing!DeleteModuleFails, Pairing!DetachNodes,
             Pairing!HandleDiscovery, Pairing!OtherOperator,
             Pairing!HandlePair, Pairing!HandleUnpair, Pairing!HandleDelete,
             Pairing!Press, Pairing!CheckModule, Pairing!PairNode,
             Pairing!UnpairNode, Pairing!DeleteNode, Pairing!ListNodes,
             Pairing!ListDiscovered, Pairing!ListsArrive, Pairing!ListsFail,
             Pairing!CommandFails
    <2> QED BY <2>1, <2>2, <2>3 DEF Pairing!PairingInv, Pairing!TypeOK
  <1>4. /\ s6' \subseteq PairedNodes /\ s7' \subseteq PairedNodes
        /\ s8' \in BOOLEAN /\ s9' \in PairedNodes \cup {NoNode}
    <2>0. /\ s6 \subseteq PairedNodes /\ s7 \subseteq PairedNodes
          /\ s8 \in BOOLEAN /\ s9 \in PairedNodes \cup {NoNode}
      BY DEF Pairing!PairingInv, Pairing!TypeOK
    <2>1. ASSUME NEW s \in Chains,
                 \/ Pairing!ListsArrive(s)
                 \/ Pairing!ListsFail(s)
                 \/ Pairing!CommandFails(s)
          PROVE  /\ s6' \subseteq PairedNodes /\ s7' \subseteq PairedNodes
                 /\ s8' \in BOOLEAN /\ s9' \in PairedNodes \cup {NoNode}
      <3>1. /\ s10[s].paired \subseteq PairedNodes
            /\ s10[s].discovered \subseteq PairedNodes
        BY <1>2 DEF Pairing!HandlerType
      <3> QED BY <2>0, <2>1, <3>1
              DEF Pairing!ListsArrive, Pairing!ListsFail,
                  Pairing!CommandFails, Pairing!End
    <2>2. ASSUME NEW n \in PairedNodes,
                 \/ Pairing!HandlePair(n)
                 \/ Pairing!HandleUnpair(n)
                 \/ Pairing!HandleDelete(n)
          PROVE  /\ s6' \subseteq PairedNodes /\ s7' \subseteq PairedNodes
                 /\ s8' \in BOOLEAN /\ s9' \in PairedNodes \cup {NoNode}
      BY <2>0, <2>2
      DEF Pairing!HandlePair, Pairing!HandleUnpair, Pairing!HandleDelete,
          Pairing!Press
    <2>3. \/ UNCHANGED Pairing!page
          \/ \E s \in Chains : \/ Pairing!ListsArrive(s)
                               \/ Pairing!ListsFail(s)
                               \/ Pairing!CommandFails(s)
          \/ \E n \in PairedNodes : \/ Pairing!HandlePair(n)
                                    \/ Pairing!HandleUnpair(n)
                                    \/ Pairing!HandleDelete(n)
      BY DEF Pairing!Next, Pairing!pairingVars, Pairing!FetchData,
             Pairing!DeleteModule, Pairing!DeleteModuleFails,
             Pairing!DetachNodes, Pairing!HandleDiscovery,
             Pairing!OtherOperator, Pairing!CheckModule, Pairing!PairNode,
             Pairing!UnpairNode, Pairing!DeleteNode, Pairing!ListNodes,
             Pairing!ListDiscovered
    <2> QED BY <2>0, <2>1, <2>2, <2>3 DEF Pairing!page
  <1> QED BY <1>1, <1>3, <1>4 DEF Pairing!TypeOK

\* The invariant holds when the page loads.
LEMMA PairingInit ==
  ASSUME Pairing!PairingAssumption, Pairing!Init
  PROVE  Pairing!PairingInv
  <1>1. s8 \in BOOLEAN
    BY DEF Pairing!Init
  <1>2. Pairing!Listed
    BY ListedInit
  <1> QED BY <1>1, <1>2
          DEF Pairing!Init, Pairing!PairingInv, Pairing!TypeOK,
              Pairing!Listed, Pairing!Handlers

\* Every step keeps it.
LEMMA PairingStep ==
  ASSUME Pairing!PairingAssumption, Pairing!PairingInv,
         [Pairing!Next]_(Pairing!pairingVars)
  PROVE  Pairing!PairingInv'
  <1>1. Pairing!Listed'
    BY ListedStep DEF Pairing!PairingInv
  <1> QED BY <1>1, PairingTypes DEF Pairing!PairingInv

\* No node disappears from all lists.
LEMMA PairingFacts ==
  ASSUME Pairing!PairingInv
  PROVE  Pairing!NodesStayListed
  BY DEF Pairing!PairingInv, Pairing!Listed, Pairing!Records,
         Pairing!PairedToStaying, Pairing!Staying, Pairing!NodesStayListed

\* The invariant of the page that pairs nodes holds in every behaviour.
THEOREM PairingInvariant ==
  PagesSpec => [](view = "pairing" => Pairing!PairingInv)
  <1> DEFINE Inv == view = "pairing" => Pairing!PairingInv
  <1>0. PagesInit => Inv
    BY PairingInit, PagesAssumption DEF PagesInit, PagesAssumption
  <1>1. ASSUME Inv, [PagesNext]_pagesVars
        PROVE  Inv'
    <2>1. view' = view
      BY <1>1 DEF PagesNext, pagesVars
    <2>2. view = "pairing" => [Pairing!Next]_(Pairing!pairingVars)
      BY <1>1
      DEF PagesNext, Step, pagesVars, shared, analytics, Pairing!pairingVars,
          Pairing!service, Pairing!page, Pairing!records
    <2> QED BY <1>1, <2>1, <2>2, PairingStep, PagesAssumption
            DEF PagesAssumption
  <1> QED BY <1>0, <1>1, PTL DEF PagesSpec

\* For any nodes, modules and handlers side by side: a node with a record is
\* in the list of discovered nodes or paired to a module that exists, unless
\* its pairing overlapped the module's deletion (repository.go, DeleteModule).
THEOREM NodesAreListed == PagesSpec => []NodesStayListed
  <1>1. (view = "pairing" => Pairing!PairingInv) => NodesStayListed
    BY PairingFacts DEF NodesStayListed
  <1> QED BY <1>1, PairingInvariant, PTL

-----------------------------------------------------------------------------
(* The portal of a node.                                                   *)
(* Here s1 is token, s2 field, s3 dirty, s4 list, s5 rows, s6 editing, s7  *)
(* overlay, s8 net, s9 devToken, s10 ram, s11 flash, s12 up, s13 typed,    *)
(* s14 opened, s15 moved.                                                  *)

\* The instance means the same operators.
LEMMA PortalMeans ==
  /\ \A q, i : Portal!RemoveAt(q, i) = RemoveAt(q, i)
  /\ \A q : Portal!ToSet(q) = ToSet(q)
  <1>1. \A q, i : Portal!RemoveAt(q, i) = RemoveAt(q, i)
    BY Zenon DEF Portal!RemoveAt, RemoveAt
  <1>2. \A q : Portal!ToSet(q) = ToSet(q)
    BY Zenon DEF Portal!ToSet, ToSet
  <1> QED BY <1>1, <1>2

\* The lists of rows are the sequences of rows that are short enough.
LEMMA RowListsAreSeqs ==
  ASSUME Portal!PortalAssumption, NEW q
  PROVE  q \in Portal!RowLists <=> q \in Seq(1..MaxRow) /\ Len(q) \in 0..MaxRow
  <1>1. ASSUME q \in Portal!RowLists
        PROVE  q \in Seq(1..MaxRow) /\ Len(q) \in 0..MaxRow
    <2>1. PICK n \in 0..MaxRow : q \in [1..n -> 1..MaxRow]
      BY <1>1 DEF Portal!RowLists
    <2>2. n \in Nat /\ q \in Seq(1..MaxRow)
      BY <2>1, SeqDef DEF Portal!PortalAssumption
    <2>3. DOMAIN q = 1..n /\ DOMAIN q = 1..Len(q) /\ Len(q) \in Nat
      BY <2>1, <2>2, LenProperties
    <2> QED BY <2>2, <2>3, <2>1
  <1>2. ASSUME q \in Seq(1..MaxRow), Len(q) \in 0..MaxRow
        PROVE  q \in Portal!RowLists
    <2>1. q \in [1..Len(q) -> 1..MaxRow]
      BY <1>2, LenProperties
    <2> QED BY <1>2, <2>1 DEF Portal!RowLists
  <1> QED BY <1>1, <1>2

\* A list of distinct rows that lacks one is not full.
LEMMA RoomForOne ==
  ASSUME Portal!PortalAssumption, NEW q \in Seq(1..MaxRow),
         \A i, j \in DOMAIN q : q[i] = q[j] => i = j,
         NEW r \in 1..MaxRow, r \notin ToSet(q)
  PROVE  Len(q) + 1 <= MaxRow
  <1> DEFINE S == (1..MaxRow) \ {r}
  <1>1. IsFiniteSet(1..MaxRow) /\ Cardinality(1..MaxRow) = MaxRow
    BY FS_Interval DEF Portal!PortalAssumption
  <1>2. IsFiniteSet(S) /\ Cardinality(S) = MaxRow - 1
    BY <1>1, FS_RemoveElement
  <1>3. DOMAIN q = 1..Len(q) /\ Len(q) \in Nat
    BY LenProperties
  <1>4. IsFiniteSet(1..Len(q)) /\ Cardinality(1..Len(q)) = Len(q)
    <2>1. 1 \in Int /\ Len(q) \in Int
      BY <1>3
    <2>2. /\ IsFiniteSet(1..Len(q))
          /\ Cardinality(1..Len(q)) = IF 1 > Len(q) THEN 0 ELSE Len(q) - 1 + 1
      BY <2>1, FS_Interval, Zenon
    <2> QED BY <1>3, <2>2
  <1>5. \A i \in 1..Len(q) : q[i] \in S
    BY <1>3, ElementOfSeq DEF ToSet
  <1>6. q \in Injection(1..Len(q), S)
    BY <1>3, <1>5, LenProperties DEF Injection, IsInjective
  <1>7. Cardinality(1..Len(q)) <= Cardinality(S)
    BY <1>2, <1>6, FS_Injection
  <1> QED BY <1>2, <1>3, <1>4, <1>7 DEF Portal!PortalAssumption

\* The requests of the page and what they become.
LEMMA RequestShapes ==
  ASSUME Portal!PortalAssumption, s1 \in 0..MaxLogins
  PROVE  /\ Portal!Quiet \in Portal!RequestType /\ Portal!SentPass(Portal!Quiet)
         /\ \A op \in Portal!Ops : Portal!Request(op) \in Portal!RequestType
         /\ \A op \in Portal!Ops \ {"import"} :
              Portal!SentPass(Portal!Request(op))
  <1>1. 0 \in 0..MaxLogins /\ "ask" \in Portal!Ops
    BY DEF Portal!PortalAssumption, Portal!Ops, Portal!Saves
  <1>2. Portal!Quiet \in Portal!RequestType /\ Portal!SentPass(Portal!Quiet)
    BY <1>1 DEF Portal!Quiet, Portal!RequestType, Portal!SentPass
  <1>3. ASSUME NEW op \in Portal!Ops
        PROVE  /\ Portal!Request(op) \in Portal!RequestType
               /\ op # "import" => Portal!SentPass(Portal!Request(op))
    <2>1. Portal!Request(op).op = op /\ Portal!Request(op).pass = None
      BY DEF Portal!Quiet, Portal!Request
    <2> QED BY <2>1
            DEF Portal!Quiet, Portal!Request, Portal!RequestType,
                Portal!SentPass
  <1> QED BY <1>2, <1>3

\* One request changes; what else is on its way stays.
LEMMA OneRequest ==
  ASSUME Portal!NetSound, NEW s \in Requests, NEW r \in Portal!RequestType,
         Portal!SentPass(r)',
         s8' = [s8 EXCEPT ![s] = r], s13 \subseteq s13'
  PROVE  Portal!NetSound'
  <1>1. s8' \in [Requests -> Portal!RequestType]
    BY DEF Portal!NetSound
  <1>2. \A t \in Requests : Portal!SentPass(s8[t])'
    BY DEF Portal!NetSound, Portal!SentPass
  <1> QED BY <1>1, <1>2 DEF Portal!NetSound, Portal!SentPass

\* The page opens as it was left, with nothing on its way.
LEMMA PortalInit ==
  ASSUME Portal!PortalAssumption, Portal!Init
  PROVE  Portal!PortalInv
  <1>1. 0 \in 0..MaxLogins /\ 0 \in 0..MaxRow
    BY DEF Portal!PortalAssumption
  <1>2. <<>> \in Portal!RowLists /\ DOMAIN <<>> = {}
    <2>1. <<>> \in Seq(1..MaxRow) /\ Len(<<>>) = 0 /\ DOMAIN <<>> = 1..0
      BY EmptySeq, LenProperties
    <2>2. 1..0 = {}
      OBVIOUS
    <2> QED BY <1>1, <2>1, <2>2, RowListsAreSeqs
  <1>3. Portal!NetSound
    BY <1>1, RequestShapes DEF Portal!Init, Portal!NetSound
  <1>4. Portal!TableSound
    BY <1>1, <1>2 DEF Portal!Init, Portal!TableSound, Portal!EditedRowIsOpened
  <1>5. Portal!ScreenSound /\ Portal!NodeSound
    BY <1>1
    DEF Portal!Init, Portal!ScreenSound, Portal!NodeSound, Portal!Passwords
  <1> QED BY <1>3, <1>4, <1>5 DEF Portal!PortalInv

\* What does not touch a part keeps it.
LEMMA PortalParts ==
  /\ Portal!TableSound /\ UNCHANGED <<Portal!table, s14, s15>>
       => Portal!TableSound'
  /\ Portal!NetSound /\ UNCHANGED <<s8, s13>> => Portal!NetSound'
  /\ Portal!NodeSound /\ s13 \subseteq s13' /\ UNCHANGED Portal!node
       => Portal!NodeSound'
  /\ Portal!ScreenSound /\ UNCHANGED <<s1, Portal!form, s7, s13>>
       => Portal!ScreenSound'
  BY DEF Portal!TableSound, Portal!table, Portal!EditedRowIsOpened,
         Portal!NetSound, Portal!SentPass, Portal!NodeSound, Portal!node,
         Portal!ScreenSound, Portal!form

\* Typing, and opening, removing or adding a row, keeps each part.
LEMMA EditKeeps ==
  ASSUME Portal!PortalAssumption, Portal!PortalInv,
         \/ \E p \in {"new", "blank"} : Portal!TypePassword(p)
         \/ \E i \in 0..Len(s5) : Portal!EditRow(i)
         \/ \E i \in DOMAIN s5 : Portal!RemoveRow(i)
         \/ Portal!AddRow
  PROVE  Portal!PortalInv'
  <1>0. /\ s5 \in Seq(1..MaxRow) /\ Len(s5) \in 0..MaxRow
        /\ DOMAIN s5 = 1..Len(s5) /\ MaxRow \in Nat
        /\ \A i \in 1..Len(s5) : s5[i] \in 1..MaxRow
    BY RowListsAreSeqs, LenProperties, ElementOfSeq
    DEF Portal!PortalInv, Portal!TableSound, Portal!PortalAssumption
  <1>1. ASSUME NEW p \in {"new", "blank"}, Portal!TypePassword(p)
        PROVE  Portal!PortalInv'
    <2>1. /\ s2' = p /\ s3' = TRUE /\ s13' = s13 \cup {p}
          /\ UNCHANGED <<s1, Portal!table, s7, s8, Portal!node, s14, s15>>
      BY <1>1 DEF Portal!TypePassword
    <2>2. Portal!ScreenSound' /\ Portal!NetSound'
      BY <2>1
      DEF Portal!PortalInv, Portal!ScreenSound, Portal!NetSound,
          Portal!SentPass, Portal!Passwords
    <2> QED BY <2>1, <2>2, PortalParts DEF Portal!PortalInv
  <1>2. ASSUME NEW i \in 0..Len(s5), Portal!EditRow(i)
        PROVE  Portal!PortalInv'
    <2>1. /\ s5' = s5 /\ s6' = i /\ s15' = FALSE
          /\ s14' = IF i = 0 THEN 0 ELSE s5[i]
          /\ UNCHANGED <<s1, Portal!form, s4, s7, s8, Portal!node, s13>>
      BY <1>2 DEF Portal!EditRow, Portal!Open
    <2>2. Portal!TableSound'
      <3>1. s6' \in 0..MaxRow /\ s14' \in 0..MaxRow
        BY <1>0, <2>1
      <3>2. Portal!EditedRowIsOpened'
        BY <1>0, <2>1 DEF Portal!EditedRowIsOpened
      <3> QED BY <2>1, <3>1, <3>2 DEF Portal!PortalInv, Portal!TableSound
    <2> QED BY <2>1, <2>2, PortalParts DEF Portal!PortalInv
  <1>3. ASSUME NEW i \in DOMAIN s5, Portal!RemoveRow(i)
        PROVE  Portal!PortalInv'
    <2>1. /\ s5' = RemoveAt(s5, i)
          /\ s6' = IF s6 = i THEN 0
                   ELSE IF s6 > i THEN s6 - 1 ELSE s6
          /\ s14' = IF s6 = i THEN 0 ELSE s14
          /\ UNCHANGED <<s1, Portal!form, s4, s7, s8, Portal!node, s13, s15>>
      BY <1>3, PortalMeans DEF Portal!RemoveRow
    <2>2. /\ s5' \in Seq(1..MaxRow) /\ Len(s5') = Len(s5) - 1
          /\ \A j \in 1..Len(s5) - 1 :
               s5'[j] = IF j < i THEN s5[j] ELSE s5[j + 1]
      BY <1>0, <2>1, RemoveAtShifts
    <2>3. s5' \in Portal!RowLists /\ DOMAIN s5' = 1..Len(s5) - 1
      BY <1>0, <2>2, RowListsAreSeqs, LenProperties
    <2>4. ASSUME NEW j \in DOMAIN s5', NEW k \in DOMAIN s5',
                 s5'[j] = s5'[k]
          PROVE  j = k
      <3> DEFINE From(x) == IF x < i THEN x ELSE x + 1
      <3>1. \A x \in DOMAIN s5' : /\ From(x) \in DOMAIN s5
                                  /\ s5'[x] = s5[From(x)]
        <4>1. TAKE x \in DOMAIN s5'
        <4>2. x \in 1..Len(s5) - 1 /\ x \in Int /\ i \in 1..Len(s5)
          BY <1>0, <2>3
        <4>3. s5'[x] = IF x < i THEN s5[x] ELSE s5[x + 1]
          BY <2>2, <4>2
        <4>4. From(x) \in DOMAIN s5
          BY <1>0, <4>2
        <4> QED BY <4>3, <4>4
      <3>2. From(j) = From(k)
        BY <2>4, <3>1 DEF Portal!PortalInv, Portal!TableSound
      <3> QED BY <1>0, <2>3, <3>2
    <2>5. Portal!EditedRowIsOpened'
      <3>1. SUFFICES ASSUME s6' # 0, ~s15'
                     PROVE  s6' \in DOMAIN s5'
                            /\ s5'[s6'] = s14'
        BY DEF Portal!EditedRowIsOpened
      <3>2. s6 # i /\ s6 # 0 /\ ~s15 /\ s14' = s14
        BY <1>0, <2>1, <3>1 DEF Portal!PortalInv, Portal!TableSound
      <3>3. s6 \in DOMAIN s5 /\ s5[s6] = s14
        BY <3>2
        DEF Portal!PortalInv, Portal!TableSound, Portal!EditedRowIsOpened
      <3>4. CASE s6 < i
        <4>1. s6' = s6 /\ s6 \in 1..Len(s5) - 1
          BY <1>0, <2>1, <3>3, <3>4
        <4> QED BY <2>2, <2>3, <3>2, <3>3, <3>4, <4>1
      <3>5. CASE s6 > i
        <4>1. s6' = s6 - 1 /\ s6 - 1 \in 1..Len(s5) - 1
              /\ ~(s6 - 1 < i) /\ (s6 - 1) + 1 = s6
          BY <1>0, <2>1, <3>3, <3>5
        <4> QED BY <2>2, <2>3, <3>2, <3>3, <4>1
      <3> QED BY <1>0, <3>2, <3>3, <3>4, <3>5
    <2>6. s6' \in 0..MaxRow /\ s14' \in 0..MaxRow
      BY <1>0, <2>1 DEF Portal!PortalInv, Portal!TableSound
    <2>7. Portal!TableSound'
      BY <2>1, <2>3, <2>4, <2>5, <2>6 DEF Portal!PortalInv, Portal!TableSound
    <2> QED BY <2>1, <2>7, PortalParts DEF Portal!PortalInv
  <1>4. CASE Portal!AddRow
    <2>1. PICK r \in 1..MaxRow \ ToSet(s5) : s5' = Append(s5, r)
      BY <1>4, PortalMeans DEF Portal!AddRow
    <2>2. /\ s6' = Len(s5') /\ s15' = FALSE
          /\ s14' = IF Len(s5') = 0 THEN 0 ELSE s5'[Len(s5')]
          /\ UNCHANGED <<s1, Portal!form, s4, s7, s8, Portal!node, s13>>
      BY <1>4, PortalMeans DEF Portal!AddRow, Portal!Open
    <2>3. /\ s5' \in Seq(1..MaxRow) /\ Len(s5') = Len(s5) + 1
          /\ \A i \in 1..Len(s5) : s5'[i] = s5[i]
          /\ s5'[Len(s5) + 1] = r
      BY <1>0, <2>1, AppendProperties
    <2>4. Len(s5) + 1 <= MaxRow
      BY <1>0, <2>1, RoomForOne DEF Portal!PortalInv, Portal!TableSound
    <2>5. s5' \in Portal!RowLists /\ DOMAIN s5' = 1..Len(s5) + 1
      BY <1>0, <2>3, <2>4, RowListsAreSeqs, LenProperties
    <2>6. ASSUME NEW j \in DOMAIN s5', NEW k \in DOMAIN s5',
                 s5'[j] = s5'[k]
          PROVE  j = k
      <3>1. \A i \in 1..Len(s5) : s5[i] # r
        BY <1>0, <2>1 DEF ToSet
      <3>2. \A x \in DOMAIN s5' : \/ x = Len(s5) + 1 /\ s5'[x] = r
                                  \/ /\ x \in DOMAIN s5
                                     /\ s5'[x] = s5[x] /\ s5[x] # r
        BY <1>0, <2>3, <2>5, <3>1
      <3> QED BY <2>6, <3>2 DEF Portal!PortalInv, Portal!TableSound
    <2>7. Portal!TableSound'
      <3>1. /\ s6' = Len(s5) + 1 /\ s14' = r
            /\ s6' \in DOMAIN s5' /\ s5'[s6'] = r
        BY <1>0, <2>2, <2>3, <2>5
      <3>2. s6' \in 0..MaxRow /\ s14' \in 0..MaxRow
        BY <1>0, <2>4, <3>1
      <3> QED BY <2>2, <2>5, <2>6, <3>1, <3>2
              DEF Portal!PortalInv, Portal!TableSound,
                  Portal!EditedRowIsOpened
    <2> QED BY <2>2, <2>7, PortalParts DEF Portal!PortalInv
  <1> QED BY <1>1, <1>2, <1>3, <1>4

\* Every button of the page sends a request that it may send.
LEMMA SendKeeps ==
  ASSUME Portal!PortalAssumption, Portal!PortalInv,
         \/ Portal!SubmitLogin \/ Portal!LoadStatus \/ Portal!LoadLocalControl
         \/ Portal!SaveForm
         \/ Portal!SaveRows
         \/ Portal!SaveAccount
         \/ Portal!ImportConfig
         \/ Portal!StartOtaUpdate
  PROVE  Portal!PortalInv'
  <1>0. s1 \in 0..MaxLogins
    BY DEF Portal!PortalInv, Portal!ScreenSound
  <1>1. PICK r \in Portal!RequestType : Portal!SentPass(r) /\ Portal!Send(r)
    <2>1. CASE Portal!SaveForm
      <3> DEFINE r == [Portal!Request("form") EXCEPT !.pass = IF s3 THEN s2
                                                              ELSE None]
      <3>1. /\ Portal!Request("form") \in Portal!RequestType
            /\ Portal!Request("form").op = "form"
        BY <1>0, RequestShapes
        DEF Portal!Ops, Portal!Saves, Portal!Request, Portal!Quiet
      <3>2. (IF s3 THEN s2 ELSE None) \in
               (s13 \cap Portal!Passwords) \cup {None}
        BY DEF Portal!PortalInv, Portal!ScreenSound
      <3>3. r \in Portal!RequestType /\ Portal!SentPass(r)
        BY <3>1, <3>2 DEF Portal!RequestType, Portal!SentPass
      <3> QED BY <2>1, <3>3 DEF Portal!SaveForm
    <2>2. CASE Portal!ImportConfig
      <3>1. PICK p \in {"old", "blank"} :
              Portal!Send([Portal!Request("import") EXCEPT !.pass = p])
        BY <2>2 DEF Portal!ImportConfig
      <3>2. /\ Portal!Request("import") \in Portal!RequestType
            /\ Portal!Request("import").op = "import"
        BY <1>0, RequestShapes
        DEF Portal!Ops, Portal!Saves, Portal!Request, Portal!Quiet
      <3>3. [Portal!Request("import") EXCEPT !.pass = p] \in Portal!RequestType
            /\ Portal!SentPass([Portal!Request("import") EXCEPT !.pass = p])
        BY <3>2 DEF Portal!RequestType, Portal!SentPass, Portal!Passwords
      <3> QED BY <3>1, <3>3
    <2>3. CASE \/ Portal!SubmitLogin
               \/ Portal!LoadStatus
               \/ Portal!LoadLocalControl
               \/ Portal!SaveRows \/ Portal!SaveAccount \/ Portal!StartOtaUpdate
      <3>1. PICK op \in Portal!Ops \ {"import"} :
              Portal!Send(Portal!Request(op))
        BY <2>3
        DEF Portal!SubmitLogin, Portal!LoadStatus, Portal!LoadLocalControl,
            Portal!SaveRows, Portal!SaveAccount, Portal!StartOtaUpdate,
            Portal!Ops, Portal!Saves
      <3> QED BY <1>0, <3>1, RequestShapes
    <2> QED BY <2>1, <2>2, <2>3
  <1>2. PICK s \in Requests : s8' = [s8 EXCEPT ![s] = r]
    BY <1>1 DEF Portal!Send
  <1>3. UNCHANGED <<Portal!screen, Portal!node, s13, s14, s15>>
    BY <1>1 DEF Portal!Send
  <1>4. Portal!NetSound'
    BY <1>1, <1>2, <1>3, OneRequest DEF Portal!PortalInv, Portal!SentPass
  <1> QED BY <1>3, <1>4, PortalParts
          DEF Portal!PortalInv, Portal!screen, Portal!form, Portal!table

\* The reply to a request: only its state, and a new token, change.
LEMMA ReplyKeeps ==
  ASSUME Portal!NetSound, NEW s \in Requests, NEW answer \in {"ok", "error",
         "unauthorized"}, NEW t \in 0..MaxLogins, s13 \subseteq s13',
         \/ Portal!Reply(s, answer)
         \/ s8' = [s8 EXCEPT ![s].at = answer, ![s].tok = t]
  PROVE  Portal!NetSound'
  <1>1. s8[s] \in Portal!RequestType /\ Portal!SentPass(s8[s])
    BY DEF Portal!NetSound
  <1>2. PICK r \in Portal!RequestType : /\ s8' = [s8 EXCEPT ![s] = r]
                                        /\ r.op = s8[s].op
                                        /\ r.pass = s8[s].pass
    <2>1. CASE Portal!Reply(s, answer)
      <3>1. s8' = [s8 EXCEPT ![s] = [s8[s] EXCEPT !.at = answer]]
        BY <2>1 DEF Portal!Reply, Portal!NetSound
      <3>2. /\ [s8[s] EXCEPT !.at = answer] \in Portal!RequestType
            /\ [s8[s] EXCEPT !.at = answer].op = s8[s].op
            /\ [s8[s] EXCEPT !.at = answer].pass = s8[s].pass
        BY <1>1 DEF Portal!RequestType
      <3> QED BY <3>1, <3>2
    <2>2. CASE s8' = [s8 EXCEPT ![s].at = answer, ![s].tok = t]
      <3>1. s8' = [s8 EXCEPT ![s] =
                      [s8[s] EXCEPT !.at = answer, !.tok = t]]
        BY <2>2 DEF Portal!NetSound
      <3>2. /\ [s8[s] EXCEPT !.at = answer, !.tok = t] \in Portal!RequestType
            /\ [s8[s] EXCEPT !.at = answer, !.tok = t].op = s8[s].op
            /\ [s8[s] EXCEPT !.at = answer, !.tok = t].pass = s8[s].pass
        BY <1>1 DEF Portal!RequestType
      <3> QED BY <3>1, <3>2
    <2> QED BY <2>1, <2>2
  <1>3. Portal!SentPass(r)'
    BY <1>1, <1>2 DEF Portal!SentPass
  <1> QED BY <1>2, <1>3, OneRequest

\* The node handles a request; its password becomes one that was typed, or
\* that of a file.
LEMMA HandleKeeps ==
  ASSUME Portal!PortalAssumption, Portal!PortalInv, NEW s \in Requests,
         Portal!Handle(s)
  PROVE  Portal!PortalInv' /\ Portal!PasswordKept
  <1>0. /\ s12 /\ s8[s] \in Portal!RequestType /\ Portal!SentPass(s8[s])
        /\ UNCHANGED <<Portal!screen, s13, s14, s15>>
    BY DEF Portal!Handle, Portal!PortalInv, Portal!NetSound
  <1>1. SUFFICES Portal!NetSound' /\ Portal!NodeSound' /\ Portal!PasswordKept
    BY <1>0, PortalParts
    DEF Portal!PortalInv, Portal!screen, Portal!form, Portal!table
  <1>2. CASE Portal!Reply(s, "unauthorized") /\ UNCHANGED Portal!node
    <2>1. Portal!NetSound'
      BY <1>0, <1>2, ReplyKeeps DEF Portal!PortalInv, Portal!NodeSound
    <2> QED BY <1>0, <1>2, <2>1, PortalParts
            DEF Portal!PortalInv, Portal!PasswordKept, Portal!node
  <1>3. CASE Portal!HandleSave(s)
    <2> DEFINE r == s8[s]
    <2>1. /\ r.op \in Portal!Saves /\ s10' = Portal!Stored(s10, r)
          /\ s9' \in {0, s9}
      BY <1>3 DEF Portal!HandleSave
    <2>2. /\ s10' \in Portal!Passwords
          /\ r.op # "form" => s10' = s10
          /\ s10' \in s13 \cup {s10}
      BY <1>0, <2>1
      DEF Portal!Stored, Portal!SentPass, Portal!PortalInv, Portal!NodeSound,
          Portal!ScreenSound
    <2>3. s9' \in 0..MaxLogins
      BY <2>1 DEF Portal!PortalInv, Portal!NodeSound, Portal!PortalAssumption
    <2>4. CASE Portal!Reply(s, "ok") /\ s12' = FALSE
               /\ s11' = IF r.op = "update" THEN s11
                         ELSE IF r.op = "import" THEN r.pass ELSE s10'
      <3>1. Portal!NetSound'
        BY <1>0, <2>4, ReplyKeeps DEF Portal!PortalInv, Portal!NodeSound
      <3>2. s11' \in Portal!Passwords
        BY <1>0, <2>2, <2>4
        DEF Portal!SentPass, Portal!PortalInv, Portal!NodeSound
      <3>3. Portal!PasswordKept
        <4>1. r.op = "import" \/ s11' \in s13 \cup {s11, s10}
          BY <2>2, <2>4
        <4>2. s13' = s13 /\ s10 \in s13 \cup {s11}
          BY <1>0 DEF Portal!PortalInv, Portal!NodeSound
        <4> QED BY <4>1, <4>2 DEF Portal!PasswordKept
      <3> QED BY <2>2, <2>3, <2>4, <3>1, <3>2, <3>3 DEF Portal!NodeSound
    <2>5. CASE Portal!Reply(s, "error") /\ UNCHANGED <<s11, s12>>
      <3>1. Portal!NetSound'
        BY <1>0, <2>5, ReplyKeeps DEF Portal!PortalInv, Portal!NodeSound
      <3> QED BY <1>0, <2>2, <2>3, <2>5, <3>1
              DEF Portal!PortalInv, Portal!NodeSound, Portal!PasswordKept
    <2> QED BY <1>3, <2>4, <2>5 DEF Portal!HandleSave
  <1>4. CASE Portal!HandleLogin(s)
    <2>1. UNCHANGED <<s10, s12>>
      BY <1>4 DEF Portal!HandleLogin
    <2>2. CASE /\ s9 < MaxLogins /\ s9' = s9 + 1
               /\ s11' = s10
               /\ s8' = [s8 EXCEPT ![s].at = "ok", ![s].tok = s9']
      <3>1. s9' \in 0..MaxLogins
        BY <2>2
        DEF Portal!PortalInv, Portal!NodeSound, Portal!PortalAssumption
      <3>2. Portal!NetSound'
        BY <1>0, <2>2, <3>1, ReplyKeeps DEF Portal!PortalInv
      <3> QED BY <1>0, <2>1, <2>2, <3>1, <3>2
              DEF Portal!PortalInv, Portal!NodeSound, Portal!PasswordKept
    <2>3. CASE Portal!Reply(s, "unauthorized") /\ UNCHANGED <<s9, s11>>
      <3>1. Portal!NetSound'
        BY <1>0, <2>3, ReplyKeeps DEF Portal!PortalInv, Portal!NodeSound
      <3> QED BY <1>0, <2>1, <2>3, <3>1
              DEF Portal!PortalInv, Portal!NodeSound, Portal!PasswordKept
    <2> QED BY <1>4, <2>2, <2>3 DEF Portal!HandleLogin
  <1>5. CASE Portal!HandleRead(s)
    <2>1. Portal!Reply(s, "ok") /\ UNCHANGED Portal!node
      BY <1>5 DEF Portal!HandleRead
    <2>2. Portal!NetSound'
      BY <1>0, <2>1, ReplyKeeps DEF Portal!PortalInv, Portal!NodeSound
    <2> QED BY <1>0, <2>1, <2>2, PortalParts
            DEF Portal!PortalInv, Portal!PasswordKept, Portal!node
  <1> QED BY <1>2, <1>3, <1>4, <1>5 DEF Portal!Handle

\* The node restarts with what its flash has, or someone else signs in.
LEMMA NodeKeeps ==
  ASSUME Portal!PortalAssumption, Portal!PortalInv,
         Portal!Boot \/ Portal!OtherLogin
  PROVE  Portal!PortalInv' /\ Portal!PasswordKept
  <1>1. UNCHANGED <<Portal!screen, s8, s13, s14, s15>>
    BY DEF Portal!Boot, Portal!OtherLogin
  <1>2. ASSUME Portal!Boot
        PROVE  Portal!NodeSound' /\ Portal!PasswordKept
    BY <1>1, <1>2
    DEF Portal!Boot, Portal!PortalInv, Portal!NodeSound, Portal!PasswordKept
  <1>3. ASSUME Portal!OtherLogin
        PROVE  Portal!NodeSound' /\ Portal!PasswordKept
    <2>1. s9' \in 0..MaxLogins
      BY <1>3
      DEF Portal!OtherLogin, Portal!PortalInv, Portal!NodeSound,
          Portal!PortalAssumption
    <2> QED BY <1>1, <1>3, <2>1
            DEF Portal!OtherLogin, Portal!PortalInv, Portal!NodeSound,
                Portal!PasswordKept
  <1>4. Portal!NodeSound' /\ Portal!PasswordKept
    BY <1>2, <1>3
  <1> QED BY <1>1, <1>4, PortalParts
          DEF Portal!PortalInv, Portal!screen, Portal!form, Portal!table

\* The rows that arrive, none of them twice.
LEMMA ReceivedRows ==
  ASSUME Portal!PortalAssumption, NEW q \in Portal!Received
  PROVE  q \in Portal!RowLists /\ \A i, j \in DOMAIN q : q[i] = q[j] => i = j
  <1>1. 1 \in 1..MaxRow /\ 2 \in 1..MaxRow /\ {1, 2} \subseteq 0..MaxRow
    BY DEF Portal!PortalAssumption
  <1>2. CASE q = <<1, 2>>
    <2>1. DOMAIN q = 1..2 /\ q[1] = 1 /\ q[2] = 2
      BY <1>2
    <2>2. q \in [1..2 -> 1..MaxRow]
      BY <1>1, <1>2
    <2>3. \A i \in 1..2 : q[i] = i
      BY <2>1
    <2> QED BY <1>1, <2>1, <2>2, <2>3 DEF Portal!RowLists
  <1>3. CASE q = <<2>>
    <2>1. DOMAIN q = 1..1
      BY <1>3
    <2>2. q \in [1..1 -> 1..MaxRow]
      BY <1>1, <1>3
    <2> QED BY <1>1, <2>1, <2>2 DEF Portal!RowLists
  <1> QED BY <1>2, <1>3 DEF Portal!Received

\* An answer of the node, or its loss, changes what the page shows.
LEMMA PortalAnswerKeeps ==
  ASSUME Portal!PortalAssumption, Portal!PortalInv, NEW s \in Requests,
         Portal!Answer(s)
  PROVE  Portal!PortalInv' /\ UNCHANGED s11
  <1>0. /\ s1 \in 0..MaxLogins /\ 0 \in 0..MaxLogins /\ 0 \in 0..MaxRow
        /\ s8[s] \in Portal!RequestType
    BY DEF Portal!PortalInv, Portal!ScreenSound, Portal!NetSound,
           Portal!PortalAssumption
  <1>1. Portal!Ended(s) /\ s13' = s13 => Portal!NetSound'
    <2>1. SUFFICES ASSUME Portal!Ended(s), s13' = s13
                   PROVE  Portal!NetSound'
      OBVIOUS
    <2>2. Portal!Quiet \in Portal!RequestType /\ Portal!SentPass(Portal!Quiet)'
      BY <1>0, <2>1, RequestShapes DEF Portal!SentPass
    <2> QED BY <2>1, <2>2, OneRequest DEF Portal!Ended, Portal!PortalInv
  <1>2. CASE Portal!ConfigArrives(s)
    <2>1. /\ Portal!Ended(s) /\ s2' = "blank" /\ s3' = FALSE
          /\ s5' \in Portal!Received
          /\ UNCHANGED <<s1, s4, s7, Portal!node, s13>>
          /\ \/ s6' = 0 /\ s14' = 0 /\ s15' = FALSE
             \/ s15' = (s6 # 0) /\ UNCHANGED <<s6, s14>>
      BY <1>2 DEF Portal!ConfigArrives
    <2>2. Portal!TableSound'
      BY <1>0, <2>1, ReceivedRows
      DEF Portal!PortalInv, Portal!TableSound, Portal!EditedRowIsOpened
    <2>3. Portal!ScreenSound'
      BY <2>1 DEF Portal!PortalInv, Portal!ScreenSound, Portal!Passwords
    <2> QED BY <1>1, <2>1, <2>2, <2>3, PortalParts
            DEF Portal!PortalInv, Portal!node
  <1>3. CASE Portal!ListArrives(s)
    <2>1. /\ Portal!Ended(s) /\ s5' \in Portal!Received
          /\ s6' = 0 /\ s14' = 0 /\ s15' = FALSE
          /\ UNCHANGED <<s1, Portal!form, s4, s7, Portal!node, s13>>
      BY <1>3 DEF Portal!ListArrives, Portal!Open
    <2>2. Portal!TableSound'
      BY <1>0, <2>1, ReceivedRows
      DEF Portal!PortalInv, Portal!TableSound, Portal!EditedRowIsOpened
    <2> QED BY <1>1, <2>1, <2>2, PortalParts DEF Portal!PortalInv, Portal!node
  <1>4. CASE Portal!LoginArrives(s)
    <2>1. /\ s1' = s8[s].tok
          /\ s8' = [s8 EXCEPT ![s] = [Portal!Request("config") EXCEPT
                                          !.tok = s1']]
          /\ UNCHANGED <<Portal!form, Portal!table, s7, Portal!node, s13,
                         s14, s15>>
      BY <1>4 DEF Portal!LoginArrives
    <2>2. s1' \in 0..MaxLogins
      BY <1>0, <2>1 DEF Portal!RequestType
    <2>3. /\ Portal!Request("config") \in Portal!RequestType
          /\ Portal!Request("config").op = "config"
      BY <1>0, RequestShapes DEF Portal!Ops, Portal!Request, Portal!Quiet
    <2>4. /\ [Portal!Request("config") EXCEPT !.tok = s1']
               \in Portal!RequestType
          /\ [Portal!Request("config") EXCEPT !.tok = s1'].op = "config"
      BY <2>2, <2>3 DEF Portal!RequestType
    <2>5. Portal!SentPass([Portal!Request("config") EXCEPT !.tok = s1])'
      BY <2>3 DEF Portal!SentPass, Portal!Request, Portal!Quiet
    <2>6. Portal!NetSound'
      BY <2>1, <2>4, <2>5, OneRequest DEF Portal!PortalInv, Portal!SentPass
    <2>7. Portal!ScreenSound'
      BY <2>1, <2>2 DEF Portal!PortalInv, Portal!ScreenSound, Portal!form
    <2> QED BY <2>1, <2>6, <2>7, PortalParts DEF Portal!PortalInv, Portal!node
  <1>5. CASE Portal!SaveArrives(s) \/ Portal!AskArrives(s) \/ Portal!Fails(s)
    <2>1. /\ Portal!Ended(s) /\ s1' \in {0, s1}
          /\ s7' \in {s7, "reboot", "import"}
          /\ UNCHANGED <<Portal!form, Portal!table, Portal!node, s13, s14, s15>>
      BY <1>5
      DEF Portal!SaveArrives, Portal!AskArrives, Portal!Fails, Portal!screen
    <2>2. Portal!ScreenSound'
      BY <1>0, <2>1 DEF Portal!PortalInv, Portal!ScreenSound, Portal!form
    <2> QED BY <1>1, <2>1, <2>2, PortalParts DEF Portal!PortalInv, Portal!node
  <1> QED BY <1>2, <1>3, <1>4, <1>5 DEF Portal!Answer

\* The page starts over.
LEMMA RestartKeeps ==
  ASSUME Portal!PortalAssumption, Portal!PortalInv, Portal!Restart
  PROVE  Portal!PortalInv' /\ UNCHANGED s11
  <1>0. s1 \in 0..MaxLogins /\ 0 \in 0..MaxRow
    BY DEF Portal!PortalInv, Portal!ScreenSound, Portal!PortalAssumption
  <1>1. /\ s2' = "blank" /\ s3' = FALSE /\ s7' = "none"
        /\ s5' = <<>> /\ s6' = 0 /\ s14' = 0 /\ s15' = FALSE
        /\ UNCHANGED <<s1, s4, Portal!node, s13>>
    BY DEF Portal!Restart
  <1>2. <<>> \in Portal!RowLists /\ DOMAIN <<>> = {}
    <2>1. <<>> \in Seq(1..MaxRow) /\ Len(<<>>) = 0 /\ DOMAIN <<>> = 1..0
      BY EmptySeq, LenProperties
    <2>2. 1..0 = {}
      OBVIOUS
    <2> QED BY <1>0, <2>1, <2>2, RowListsAreSeqs
  <1>3. Portal!TableSound'
    BY <1>0, <1>1, <1>2
    DEF Portal!PortalInv, Portal!TableSound, Portal!EditedRowIsOpened
  <1>4. Portal!NetSound'
    <2>1. PICK s \in Requests :
            s8' = [k \in Requests |-> IF k = s /\ s1 # 0
                                      THEN Portal!Request("config")
                                      ELSE Portal!Quiet]
      BY DEF Portal!Restart
    <2>2. /\ {Portal!Request("config"), Portal!Quiet}
               \subseteq Portal!RequestType
          /\ Portal!SentPass(Portal!Request("config"))
          /\ Portal!SentPass(Portal!Quiet)
      BY <1>0, RequestShapes DEF Portal!Ops
    <2>3. ASSUME NEW k \in Requests
          PROVE  s8'[k] \in Portal!RequestType /\ Portal!SentPass(s8[k])'
      BY <1>1, <2>1, <2>2 DEF Portal!SentPass
    <2> QED BY <2>1, <2>3 DEF Portal!NetSound
  <1>5. Portal!ScreenSound'
    BY <1>1 DEF Portal!PortalInv, Portal!ScreenSound, Portal!Passwords
  <1> QED BY <1>1, <1>3, <1>4, <1>5, PortalParts
          DEF Portal!PortalInv, Portal!node

\* Every step keeps the invariant and the password.
LEMMA PortalStep ==
  ASSUME Portal!PortalAssumption, Portal!PortalInv,
         [Portal!Next]_(Portal!portalVars)
  PROVE  Portal!PortalInv' /\ Portal!PasswordKept
  <1>1. CASE UNCHANGED Portal!portalVars
    BY <1>1, PortalParts
    DEF Portal!portalVars, Portal!screen, Portal!form, Portal!table,
        Portal!node, Portal!PortalInv, Portal!PasswordKept
  <1>2. CASE Portal!User
    <2>1. UNCHANGED Portal!node
      BY <1>2, PortalMeans
      DEF Portal!User, Portal!TypePassword, Portal!EditRow, Portal!RemoveRow,
          Portal!AddRow, Portal!SubmitLogin, Portal!LoadStatus,
          Portal!LoadLocalControl, Portal!SaveForm, Portal!SaveRows,
          Portal!SaveAccount, Portal!ImportConfig, Portal!StartOtaUpdate,
          Portal!Send
    <2> QED BY <1>2, <2>1, EditKeeps, SendKeeps
            DEF Portal!User, Portal!PasswordKept, Portal!node
  <1>3. ASSUME NEW s \in Requests, Portal!Handle(s) \/ Portal!Answer(s)
        PROVE  Portal!PortalInv' /\ Portal!PasswordKept
    BY <1>3, HandleKeeps, PortalAnswerKeeps DEF Portal!PasswordKept
  <1>4. CASE Portal!Boot \/ Portal!OtherLogin
    BY <1>4, NodeKeeps
  <1>5. CASE Portal!PingAnswered \/ Portal!Restart
    BY <1>5, RestartKeeps DEF Portal!PingAnswered, Portal!PasswordKept
  <1> QED BY <1>1, <1>2, <1>3, <1>4, <1>5 DEF Portal!Next

\* The invariant has the types and the property.
LEMMA PortalFacts ==
  ASSUME Portal!PortalInv
  PROVE  Portal!TypeOK /\ Portal!EditedRowIsOpened
  BY DEF Portal!PortalInv, Portal!ScreenSound, Portal!TableSound,
         Portal!NetSound, Portal!NodeSound, Portal!TypeOK

\* The invariant of the portal of a node holds in every behaviour.
THEOREM PortalInvariant == PagesSpec => [](view = "portal" => Portal!PortalInv)
  <1> DEFINE Inv == view = "portal" => Portal!PortalInv
  <1>0. PagesInit => Inv
    BY PortalInit, PagesAssumption DEF PagesInit, PagesAssumption
  <1>1. ASSUME Inv, [PagesNext]_pagesVars
        PROVE  Inv'
    <2>1. view' = view
      BY <1>1 DEF PagesNext, pagesVars
    <2>2. view = "portal" => [Portal!Next]_(Portal!portalVars)
      BY <1>1
      DEF PagesNext, Step, pagesVars, shared, analytics, Portal!portalVars,
          Portal!screen, Portal!node, Portal!form, Portal!table
    <2> QED BY <1>1, <2>1, <2>2, PortalStep, PagesAssumption
            DEF PagesAssumption
  <1> QED BY <1>0, <1>1, PTL DEF PagesSpec

\* The row in the portal's editor is the one that the user opened, whatever
\* rows have been removed since, unless the table was loaded again under it
\* (script.js, drawInputs, drawOutputs, drawModbus, loadFullConfig).
THEOREM EditorHasItsRow == PagesSpec => []EditedRowIsOpened
  <1>1. (view = "portal" => Portal!PortalInv) => EditedRowIsOpened
    BY PortalFacts DEF EditedRowIsOpened
  <1> QED BY <1>1, PortalInvariant, PTL

-----------------------------------------------------------------------------
(* The actuator mapping of a node.                                         *)
(* Here s1 is stored, s2 rows, s3 handler, s4 detection, s5 deleted.       *)

\* The table is empty and nothing was deleted yet.
LEMMA ActuatorInit ==
  ASSUME Actuators!Init
  PROVE  Actuators!ActuatorInv
  BY DEF Actuators!Init, Actuators!ActuatorInv, Actuators!TypeOK,
         Actuators!NothingRestored, Actuators!DeletedStaysDeleted,
         Actuators!Work, Actuators!Idle

\* What a work becomes: fewer keys to send, or the list to read.
LEMMA PostedTypes ==
  ASSUME NEW w, w \in Actuators!Work({"no", "post", "delete", "get"})
                  \/ w \in Actuators!Work({"no", "window", "post", "get"}),
         NEW k \in Keys, NEW db \in SUBSET Keys
  PROVE  /\ Actuators!Posted(w, k, db).todo \subseteq w.todo
         /\ w \in Actuators!Work({"no", "post", "delete", "get"}) =>
              Actuators!Posted(w, k, db)
                \in Actuators!Work({"no", "post", "delete", "get"})
         /\ w \in Actuators!Work({"no", "window", "post", "get"}) =>
              Actuators!Posted(w, k, db)
                \in Actuators!Work({"no", "window", "post", "get"})
  BY DEF Actuators!Posted, Actuators!Work, Actuators!Idle

\* The buttons: what is created, updated or saved is not deleted any more.
LEMMA ActuatorsButtonsKeep ==
  ASSUME Actuators!ActuatorInv,
         \/ Actuators!HandleSave \/ Actuators!HandleDetectOutputs
         \/ \E k \in Keys : Actuators!HandleCreate(k)
         \/ \E outputs \in SUBSET Keys : Actuators!WindowEnds(outputs)
         \/ \E r \in s2 :
              \/ Actuators!HandleDelete(r)
              \/ \E k \in Keys : Actuators!HandleUpdate(r, k)
  PROVE  Actuators!ActuatorInv'
  <1>1. CASE Actuators!HandleSave
    <2>1. {r.key : r \in s2} \subseteq Keys
      BY DEF Actuators!ActuatorInv, Actuators!TypeOK, Actuators!Row
    <2> DEFINE keys == {r.key : r \in s2}
    <2>2. keys \cap s5 = {}
      BY DEF Actuators!ActuatorInv, Actuators!NothingRestored
    <2>3. s3' = [kind |-> "post", todo |-> keys, read |-> {}, del |-> None]
      BY <1>1 DEF Actuators!HandleSave, Actuators!Idle
    <2> HIDE DEF keys
    <2>4. /\ s3' \in Actuators!Work({"no", "post", "delete", "get"})
          /\ s3'.todo = keys
      BY <2>1, <2>3 DEF Actuators!Work, keys
    <2>5. UNCHANGED <<s1, s2, s4, s5>>
      BY <1>1 DEF Actuators!HandleSave
    <2> QED BY <2>2, <2>4, <2>5
            DEF Actuators!ActuatorInv, Actuators!TypeOK,
                Actuators!NothingRestored, Actuators!DeletedStaysDeleted
  <1>2. CASE Actuators!HandleDetectOutputs
    BY <1>2
    DEF Actuators!HandleDetectOutputs, Actuators!ActuatorInv,
        Actuators!TypeOK, Actuators!NothingRestored,
        Actuators!DeletedStaysDeleted, Actuators!Work, Actuators!Idle
  <1>3. ASSUME NEW k \in Keys, Actuators!HandleCreate(k)
        PROVE  Actuators!ActuatorInv'
    BY <1>3
    DEF Actuators!HandleCreate, Actuators!ActuatorInv, Actuators!TypeOK,
        Actuators!NothingRestored, Actuators!DeletedStaysDeleted,
        Actuators!Work, Actuators!Idle
  <1>4. ASSUME NEW outputs \in SUBSET Keys, Actuators!WindowEnds(outputs)
        PROVE  Actuators!ActuatorInv'
    BY <1>4
    DEF Actuators!WindowEnds, Actuators!ActuatorInv, Actuators!TypeOK,
        Actuators!NothingRestored, Actuators!DeletedStaysDeleted,
        Actuators!Work, Actuators!Idle
  <1>5. ASSUME NEW r \in s2, Actuators!HandleDelete(r)
        PROVE  Actuators!ActuatorInv'
    BY <1>5
    DEF Actuators!HandleDelete, Actuators!ActuatorInv, Actuators!TypeOK,
        Actuators!NothingRestored, Actuators!DeletedStaysDeleted,
        Actuators!Work, Actuators!Idle, Actuators!Row
  <1>6. ASSUME NEW r \in s2, NEW k \in Keys, Actuators!HandleUpdate(r, k)
        PROVE  Actuators!ActuatorInv'
    <2>1. [r EXCEPT !.key = k] \in Actuators!Row /\ [r EXCEPT !.key = k].key = k
      BY DEF Actuators!ActuatorInv, Actuators!TypeOK, Actuators!Row
    <2> QED BY <1>6, <2>1
            DEF Actuators!HandleUpdate, Actuators!ActuatorInv,
                Actuators!TypeOK, Actuators!NothingRestored,
                Actuators!DeletedStaysDeleted
  <1> QED BY <1>1, <1>2, <1>3, <1>4, <1>5, <1>6

\* The requests of the handlers.
LEMMA RequestsKeep ==
  ASSUME Actuators!KeyAssumption, Actuators!ActuatorInv,
         \/ Actuators!DeleteOk
         \/ Actuators!HandlerFails
         \/ \E k \in Keys : Actuators!PostOk(k)
  PROVE  Actuators!ActuatorInv'
  <1>1. CASE Actuators!DeleteOk
    BY <1>1
    DEF Actuators!DeleteOk, Actuators!ActuatorInv, Actuators!TypeOK,
        Actuators!NothingRestored, Actuators!DeletedStaysDeleted,
        Actuators!Work
  <1>2. CASE Actuators!HandlerFails
    BY <1>2
    DEF Actuators!HandlerFails, Actuators!ActuatorInv, Actuators!TypeOK,
        Actuators!NothingRestored, Actuators!DeletedStaysDeleted,
        Actuators!Work, Actuators!Idle
  <1>3. ASSUME NEW k \in Keys, Actuators!PostOk(k)
        PROVE  Actuators!ActuatorInv'
    <2>1. /\ k \in s3.todo /\ s1' = s1 \cup {k}
          /\ s3' = Actuators!Posted(s3, k, s1')
          /\ UNCHANGED <<s2, s4, s5>>
      BY <1>3 DEF Actuators!PostOk
    <2>2. s1' \in SUBSET Keys
      BY <2>1 DEF Actuators!ActuatorInv, Actuators!TypeOK
    <2>3. /\ s3'.todo \subseteq s3.todo
          /\ s3' \in Actuators!Work({"no", "post", "delete", "get"})
      BY <2>1, <2>2, PostedTypes DEF Actuators!ActuatorInv, Actuators!TypeOK
    <2> QED BY <2>1, <2>2, <2>3
            DEF Actuators!ActuatorInv, Actuators!TypeOK,
                Actuators!NothingRestored, Actuators!DeletedStaysDeleted
  <1> QED BY <1>1, <1>2, <1>3

\* A list that is shown: what it has is not deleted any more.
LEMMA ShowKeeps ==
  ASSUME Actuators!ActuatorInv, NEW read \in SUBSET Keys,
         NEW del \in Keys \cup {None},
         Actuators!Show(read, del), UNCHANGED s1
  PROVE  /\ s2' \subseteq Actuators!Row /\ s5' \subseteq Keys
         /\ Actuators!DeletedStaysDeleted' /\ \A r \in s2' : r.key \notin s5'
         /\ del = None => s5' \subseteq s5
  BY DEF Actuators!Show, Actuators!ActuatorInv, Actuators!TypeOK,
         Actuators!NothingRestored, Actuators!DeletedStaysDeleted,
         Actuators!Row

\* A list arrives, or a detection goes on.
LEMMA ActuatorsListsKeep ==
  ASSUME Actuators!ActuatorInv,
         \/ Actuators!ListArrives
         \/ Actuators!DetectionLists
         \/ Actuators!DetectionListFails
         \/ \E k \in Keys : Actuators!DetectionPosts(k)
  PROVE  Actuators!ActuatorInv'
  <1>1. CASE Actuators!ListArrives
    <2>1. s3.read \in SUBSET Keys /\ s3.del \in Keys \cup {None}
      BY DEF Actuators!ActuatorInv, Actuators!TypeOK, Actuators!Work
    <2>2. /\ Actuators!Show(s3.read, s3.del) /\ s3' = Actuators!Idle
          /\ UNCHANGED <<s1, s4>>
      BY <1>1 DEF Actuators!ListArrives
    <2> QED BY <2>1, <2>2, ShowKeeps
            DEF Actuators!ActuatorInv, Actuators!TypeOK,
                Actuators!NothingRestored, Actuators!Idle, Actuators!Work
  <1>2. CASE Actuators!DetectionLists
    <2>1. s4.read \in SUBSET Keys
      BY DEF Actuators!ActuatorInv, Actuators!TypeOK, Actuators!Work
    <2>2. /\ Actuators!Show(s4.read, None) /\ s4' = Actuators!Idle
          /\ UNCHANGED <<s1, s3>>
      BY <1>2 DEF Actuators!DetectionLists
    <2> QED BY <2>1, <2>2, ShowKeeps
            DEF Actuators!ActuatorInv, Actuators!TypeOK,
                Actuators!NothingRestored, Actuators!Idle, Actuators!Work
  <1>3. CASE Actuators!DetectionListFails
    BY <1>3
    DEF Actuators!DetectionListFails, Actuators!ActuatorInv, Actuators!TypeOK,
        Actuators!NothingRestored, Actuators!DeletedStaysDeleted,
        Actuators!Work, Actuators!Idle
  <1>4. ASSUME NEW k \in Keys, Actuators!DetectionPosts(k)
        PROVE  Actuators!ActuatorInv'
    <2>1. /\ s1' \in {s1 \cup {k}, s1}
          /\ s4' = Actuators!Posted(s4, k, s1')
          /\ s5' = s5 \ {k} /\ UNCHANGED <<s2, s3>>
      BY <1>4 DEF Actuators!DetectionPosts
    <2>2. s1' \in SUBSET Keys
      BY <2>1 DEF Actuators!ActuatorInv, Actuators!TypeOK
    <2>3. s4' \in Actuators!Work({"no", "window", "post", "get"})
      BY <2>1, <2>2, PostedTypes DEF Actuators!ActuatorInv, Actuators!TypeOK
    <2> QED BY <2>1, <2>2, <2>3
            DEF Actuators!ActuatorInv, Actuators!TypeOK,
                Actuators!NothingRestored, Actuators!DeletedStaysDeleted
  <1> QED BY <1>1, <1>2, <1>3, <1>4

\* Every step keeps the invariant.
LEMMA ActuatorStep ==
  ASSUME Actuators!KeyAssumption, Actuators!ActuatorInv,
         [Actuators!Next]_(Actuators!actuatorVars)
  PROVE  Actuators!ActuatorInv'
  <1>1. CASE UNCHANGED Actuators!actuatorVars
    BY <1>1
    DEF Actuators!actuatorVars, Actuators!ActuatorInv, Actuators!TypeOK,
        Actuators!NothingRestored, Actuators!DeletedStaysDeleted
  <1>2. CASE Actuators!Next
    BY <1>2, ActuatorsButtonsKeep, RequestsKeep, ActuatorsListsKeep
    DEF Actuators!Next
  <1> QED BY <1>1, <1>2

\* The invariant of the actuator mapping holds in every behaviour.
THEOREM ActuatorsInvariant ==
  PagesSpec => [](view = "actuators" => Actuators!ActuatorInv)
  <1> DEFINE Inv == view = "actuators" => Actuators!ActuatorInv
  <1>0. PagesInit => Inv
    BY ActuatorInit, PagesAssumption DEF PagesInit, PagesAssumption
  <1>1. ASSUME Inv, [PagesNext]_pagesVars
        PROVE  Inv'
    <2>1. view' = view
      BY <1>1 DEF PagesNext, pagesVars
    <2>2. view = "actuators" => [Actuators!Next]_(Actuators!actuatorVars)
      BY <1>1
      DEF PagesNext, Step, pagesVars, shared, analytics,
          Actuators!actuatorVars
    <2> QED BY <1>1, <2>1, <2>2, ActuatorStep, PagesAssumption
            DEF PagesAssumption
  <1> QED BY <1>0, <1>1, PTL DEF PagesSpec

\* A mapping that was deleted without an error does not come back, unless it
\* is typed, detected or shown again (NodeConfigPage.jsx, actBusy).
THEOREM DeletedMappingsStayDeleted == PagesSpec => []DeletedStaysDeleted
  <1>1. (view = "actuators" => Actuators!ActuatorInv) => DeletedStaysDeleted
    BY DEF Actuators!ActuatorInv, Actuators!NothingRestored,
           DeletedStaysDeleted
  <1> QED BY <1>1, ActuatorsInvariant, PTL

-----------------------------------------------------------------------------
(* The telemetry mapping of a node.                                        *)
(* Here s1 is stored, s2 nextId, s3 tags, s4 mount, s5 save, s6 sent, s7   *)
(* detecting, s8 owed, s9 late.                                            *)

\* The instance means the same operators.
LEMMA TagTableMeans ==
  /\ \A q, i : TagTable!RemoveAt(q, i) = RemoveAt(q, i)
  /\ \A S : TagTable!SetToSeq(S) = SetToSeq(S)
  /\ \A q : TagTable!ToSet(q) = ToSet(q)
  /\ \A S : TagTable!IsFiniteSet(S) = IsFiniteSet(S)
  <1>1. \A q, i : TagTable!RemoveAt(q, i) = RemoveAt(q, i)
    BY Zenon DEF TagTable!RemoveAt, RemoveAt
  <1>2. \A S : TagTable!SetToSeq(S) = SetToSeq(S)
    BY Zenon
    DEF TagTable!SetToSeq, SetToSeq, TagTable!IsInjective, IsInjective,
        TagTable!Cardinality, Cardinality, TagTable!IsFiniteSet, IsFiniteSet
  <1>3. \A q : TagTable!ToSet(q) = ToSet(q)
    BY Zenon DEF TagTable!ToSet, ToSet
  <1>4. \A S : TagTable!IsFiniteSet(S) = IsFiniteSet(S)
    BY Zenon DEF TagTable!IsFiniteSet, IsFiniteSet
  <1> QED BY <1>1, <1>2, <1>3, <1>4

\* What the identifiers of a table's rows are.
LEMMA IdsOfRows ==
  ASSUME NEW q \in Seq(TagTable!Row)
  PROVE  \A id : id \in TagTable!IdsOf(ToSet(q)) <=>
                   id # TagTable!NoId /\ \E j \in 1..Len(q) : q[j].id = id
  <1>1. DOMAIN q = 1..Len(q)
    BY LenProperties
  <1> QED BY <1>1 DEF TagTable!IdsOf, ToSet

\* Identifiers of a larger set of rows, and of a union.
LEMMA IdsOfUnion ==
  ASSUME NEW A, NEW B
  PROVE  /\ TagTable!IdsOf(A \cup B) = TagTable!IdsOf(A) \cup TagTable!IdsOf(B)
         /\ A \subseteq B => TagTable!IdsOf(A) \subseteq TagTable!IdsOf(B)
  BY DEF TagTable!IdsOf

\* Rows that no service has stored have no identifier.
LEMMA NewRows ==
  ASSUME NEW K
  PROVE  TagTable!IdsOf({[id |-> TagTable!NoId, key |-> k] : k \in K}) = {}
  BY DEF TagTable!IdsOf

\* What the invariant says of the sets of rows.
LEMMA KnownIds ==
  ASSUME TagTable!EditorAssumption, TagTable!EditorInv
  PROVE  /\ s1 \subseteq TagTable!Row /\ IsFiniteSet(s1)
         /\ s4.read \subseteq TagTable!Row /\ IsFiniteSet(s4.read)
         /\ s2 \in 1..MaxIds + 1 /\ MaxIds \in Nat \ {0}
         /\ TagTable!IdsOf(s1) \subseteq 1..s2 - 1
         /\ TagTable!IdsOf(s4.read) \subseteq 1..s2 - 1
         /\ TagTable!IdsOf(ToSet(s3)) \subseteq 1..s2 - 1
         /\ TagTable!IdsOf(ToSet(s6)) \subseteq 1..s2 - 1
         /\ s8 \subseteq 1..s2 - 1 /\ s8 \subseteq 1..MaxIds
  <1>1. s4.read \subseteq TagTable!Row
    BY DEF TagTable!EditorInv, TagTable!TypeOK
  <1> QED BY <1>1, TagTableMeans
          DEF TagTable!EditorAssumption, TagTable!EditorInv, TagTable!TypeOK,
              TagTable!IdsKnown

\* What an editor is before anything was shown.
LEMMA EditorInit ==
  ASSUME TagTable!EditorAssumption, TagTable!Init
  PROVE  TagTable!EditorInv
  <1>1. PICK k \in Keys : s1 = {[id |-> 1, key |-> k]}
    BY DEF TagTable!Init
  <1>2. /\ s2 = 2 /\ s3 = <<>> /\ s6 = <<>> /\ s8 = {} /\ s9 = FALSE
        /\ s4 = [going |-> TRUE, read |-> s1] /\ s5 = "no"
        /\ s7 = FALSE /\ MaxIds \in Nat \ {0}
    BY TagTableMeans DEF TagTable!Init, TagTable!EditorAssumption
  <1>3. s1 \subseteq TagTable!Row /\ TagTable!IdsOf(s1) = {1} /\ IsFiniteSet(s1)
    <2>1. [id |-> 1, key |-> k] \in TagTable!Row
      BY <1>2 DEF TagTable!Row, TagTable!NoId
    <2>2. TagTable!IdsOf(s1) = {1}
      BY <1>1 DEF TagTable!IdsOf, TagTable!NoId
    <2>3. IsFiniteSet(s1)
      BY <1>1, FS_Singleton
    <2> QED BY <1>1, <2>1, <2>2, <2>3
  <1>4. ToSet(s3) = {} /\ ToSet(s6) = {} /\ TagTable!IdsOf({}) = {}
    BY <1>2 DEF ToSet, TagTable!IdsOf
  <1>5. TagTable!TypeOK
    <2>1. s4 \in [going : BOOLEAN, read : SUBSET TagTable!Row] /\ s4.read = s1
      BY <1>2, <1>3
    <2>2. s9 \in BOOLEAN /\ s7 \in BOOLEAN
      BY <1>2
    <2>3. s3 \in Seq(TagTable!Row) /\ s6 \in Seq(TagTable!Row)
      BY <1>2
    <2> QED BY <1>2, <1>3, <2>1, <2>2, <2>3 DEF TagTable!TypeOK
  <1>6. TagTable!IdsKnown
    <2>1. 1..s2 - 1 = {1} /\ s4.read = s1
      BY <1>2
    <2>2. /\ TagTable!IdsOf(s1) \subseteq 1..s2 - 1
          /\ TagTable!IdsOf(ToSet(s3)) \subseteq 1..s2 - 1
          /\ TagTable!IdsOf(ToSet(s6)) \subseteq 1..s2 - 1
          /\ s8 \subseteq 1..s2 - 1
      BY <1>2, <1>3, <1>4, <2>1
    <2> QED BY <1>3, <2>1, <2>2, TagTableMeans DEF TagTable!IdsKnown
  <1> QED BY <1>2, <1>4, <1>5, <1>6, TagTableMeans
          DEF TagTable!EditorInv, TagTable!InTable, TagTable!MountFirst,
              TagTable!SentStays

\* The table shows a set of rows, and what it shows is in it.
LEMMA Shown ==
  ASSUME NEW rows, rows \subseteq TagTable!Row, IsFiniteSet(rows),
         TagTable!Show(rows)
  PROVE  /\ s3' \in Seq(TagTable!Row) /\ ToSet(s3') = rows
         /\ s8' = s8 \cup TagTable!IdsOf(rows)
  <1>1. SetToSeq(rows) \in Seq(rows) /\ ToSet(SetToSeq(rows)) = rows
    BY Sequenced
  <1>2. s3' = SetToSeq(rows) /\ s8' = s8 \cup TagTable!IdsOf(rows)
    BY TagTableMeans DEF TagTable!Show
  <1>3. s3' \in Seq(TagTable!Row)
    <2>1. s3' \in Seq(rows)
      BY <1>1, <1>2
    <2> QED BY <2>1, SeqDef
  <1> QED BY <1>1, <1>2, <1>3

\* The first load ends, or the table is loaded after a save.
LEMMA TagTableLoadsKeep ==
  ASSUME TagTable!EditorAssumption, TagTable!EditorInv,
         \/ TagTable!MountLoaded
         \/ TagTable!MountFails
         \/ TagTable!Reloaded
         \/ TagTable!ReloadFails
  PROVE  TagTable!EditorInv'
  <1> USE KnownIds
  <1>0. /\ "no" \in {"no", "put", "rows", "get"}
        /\ ToSet(<<>>) = {}
        /\ TagTable!IdsOf({}) = {}
    BY DEF ToSet, TagTable!IdsOf
  <1>1. CASE TagTable!MountLoaded
    <2>1. /\ s4.going /\ s4' = [s4 EXCEPT !.going = FALSE]
          /\ TagTable!Show(s4.read)
          /\ UNCHANGED <<s1, s2, s9, s5, s6, s7>>
      BY <1>1 DEF TagTable!MountLoaded
    <2>2. /\ s3' \in Seq(TagTable!Row) /\ ToSet(s3') = s4.read
          /\ s8' = s8 \cup TagTable!IdsOf(s4.read)
      BY <2>1, Shown
    <2>3. /\ s4' \in [going : BOOLEAN, read : SUBSET TagTable!Row]
          /\ ~s4'.going /\ s4'.read = s4.read
      BY <2>1 DEF TagTable!EditorInv, TagTable!TypeOK
    <2>4. TagTable!TypeOK'
      <3>1. s8' \subseteq 1..MaxIds
        BY <2>2
      <3> QED BY <2>1, <2>2, <2>3, <3>1
              DEF TagTable!EditorInv, TagTable!TypeOK
    <2>5. TagTable!IdsKnown'
      BY <2>1, <2>2, <2>3, TagTableMeans DEF TagTable!IdsKnown
    <2>6. ~s9 => s8 = {} /\ s5 = "no"
      BY <2>1 DEF TagTable!EditorInv, TagTable!MountFirst
    <2>7. /\ (s9 \/ TagTable!InTable)'
          /\ TagTable!SentStays'
          /\ TagTable!MountFirst'
      BY <2>1, <2>2, <2>3, <2>6, TagTableMeans
      DEF TagTable!InTable, TagTable!SentStays, TagTable!MountFirst
    <2> QED BY <2>4, <2>5, <2>7 DEF TagTable!EditorInv
  <1>2. CASE TagTable!MountFails
    <2>1. /\ s4' = [s4 EXCEPT !.going = FALSE]
          /\ UNCHANGED <<s1, s2, s3, s8, s9, s5, s6, s7>>
      BY <1>2 DEF TagTable!MountFails, TagTable!table
    <2>3. /\ s4' \in [going : BOOLEAN, read : SUBSET TagTable!Row]
          /\ ~s4'.going /\ s4'.read = s4.read
      BY <2>1 DEF TagTable!EditorInv, TagTable!TypeOK
    <2>4. TagTable!TypeOK'
      BY <2>1, <2>3 DEF TagTable!EditorInv, TagTable!TypeOK
    <2>5. TagTable!IdsKnown'
      BY <2>1, <2>3, TagTableMeans DEF TagTable!IdsKnown
    <2>7. /\ (s9 \/ TagTable!InTable)'
          /\ TagTable!SentStays'
          /\ TagTable!MountFirst'
      BY <2>1, <2>3, TagTableMeans
      DEF TagTable!EditorInv, TagTable!InTable, TagTable!SentStays,
          TagTable!MountFirst
    <2> QED BY <2>4, <2>5, <2>7 DEF TagTable!EditorInv
  <1>3. CASE TagTable!Reloaded
    <2>1. /\ s5 = "get" /\ TagTable!Show(s1) /\ s5' = "no" /\ s6' = <<>>
          /\ UNCHANGED <<s1, s2, s9, s4, s7>>
      BY <1>3 DEF TagTable!Reloaded
    <2>2. /\ s3' \in Seq(TagTable!Row) /\ ToSet(s3') = s1
          /\ s8' = s8 \cup TagTable!IdsOf(s1)
      BY <2>1, Shown
    <2>4. TagTable!TypeOK'
      <3>1. s6' \in Seq(TagTable!Row)
        BY <2>1
      <3>2. s8' \subseteq 1..MaxIds
        BY <2>2
      <3> QED BY <2>1, <2>2, <3>1, <3>2
              DEF TagTable!EditorInv, TagTable!TypeOK
    <2>5. TagTable!IdsKnown'
      BY <1>0, <2>1, <2>2, TagTableMeans DEF TagTable!IdsKnown
    <2>6. TagTable!MountFirst'
      BY <2>1 DEF TagTable!EditorInv, TagTable!MountFirst
    <2>7. TagTable!InTable' /\ TagTable!SentStays'
      BY <1>0, <2>1, <2>2, TagTableMeans
      DEF TagTable!InTable, TagTable!SentStays
    <2> QED BY <2>4, <2>5, <2>6, <2>7 DEF TagTable!EditorInv
  <1>4. CASE TagTable!ReloadFails
    <2>1. /\ s5' = "no" /\ s6' = <<>>
          /\ UNCHANGED <<s1, s2, s3, s8, s9, s4, s7>>
      BY <1>4 DEF TagTable!ReloadFails, TagTable!table
    <2>4. TagTable!TypeOK'
      <3>1. s6' \in Seq(TagTable!Row)
        BY <2>1
      <3> QED BY <2>1, <3>1 DEF TagTable!EditorInv, TagTable!TypeOK
    <2>5. TagTable!IdsKnown'
      BY <1>0, <2>1, TagTableMeans DEF TagTable!IdsKnown
    <2>7. /\ (s9 \/ TagTable!InTable)'
          /\ TagTable!SentStays'
          /\ TagTable!MountFirst'
      BY <1>0, <2>1, TagTableMeans
      DEF TagTable!EditorInv, TagTable!InTable, TagTable!SentStays,
          TagTable!MountFirst
    <2> QED BY <2>4, <2>5, <2>7 DEF TagTable!EditorInv
  <1> QED BY <1>1, <1>2, <1>3, <1>4

\* The table changes and still has what it has shown and has to have.
LEMMA TableKeeps ==
  ASSUME TagTable!EditorAssumption, TagTable!EditorInv,
         s3' \in Seq(TagTable!Row), s8' \subseteq s8,
         TagTable!IdsOf(ToSet(s3')) \subseteq TagTable!IdsOf(ToSet(s3)),
         s8' \cap TagTable!IdsOf(ToSet(s3))
           \subseteq TagTable!IdsOf(ToSet(s3')),
         UNCHANGED <<s1, s2, s9, s4, s5, s6>>,
         s7' \in BOOLEAN
  PROVE  TagTable!EditorInv'
  <1>1. TagTable!TypeOK'
    BY DEF TagTable!EditorInv, TagTable!TypeOK
  <1>2. TagTable!IdsKnown'
    BY TagTableMeans DEF TagTable!EditorInv, TagTable!IdsKnown
  <1>3. (s9 \/ TagTable!InTable)'
    BY TagTableMeans DEF TagTable!EditorInv, TagTable!InTable
  <1>4. TagTable!SentStays' /\ TagTable!MountFirst'
    BY TagTableMeans
    DEF TagTable!EditorInv, TagTable!SentStays, TagTable!MountFirst
  <1> QED BY <1>1, <1>2, <1>3, <1>4 DEF TagTable!EditorInv

\* The operator edits the table.
LEMMA EditsKeep ==
  ASSUME TagTable!EditorAssumption, TagTable!EditorInv,
         \/ \E k \in Keys : TagTable!HandleAdd(k)
         \/ \E i \in DOMAIN s3 :
              \/ TagTable!HandleRemove(i)
              \/ \E k \in Keys : TagTable!HandleUpdate(i, k)
  PROVE  TagTable!EditorInv'
  <1>0. /\ s3 \in Seq(TagTable!Row) /\ DOMAIN s3 = 1..Len(s3) /\ Len(s3) \in Nat
        /\ \A j \in 1..Len(s3) : s3[j] \in TagTable!Row
        /\ s7 \in BOOLEAN
    BY LenProperties, ElementOfSeq DEF TagTable!EditorInv, TagTable!TypeOK
  <1>1. ASSUME NEW k \in Keys, TagTable!HandleAdd(k)
        PROVE  TagTable!EditorInv'
    <2> DEFINE r == [id |-> TagTable!NoId, key |-> k]
    <2>1. /\ s3' = Append(s3, r)
          /\ UNCHANGED <<s1, s2, s8, s9, s4, s5, s6, s7>>
      BY <1>1 DEF TagTable!HandleAdd
    <2>2. r \in TagTable!Row /\ r.id = TagTable!NoId
      BY TagTableMeans
      DEF TagTable!Row, TagTable!NoId, TagTable!EditorAssumption
    <2> HIDE DEF r
    <2>3. /\ s3' \in Seq(TagTable!Row) /\ Len(s3') = Len(s3) + 1
          /\ \A j \in 1..Len(s3) : s3'[j] = s3[j]
          /\ s3'[Len(s3) + 1] = r
      BY <1>0, <2>1, <2>2, AppendProperties
    <2>4. ASSUME NEW id
          PROVE  id \in TagTable!IdsOf(ToSet(s3'))
                   <=> id \in TagTable!IdsOf(ToSet(s3))
      BY <1>0, <2>2, <2>3, IdsOfRows
    <2> QED BY <1>0, <2>1, <2>3, <2>4, TableKeeps
  <1>2. ASSUME NEW i \in DOMAIN s3, TagTable!HandleRemove(i)
        PROVE  TagTable!EditorInv'
    <2>1. /\ s3' = RemoveAt(s3, i) /\ s8' = s8 \ {s3[i].id}
          /\ UNCHANGED <<s1, s2, s9, s4, s5, s6, s7>>
      BY <1>2, TagTableMeans DEF TagTable!HandleRemove
    <2>2. /\ s3' \in Seq(TagTable!Row) /\ Len(s3') = Len(s3) - 1
          /\ \A j \in 1..Len(s3) - 1 :
               s3'[j] = IF j < i THEN s3[j] ELSE s3[j + 1]
      BY <1>0, <2>1, RemoveAtShifts
    <2>3. ASSUME NEW id, id \in TagTable!IdsOf(ToSet(s3'))
          PROVE  id \in TagTable!IdsOf(ToSet(s3))
      BY <1>0, <2>2, <2>3, IdsOfRows
    <2>4. ASSUME NEW id \in s8', id \in TagTable!IdsOf(ToSet(s3))
          PROVE  id \in TagTable!IdsOf(ToSet(s3'))
      <3>1. PICK j \in 1..Len(s3) : s3[j].id = id
        BY <1>0, <2>4, IdsOfRows
      <3>2. id # TagTable!NoId /\ j # i
        BY <1>0, <2>1, <2>4, <3>1, IdsOfRows
      <3>3. CASE j < i
        <4>1. j \in 1..Len(s3) - 1 /\ s3'[j] = s3[j]
          BY <1>0, <2>2, <3>3
        <4> QED BY <2>2, <3>1, <3>2, <4>1, IdsOfRows
      <3>4. CASE j > i
        <4>1. j - 1 \in 1..Len(s3) - 1 /\ s3'[j - 1] = s3[j]
          BY <1>0, <2>2, <3>4
        <4> QED BY <2>2, <3>1, <3>2, <4>1, IdsOfRows
      <3> QED BY <1>0, <3>2, <3>3, <3>4
    <2> QED BY <1>0, <2>1, <2>2, <2>3, <2>4, TableKeeps
  <1>3. ASSUME NEW i \in DOMAIN s3, NEW k \in Keys, TagTable!HandleUpdate(i, k)
        PROVE  TagTable!EditorInv'
    <2> DEFINE r == [s3[i] EXCEPT !.key = k]
    <2>1. /\ s3' = [s3 EXCEPT ![i] = r]
          /\ UNCHANGED <<s1, s2, s8, s9, s4, s5, s6, s7>>
      BY <1>3 DEF TagTable!HandleUpdate
    <2>2. r \in TagTable!Row /\ r.id = s3[i].id
      BY <1>0 DEF TagTable!Row
    <2> HIDE DEF r
    <2>3. /\ s3' \in Seq(TagTable!Row) /\ Len(s3') = Len(s3)
          /\ \A j \in 1..Len(s3) : s3'[j].id = s3[j].id
      <3>1. s3' \in Seq(TagTable!Row) /\ Len(s3') = Len(s3)
        BY <1>0, <2>1, <2>2, ExceptSeq
      <3>2. \A j \in 1..Len(s3) : s3'[j] = IF j = i THEN r ELSE s3[j]
        BY <1>0, <2>1
      <3> QED BY <2>2, <3>1, <3>2
    <2>4. ASSUME NEW id
          PROVE  id \in TagTable!IdsOf(ToSet(s3'))
                   <=> id \in TagTable!IdsOf(ToSet(s3))
      BY <1>0, <2>3, IdsOfRows
    <2> QED BY <1>0, <2>1, <2>3, <2>4, TableKeeps
  <1> QED BY <1>1, <1>2, <1>3

\* The window of detection opens, and ends with new rows or without.
LEMMA DetectionKeeps ==
  ASSUME TagTable!EditorAssumption, TagTable!EditorInv,
         TagTable!HandleDetect \/ TagTable!DetectEnds \/ TagTable!DetectFails
  PROVE  TagTable!EditorInv'
  <1>0. s3 \in Seq(TagTable!Row)
    BY DEF TagTable!EditorInv, TagTable!TypeOK
  <1>1. CASE TagTable!HandleDetect \/ TagTable!DetectFails
    <2>1. /\ UNCHANGED <<s1, s2, s3, s8, s9, s4, s5, s6>>
          /\ s7' \in BOOLEAN
      BY <1>1 DEF TagTable!HandleDetect, TagTable!DetectFails, TagTable!table
    <2> QED BY <1>0, <2>1, TableKeeps
  <1>2. CASE TagTable!DetectEnds
    <2>1. PICK new \in SUBSET (Keys \ {t.key : t \in ToSet(s3)}) :
            s3' = s3 \o SetToSeq({[id |-> TagTable!NoId, key |-> k] :
                                    k \in new})
      BY <1>2, TagTableMeans DEF TagTable!DetectEnds
    <2> DEFINE rows == {[id |-> TagTable!NoId, key |-> k] : k \in new}
               q == SetToSeq(rows)
    <2>2. rows \subseteq TagTable!Row
      BY TagTableMeans
      DEF TagTable!Row, TagTable!NoId, TagTable!EditorAssumption
    <2>3. IsFiniteSet(rows)
      <3>1. IsFiniteSet(new)
        BY FS_Subset, TagTableMeans DEF TagTable!EditorAssumption
      <3> DEFINE f == [k \in new |-> [id |-> TagTable!NoId, key |-> k]]
      <3>2. f \in Surjection(new, rows)
        BY DEF Surjection
      <3> QED BY <3>1, <3>2, FS_Surjection
    <2>4. q \in Seq(rows) /\ ToSet(q) = rows
      BY <2>3, Sequenced
    <2>5. TagTable!IdsOf(ToSet(q)) = {}
      BY <2>4, NewRows
    <2>6. q \in Seq(TagTable!Row)
      BY <2>2, <2>4, SeqDef
    <2>7. s3' = s3 \o q
      BY <2>1
    <2> HIDE DEF q, rows
    <2>8. s3' \in Seq(TagTable!Row) /\ Len(s3') = Len(s3) + Len(q)
          /\ \A j \in 1..Len(s3) + Len(q) :
               s3'[j] = IF j <= Len(s3) THEN s3[j] ELSE q[j - Len(s3)]
      BY <1>0, <2>6, <2>7, ConcatProperties
    <2>9. Len(s3) \in Nat /\ Len(q) \in Nat
      BY <1>0, <2>6, LenProperties
    <2>10. ASSUME NEW id
           PROVE  id \in TagTable!IdsOf(ToSet(s3'))
                   <=> id \in TagTable!IdsOf(ToSet(s3))
      <3>1. ASSUME id \in TagTable!IdsOf(ToSet(s3'))
            PROVE  id \in TagTable!IdsOf(ToSet(s3))
        <4>1. PICK j \in 1..Len(s3') : s3'[j].id = id /\ id # TagTable!NoId
          BY <2>8, <3>1, IdsOfRows
        <4>2. CASE j <= Len(s3)
          BY <1>0, <2>8, <2>9, <4>1, <4>2, IdsOfRows
        <4>3. CASE ~(j <= Len(s3))
          <5>1. j - Len(s3) \in 1..Len(q) /\ q[j - Len(s3)].id = id
            BY <2>8, <2>9, <4>1, <4>3
          <5>2. id \in TagTable!IdsOf(ToSet(q))
            BY <2>6, <4>1, <5>1, IdsOfRows
          <5> QED BY <2>5, <5>2
        <4> QED BY <4>2, <4>3
      <3>2. ASSUME id \in TagTable!IdsOf(ToSet(s3))
            PROVE  id \in TagTable!IdsOf(ToSet(s3'))
        <4>1. PICK j \in 1..Len(s3) : s3[j].id = id /\ id # TagTable!NoId
          BY <1>0, <3>2, IdsOfRows
        <4>2. j \in 1..Len(s3') /\ s3'[j].id = id
          BY <2>8, <2>9, <4>1
        <4> QED BY <2>8, <4>1, <4>2, IdsOfRows
      <3> QED BY <3>1, <3>2
    <2>11. /\ UNCHANGED <<s1, s2, s8, s9, s4, s5, s6>>
           /\ s7' = FALSE
      BY <1>2, TagTableMeans DEF TagTable!DetectEnds
    <2> QED BY <2>8, <2>10, <2>11, TableKeeps
  <1> QED BY <1>1, <1>2

\* The stored rows change: no identifier is given twice, and none that the
\* operator has to keep comes without being in the table.
LEMMA StoredKeeps ==
  ASSUME TagTable!EditorAssumption, TagTable!EditorInv, NEW new,
         s1' \subseteq TagTable!Row, IsFiniteSet(s1'),
         s2' \in s2..MaxIds + 1,
         TagTable!IdsOf(s1') \subseteq TagTable!IdsOf(s1) \cup new,
         new \subseteq 1..s2' - 1,
         ~s9 => new \cap s8 \subseteq TagTable!IdsOf(ToSet(s3)),
         UNCHANGED <<TagTable!table, s4, s7>>,
         s6' \in Seq(TagTable!Row),
         TagTable!IdsOf(ToSet(s6')) \subseteq TagTable!IdsOf(ToSet(s6)),
         s5' \in {"no", "put", "rows", "get"},
         s5' # "no" => s5 # "no",
         s5' = "put" => s5 = "put" /\ s6' = s6 /\ new \cap s8 = {}
  PROVE  TagTable!EditorInv'
  <1>0. UNCHANGED <<s3, s8, s9>>
    BY DEF TagTable!table
  <1>1. /\ s2 \in Int /\ s2' \in 1..MaxIds + 1
        /\ 1..s2 - 1 \subseteq 1..s2' - 1
    BY KnownIds
  <1>2. TagTable!TypeOK'
    BY <1>0, <1>1 DEF TagTable!EditorInv, TagTable!TypeOK
  <1>3. TagTable!IdsKnown'
    BY <1>0, <1>1, KnownIds, TagTableMeans DEF TagTable!IdsKnown
  <1>4. (s9 \/ TagTable!InTable)'
    BY <1>0, TagTableMeans DEF TagTable!EditorInv, TagTable!InTable
  <1>5. TagTable!SentStays' /\ TagTable!MountFirst'
    BY <1>0, TagTableMeans
    DEF TagTable!EditorInv, TagTable!SentStays, TagTable!MountFirst
  <1> QED BY <1>2, <1>3, <1>4, <1>5 DEF TagTable!EditorInv

\* A save begins: the request has the rows of the table.
LEMMA PressKeeps ==
  ASSUME TagTable!EditorAssumption, TagTable!EditorInv, TagTable!PressSave
  PROVE  TagTable!EditorInv'
  <1>1. /\ s5' = "put" /\ s6' = s3 /\ s9' = (s9 \/ s4.going)
        /\ UNCHANGED <<s1, s2, s3, s8, s4, s7>>
    BY DEF TagTable!PressSave
  <1>2. s9' \in BOOLEAN
    BY <1>1
  <1>3. TagTable!TypeOK'
    BY <1>1, <1>2 DEF TagTable!EditorInv, TagTable!TypeOK
  <1>4. TagTable!IdsKnown'
    BY <1>1, TagTableMeans DEF TagTable!EditorInv, TagTable!IdsKnown
  <1>5. (s9 \/ TagTable!InTable)' /\ TagTable!SentStays' /\ TagTable!MountFirst'
    BY <1>1, TagTableMeans
    DEF TagTable!EditorInv, TagTable!InTable, TagTable!SentStays,
        TagTable!MountFirst
  <1> QED BY <1>3, <1>4, <1>5 DEF TagTable!EditorInv

\* The statements of a save.
LEMMA SavesKeep ==
  ASSUME TagTable!EditorAssumption, TagTable!EditorInv,
         \/ TagTable!SaveDeletes
         \/ TagTable!SaveStores
         \/ TagTable!SaveOk
         \/ TagTable!SaveFails
  PROVE  TagTable!EditorInv'
  <1> USE KnownIds
  <1>0. /\ s2 \in s2..MaxIds + 1 /\ s6 \in Seq(TagTable!Row)
        /\ ToSet(<<>>) = {}
        /\ TagTable!IdsOf({}) = {}
        /\ <<>> \in Seq(TagTable!Row)
    BY DEF TagTable!EditorInv, TagTable!TypeOK, ToSet, TagTable!IdsOf
  <1>1. CASE TagTable!SaveDeletes
    <2>1. /\ s5 = "put" /\ s5' = "rows" /\ s1' = TagTable!Kept
          /\ UNCHANGED <<s2, TagTable!table, s4, s6, s7>>
      BY <1>1 DEF TagTable!SaveDeletes
    <2>2. s1' \subseteq s1
      BY <2>1, TagTableMeans DEF TagTable!Kept
    <2>3. IsFiniteSet(s1') /\ TagTable!IdsOf(s1') \subseteq TagTable!IdsOf(s1)
      BY <2>2, FS_Subset, IdsOfUnion
    <2> QED BY <1>0, <2>1, <2>2, <2>3, StoredKeeps
  <1>2. CASE TagTable!SaveStores
    <2> DEFINE t == Head(s6)
    <2>1. /\ s5 = "rows" /\ s6 # <<>> /\ TagTable!Upsert(t) /\ s6' = Tail(s6)
          /\ UNCHANGED <<TagTable!table, s4, s5, s7>>
      BY <1>2 DEF TagTable!SaveStores
    <2>2. /\ Len(s6) \in Nat \ {0} /\ t = s6[1] /\ t \in TagTable!Row
          /\ s6' \in Seq(TagTable!Row) /\ Len(s6') = Len(s6) - 1
          /\ \A j \in 1..Len(s6') : s6'[j] = s6[j + 1]
      BY <1>0, <2>1, HeadTailProperties, EmptySeq, LenProperties
    <2>3. ASSUME NEW id, id \in TagTable!IdsOf(ToSet(s6'))
          PROVE  id \in TagTable!IdsOf(ToSet(s6))
      <3>1. PICK j \in 1..Len(s6') : id # TagTable!NoId /\ s6'[j].id = id
        BY <2>2, <2>3, IdsOfRows
      <3>2. j + 1 \in 1..Len(s6) /\ s6[j + 1].id = id
        BY <2>2, <3>1
      <3> QED BY <1>0, <3>1, <3>2, IdsOfRows
    <2>4. t.id # TagTable!NoId => t.id \in TagTable!IdsOf(ToSet(s6))
      BY <1>0, <2>2, IdsOfRows
    <2> HIDE DEF t
    <2>5. CASE UNCHANGED <<s1, s2>>
      <3>1. TagTable!IdsOf(s1') \subseteq TagTable!IdsOf(s1) \cup {}
        BY <2>5
      <3> QED BY <1>0, <2>1, <2>2, <2>3, <2>5, <3>1, StoredKeeps
    <2>6. CASE t.id # TagTable!NoId /\ s1' = s1 \cup {t} /\ UNCHANGED s2
      <3>1. s1' \subseteq TagTable!Row /\ IsFiniteSet(s1')
        BY <2>2, <2>6, FS_AddElement
      <3>2. TagTable!IdsOf(s1') \subseteq TagTable!IdsOf(s1) \cup {t.id}
        BY <2>6 DEF TagTable!IdsOf
      <3>3. {t.id} \subseteq 1..s2' - 1
        BY <2>4, <2>6
      <3>4. ~s9 => {t.id} \cap s8 \subseteq TagTable!IdsOf(ToSet(s3))
        BY <2>4, <2>6, TagTableMeans
        DEF TagTable!EditorInv, TagTable!SentStays
      <3> QED BY <1>0, <2>1, <2>2, <2>3, <2>6, <3>1, <3>2, <3>3, <3>4,
                 StoredKeeps
    <2>7. CASE /\ s2 <= MaxIds /\ s2' = s2 + 1
               /\ s1' = s1 \cup {[t EXCEPT !.id = s2]}
      <3> DEFINE r == [t EXCEPT !.id = s2]
      <3>1. r \in TagTable!Row /\ r.id = s2
        <4>1. s2 \in TagTable!NoId..MaxIds
          BY <2>7 DEF TagTable!NoId
        <4> QED BY <2>2, <4>1 DEF TagTable!Row
      <3> HIDE DEF r
      <3>2. s1' = s1 \cup {r}
        BY <2>7 DEF r
      <3>3. s1' \subseteq TagTable!Row /\ IsFiniteSet(s1')
        BY <3>1, <3>2, FS_AddElement
      <3>4. TagTable!IdsOf(s1') \subseteq TagTable!IdsOf(s1) \cup {s2}
        BY <3>1, <3>2 DEF TagTable!IdsOf
      <3>5. /\ s2' \in s2..MaxIds + 1 /\ {s2} \subseteq 1..s2' - 1
            /\ {s2} \cap s8 = {}
        BY <2>7
      <3> QED BY <1>0, <2>1, <2>2, <2>3, <3>3, <3>4, <3>5, StoredKeeps
    <2> QED BY <2>1, <2>5, <2>6, <2>7 DEF TagTable!Upsert
  <1>3. CASE TagTable!SaveOk \/ TagTable!SaveFails
    <2>1. /\ UNCHANGED <<s1, s2, TagTable!table, s4, s7>>
          /\ s6' \in {s6, <<>>} /\ s5 \in {"put", "rows"}
          /\ s5' \in {"no", "get"}
      BY <1>3 DEF TagTable!SaveOk, TagTable!SaveFails
    <2>2. /\ s6' \in Seq(TagTable!Row)
          /\ TagTable!IdsOf(ToSet(s6')) \subseteq TagTable!IdsOf(ToSet(s6))
      BY <1>0, <2>1
    <2>3. TagTable!IdsOf(s1') \subseteq TagTable!IdsOf(s1) \cup {}
      BY <2>1
    <2> QED BY <1>0, <2>1, <2>2, <2>3, StoredKeeps
  <1> QED BY <1>1, <1>2, <1>3

\* Another operator saves the mapping too.
LEMMA TagTableOthersKeep ==
  ASSUME TagTable!EditorAssumption, TagTable!EditorInv,
         \/ (\E r \in s1 : TagTable!OtherRemoves(r))
         \/ (\E k \in Keys : TagTable!OtherAdds(k))
  PROVE  TagTable!EditorInv'
  <1> USE KnownIds
  <1>0. /\ s2 \in s2..MaxIds + 1 /\ s6 \in Seq(TagTable!Row)
        /\ s5 \in {"no", "put", "rows", "get"}
    BY DEF TagTable!EditorInv, TagTable!TypeOK
  <1>1. ASSUME NEW r \in s1, TagTable!OtherRemoves(r)
        PROVE  TagTable!EditorInv'
    <2>1. /\ s1' = s1 \ {r}
          /\ UNCHANGED <<s2, TagTable!table, s4, s5, s6, s7>>
      BY <1>1 DEF TagTable!OtherRemoves
    <2>2. /\ IsFiniteSet(s1')
          /\ TagTable!IdsOf(s1') \subseteq TagTable!IdsOf(s1) \cup {}
      BY <2>1, FS_Subset, IdsOfUnion
    <2>3. /\ s1' \subseteq TagTable!Row
          /\ {} \subseteq 1..s2' - 1
          /\ {} \cap s8 = {}
      BY <2>1
    <2>4. UNCHANGED <<TagTable!table, s4, s7>> /\ s2' \in s2..MaxIds + 1
      BY <1>0, <2>1
    <2>5. s6' = s6 /\ s5' = s5
      BY <2>1
    <2> QED BY <1>0, <2>2, <2>3, <2>4, <2>5, StoredKeeps
  <1>2. ASSUME NEW k \in Keys, TagTable!OtherAdds(k)
        PROVE  TagTable!EditorInv'
    <2> DEFINE r == [id |-> s2, key |-> k]
    <2>1. /\ s2 <= MaxIds /\ s1' = s1 \cup {r} /\ s2' = s2 + 1
          /\ UNCHANGED <<TagTable!table, s4, s5, s6, s7>>
      BY <1>2 DEF TagTable!OtherAdds
    <2>2. r \in TagTable!Row /\ r.id = s2
      BY <2>1 DEF TagTable!Row, TagTable!NoId
    <2> HIDE DEF r
    <2>3. s1' \subseteq TagTable!Row /\ IsFiniteSet(s1')
      BY <2>1, <2>2, FS_AddElement
    <2>4. TagTable!IdsOf(s1') \subseteq TagTable!IdsOf(s1) \cup {s2}
      BY <2>1, <2>2 DEF TagTable!IdsOf
    <2>5. /\ s2' \in s2..MaxIds + 1 /\ {s2} \subseteq 1..s2' - 1
          /\ {s2} \cap s8 = {}
      BY <2>1
    <2> QED BY <1>0, <2>1, <2>3, <2>4, <2>5, StoredKeeps
  <1> QED BY <1>1, <1>2

\* Every step keeps the invariant.
LEMMA EditorStep ==
  ASSUME TagTable!EditorAssumption, TagTable!EditorInv,
         [TagTable!Next]_(TagTable!editorVars)
  PROVE  TagTable!EditorInv'
  <1>1. CASE UNCHANGED TagTable!editorVars
    BY <1>1, TagTableMeans
    DEF TagTable!editorVars, TagTable!table, TagTable!EditorInv,
        TagTable!TypeOK, TagTable!IdsKnown, TagTable!InTable,
        TagTable!MountFirst, TagTable!SentStays
  <1>2. CASE TagTable!Next
    BY <1>2, TagTableLoadsKeep, EditsKeep, DetectionKeeps, PressKeeps,
       SavesKeep, TagTableOthersKeep DEF TagTable!Next
  <1> QED BY <1>1, <1>2

\* Only the first statement of a save deletes rows, and those it deletes are
\* not in the request.
LEMMA EditorFacts ==
  ASSUME TagTable!EditorAssumption, TagTable!EditorInv,
         [TagTable!Next]_(TagTable!editorVars)
  PROVE  TagTable!SaveDeletesTheRemoved
  <1> SUFFICES ASSUME s5 \in {"put", "rows"}, <<s5, s6>>' # <<s5, s6>>, ~s9,
                      NEW id \in s8 \cap TagTable!IdsOf(s1)
               PROVE  id \in TagTable!IdsOf(s1')
    BY DEF TagTable!SaveDeletesTheRemoved
  <1>1. \/ TagTable!SaveDeletes
        \/ TagTable!SaveStores
        \/ TagTable!SaveOk
        \/ TagTable!SaveFails
    BY TagTableMeans
    DEF TagTable!Next, TagTable!editorVars, TagTable!MountLoaded,
        TagTable!MountFails, TagTable!PressSave, TagTable!Reloaded,
        TagTable!ReloadFails, TagTable!HandleDetect, TagTable!DetectEnds,
        TagTable!DetectFails, TagTable!HandleAdd, TagTable!OtherAdds,
        TagTable!HandleRemove, TagTable!HandleUpdate, TagTable!OtherRemoves
  <1>2. CASE TagTable!SaveDeletes
    <2>1. s1' = TagTable!Kept /\ id \in TagTable!IdsOf(ToSet(s6))
      BY <1>2, TagTableMeans
      DEF TagTable!SaveDeletes, TagTable!EditorInv, TagTable!SentStays
    <2> QED BY <2>1, TagTableMeans DEF TagTable!Kept, TagTable!IdsOf
  <1>3. CASE TagTable!SaveStores
    <2>1. s1 \subseteq s1'
      BY <1>3 DEF TagTable!SaveStores, TagTable!Upsert
    <2> QED BY <2>1, IdsOfUnion
  <1>4. CASE TagTable!SaveOk \/ TagTable!SaveFails
    BY <1>4 DEF TagTable!SaveOk, TagTable!SaveFails
  <1> QED BY <1>1, <1>2, <1>3, <1>4

\* The invariant of the telemetry mapping holds in every behaviour.
THEOREM TagsInvariant == PagesSpec => [](view = "tags" => TagTable!EditorInv)
  <1> DEFINE Inv == view = "tags" => TagTable!EditorInv
  <1>0. PagesInit => Inv
    BY EditorInit, PagesAssumption DEF PagesInit, PagesAssumption
  <1>1. ASSUME Inv, [PagesNext]_pagesVars
        PROVE  Inv'
    <2>1. view' = view
      BY <1>1 DEF PagesNext, pagesVars
    <2>2. view = "tags" => [TagTable!Next]_(TagTable!editorVars)
      BY <1>1
      DEF PagesNext, Step, pagesVars, shared, analytics, TagTable!editorVars,
          TagTable!table
    <2> QED BY <1>1, <2>1, <2>2, EditorStep, PagesAssumption
            DEF PagesAssumption
  <1> QED BY <1>0, <1>1, PTL DEF PagesSpec

\* For any table, and other operators who save the mapping too: no statement
\* of a save deletes a mapping that the table has shown and the operator has
\* not removed, unless the first load was still under way when the save was
\* pressed (NodeConfigPage.jsx, handleSave, and service.go, SaveNodeTags).
THEOREM SavesDeleteTheRemoved == PagesSpec => SaveDeletesTheRemoved
  <1>1. ASSUME view = "tags" => TagTable!EditorInv, [PagesNext]_pagesVars
        PROVE  view = "tags" => TagTable!SaveDeletesTheRemoved
    <2>1. view = "tags" => [TagTable!Next]_(TagTable!editorVars)
      BY <1>1
      DEF PagesNext, Step, pagesVars, shared, analytics, TagTable!editorVars,
          TagTable!table
    <2> QED BY <1>1, <2>1, EditorFacts, PagesAssumption DEF PagesAssumption
  <1> QED BY <1>1, TagsInvariant, PTL DEF PagesSpec, SaveDeletesTheRemoved
=============================================================================
