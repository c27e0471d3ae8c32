---------------------------- MODULE RouterProofs ----------------------------
(***************************************************************************)
(* Proofs about Router for any number of tokens and any market.            *)
(*                                                                         *)
(* The inductive invariant says that a label is never below what its       *)
(* predecessor's label and the edge between them add up to: labels only    *)
(* fall, and the edge was tight when it was stored.  Two more invariants   *)
(* rest on it: on a cycle of predecessors one of these inequalities is     *)
(* strict, so that the cycle gains; and every cycle that was kept is a     *)
(* round trip.                                                             *)
(***************************************************************************)
EXTENDS Router, FiniteSetTheorems, SequenceTheorems, WellFoundedInduction, TLAPS

(* What is left to look at touches the token in hand. *)
ScanInv ==
    pc = "edges" => u \in Tokens /\ todo \subseteq Pools(u)

(* A stored predecessor is an edge of the market into its token. *)
EdgeInv ==
    \A t \in Tokens :
        LET e == predecessor[t]
        IN  e # NoEdge => /\ e.pool \in Pools(e.from)
                          /\ e = Edge(e.pool, e.from)
                          /\ e.to = t

(* Labels lag behind their predecessors. *)
LagInv ==
    \A t \in Tokens :
        LET e == predecessor[t]
        IN  e # NoEdge => dist[t] >= dist[e.from] + Weight(e)

IInv == TypeOK /\ ScanInv /\ EdgeInv /\ LagInv /\ NoPoolBothWays

-----------------------------------------------------------------------------
(* Induction over the naturals, for sets: the library's induction theorems *)
(* are about operators.  A set of naturals has a least element.            *)
LEMMA LeastElement ==
  ASSUME NEW S, S \subseteq Nat, S # {}
  PROVE  \E x \in S : \A y \in S : x <= y
  <1> DEFINE R == {ss \in Nat \X Nat : ss[1] < ss[2]}
  <1>1. IsWellFoundedOn(R, Nat)
    <2>1. R = OpToRel(<, Nat)
      BY Zenon DEF OpToRel
    <2>2. QED
      BY ONLY <2>1, NatLessThanWellFounded, Zenon
  <1>2. PICK x \in S : \A y \in S : ~ (<<y, x>> \in R)
    BY <1>1, WFMin
  <1>3. ASSUME NEW y \in S PROVE x <= y
    <2>1. <<y, x>> \notin R
      BY <1>2
    <2>2. x \in Nat /\ y \in Nat
      OBVIOUS
    <2>3. <<y, x>>[1] = y /\ <<y, x>>[2] = x /\ <<y, x>> \in Nat \X Nat
      BY <2>2
    <2>4. ~ (y < x)
      BY ONLY <2>1, <2>3, Zenon
    <2>5. QED
      BY <2>2, <2>4
  <1>4. QED
    BY <1>3

(* A set with 0 and the successors of its members has every natural. *)
LEMMA SetInduction ==
  ASSUME NEW S, 0 \in S, \A n \in Nat : n \in S => n + 1 \in S
  PROVE  \A n \in Nat : n \in S
  <1> SUFFICES ASSUME NEW m \in Nat, m \notin S PROVE FALSE
    OBVIOUS
  <1>1. PICK x \in Nat \ S : \A y \in Nat \ S : x <= y
    <2>1. Nat \ S # {} /\ Nat \ S \subseteq Nat
      OBVIOUS
    <2>2. QED
      BY <2>1, LeastElement
  <1>2. x # 0 /\ x - 1 \in Nat /\ x - 1 < x
    BY <1>1
  <1>3. x - 1 \in S
    BY <1>1, <1>2
  <1>4. QED
    BY <1>1, <1>2, <1>3

(* The same up to m. *)
LEMMA BoundedInduction ==
  ASSUME NEW m \in Nat, NEW S, 0 \in S, \A k \in 1 .. m : k - 1 \in S => k \in S
  PROVE  \A k \in 0 .. m : k \in S
  <1> DEFINE R == {n \in Nat : n <= m => n \in S}
  <1>1. 0 \in R
    OBVIOUS
  <1>2. ASSUME NEW n \in Nat, n \in R PROVE n + 1 \in R
    <2> SUFFICES ASSUME n + 1 <= m PROVE n + 1 \in S
      OBVIOUS
    <2>1. n \in S /\ n + 1 \in 1 .. m /\ (n + 1) - 1 = n
      BY <1>2
    <2>2. QED
      BY <2>1
  <1> HIDE DEF R
  <1>3. \A n \in Nat : n \in R
    BY <1>1, <1>2, SetInduction
  <1>4. QED
    BY <1>3 DEF R

(* f is what the functions F[1], F[2] .. make of base, one after the other. *)
Iterates(f, base, F, m) == f[0] = base /\ \A k \in 1 .. m : f[k] = F[k][f[k - 1]]

(* Such an f exists: what a recursive function definition stands for. *)
LEMMA RecursionExists ==
  ASSUME NEW T, NEW base \in T, NEW m \in Nat, NEW F \in [1 .. m -> [T -> T]]
  PROVE  \E g \in [0 .. m -> T] : Iterates(g, base, F, m)
  <1> DEFINE S == {n \in Nat : n <= m => \E g \in [0 .. n -> T] : Iterates(g, base, F, n)}
  <1>1. 0 \in S
    <2>1. /\ [k \in 0 .. 0 |-> base] \in [0 .. 0 -> T]
          /\ Iterates([k \in 0 .. 0 |-> base], base, F, 0)
      BY DEF Iterates
    <2>2. QED
      BY <2>1
  <1>2. ASSUME NEW n \in Nat, n \in S PROVE n + 1 \in S
    <2> SUFFICES ASSUME n + 1 <= m
                 PROVE  \E g \in [0 .. n + 1 -> T] : Iterates(g, base, F, n + 1)
      OBVIOUS
    <2>1. PICK g \in [0 .. n -> T] : Iterates(g, base, F, n)
      BY <1>2
    <2> DEFINE h == [k \in 0 .. n + 1 |-> IF k = n + 1 THEN F[n + 1][g[n]] ELSE g[k]]
    <2>2. h \in [0 .. n + 1 -> T]
      BY <2>1
    <2>3. /\ h[n + 1] = F[n + 1][g[n]] /\ h[n] = g[n] /\ h[0] = g[0]
          /\ \A k \in 1 .. n : h[k] = g[k] /\ h[k - 1] = g[k - 1]
      OBVIOUS
    <2> HIDE DEF h
    <2>4. ASSUME NEW k \in 1 .. n + 1 PROVE h[k] = F[k][h[k - 1]]
      <3>1. CASE k = n + 1
        BY <2>3, <3>1
      <3>2. CASE k \in 1 .. n
        BY <2>1, <2>3, <3>2 DEF Iterates
      <3>3. QED
        BY <3>1, <3>2
    <2>5. Iterates(h, base, F, n + 1)
      BY <2>1, <2>3, <2>4 DEF Iterates
    <2>6. QED
      BY <2>2, <2>5
  <1> HIDE DEF S
  <1>3. m \in S
    BY <1>1, <1>2, SetInduction
  <1>4. QED
    BY <1>3 DEF S

-----------------------------------------------------------------------------
USE DEF Tokens

(* The two ends of a pool. *)
LEMMA EdgeFacts ==
  ASSUME market \in Markets, NEW t \in Tokens, NEW p \in Pools(t)
  PROVE  /\ p \in DOMAIN market /\ p \in Nat /\ p # 0
         /\ Edge(p, t) \in [pool : DOMAIN market, from : Tokens, to : Tokens]
         /\ Edge(p, t) # NoEdge
         /\ Edge(p, t).pool = p /\ Edge(p, t).from = t
         /\ Edge(p, t).to # t
         /\ p \in Pools(Edge(p, t).to)
         /\ Edge(p, Edge(p, t).to).to = t
         /\ Weight(Edge(p, t)) \in Int
         /\ Weight(Edge(p, Edge(p, t).to)) = -Weight(Edge(p, t))
  <1>1. /\ p \in DOMAIN market /\ p \in Nat /\ p # 0
        /\ market[p].t0 \in Tokens /\ market[p].t1 \in Tokens
        /\ market[p].t0 # market[p].t1
        /\ market[p].price \in Int /\ market[p].fee \in Nat
        /\ t \in {market[p].t0, market[p].t1}
    BY RouterAssumption DEF Pools
  <1>2. Edge(p, t).pool = p /\ Edge(p, t).from = t
    BY DEF Edge
  <1>3. Edge(p, t) \in [pool : DOMAIN market, from : Tokens, to : Tokens]
    BY <1>1 DEF Edge
  <1>4. Edge(p, t) # NoEdge
    BY <1>1, <1>2 DEF NoEdge
  <1>5. Edge(p, t).to # t /\ p \in Pools(Edge(p, t).to)
    BY <1>1 DEF Edge, Pools
  <1>6. Edge(p, Edge(p, t).to).to = t
    BY <1>1 DEF Edge
  <1>7. /\ Weight(Edge(p, t)) \in Int
        /\ Weight(Edge(p, Edge(p, t).to)) = -Weight(Edge(p, t))
    BY <1>1 DEF Edge, Weight
  <1>8. QED
    BY <1>1, <1>2, <1>3, <1>4, <1>5, <1>6, <1>7

(* The edge that is looked at. *)
LEMMA NextEdgeFacts ==
  ASSUME IInv, NEW p \in todo, NextEdge(p)
  PROVE  /\ u \in Tokens /\ p \in Pools(u)
         /\ market' = market /\ u' = u
         /\ todo' \subseteq Pools(u) /\ todo' \subseteq DOMAIN market
         /\ pc' \in {"pop", "edges"}
  BY DEF IInv, ScanInv, NextEdge, Pools

(* A lowered label. *)
LEMMA RelaxedLabels ==
  ASSUME IInv, NEW p \in todo, Relaxed(p, Edge(p, u))
  PROVE  /\ dist' \in [Tokens -> Int]
         /\ \A s, t \in Tokens : dist'[s] - dist'[t] =
               [dist EXCEPT ![Edge(p, u).to] = dist[u] + Weight(Edge(p, u))][s]
               - [dist EXCEPT ![Edge(p, u).to] = dist[u] + Weight(Edge(p, u))][t]
  <1> DEFINE e == Edge(p, u)
             d == [dist EXCEPT ![e.to] = dist[u] + Weight(e)]
  <1>1. u \in Tokens /\ p \in Pools(u) /\ market \in Markets
    BY NextEdgeFacts DEF Relaxed, IInv, TypeOK
  <1>2. e.to \in Tokens /\ e.from = u /\ Weight(e) \in Int
    BY <1>1, EdgeFacts
  <1>3. d \in [Tokens -> Int]
    BY <1>1, <1>2 DEF IInv, TypeOK
  <1>4. dist' = Rebased(d)
    BY <1>2 DEF Relaxed
  <1>5. 1 \in Tokens
    BY RouterAssumption
  <1> HIDE DEF d
  <1>6. dist' = [t \in Tokens |-> d[t] - d[1]]
    BY <1>4 DEF Rebased
  <1>7. dist' \in [Tokens -> Int]
    BY <1>3, <1>5, <1>6
  <1>8. ASSUME NEW s \in Tokens, NEW t \in Tokens
        PROVE  dist'[s] - dist'[t] = d[s] - d[t]
    BY <1>3, <1>5, <1>6
  <1>9. QED
    BY <1>7, <1>8 DEF d

(* Storing an edge that improves a label keeps the invariant's relational  *)
(* parts; above all, its pool is not the one the token in hand came by.    *)
LEMMA RelaxedInv ==
  ASSUME IInv, NEW p \in todo, Relaxed(p, Edge(p, u))
  PROVE  /\ dist' \in [Tokens -> Int]
         /\ predecessor' \in [Tokens -> {NoEdge} \cup
                               [pool : DOMAIN market', from : Tokens, to : Tokens]]
         /\ ScanInv' /\ EdgeInv' /\ LagInv' /\ NoPoolBothWays'
  <1> DEFINE e == Edge(p, u)
             v == e.to
             w == Weight(e)
             d == [dist EXCEPT ![v] = dist[u] + w]
  <1>1. /\ u \in Tokens /\ p \in Pools(u) /\ market \in Markets
        /\ market' = market /\ u' = u /\ todo' \subseteq Pools(u)
    BY NextEdgeFacts DEF Relaxed, IInv, TypeOK
  <1>2. /\ e \in [pool : DOMAIN market, from : Tokens, to : Tokens]
        /\ e # NoEdge /\ e.pool = p /\ e.from = u /\ v \in Tokens /\ v # u
        /\ p \in Pools(v) /\ Edge(p, v).to = u
        /\ w \in Int /\ Weight(Edge(p, v)) = -w
    BY <1>1, EdgeFacts
  <1>3. /\ dist[u] + w < dist[v]
        /\ predecessor' = [predecessor EXCEPT ![v] = e]
    BY <1>2 DEF Relaxed, Improves
  <1>4. /\ dist' \in [Tokens -> Int]
        /\ \A s, t \in Tokens : dist'[s] - dist'[t] = d[s] - d[t]
    BY RelaxedLabels, <1>2
  <1>5. /\ dist \in [Tokens -> Int]
        /\ predecessor \in [Tokens -> {NoEdge} \cup
                             [pool : DOMAIN market, from : Tokens, to : Tokens]]
    BY DEF IInv, TypeOK
  <1>6. /\ predecessor'[v] = e
        /\ \A t \in Tokens \ {v} : predecessor'[t] = predecessor[t]
    BY <1>2, <1>3, <1>5
  <1>7. \A f : Weight(f)' = Weight(f)
    BY <1>1 DEF Weight
  <1> HIDE DEF e, v, w
  <1>8. predecessor' \in [Tokens -> {NoEdge} \cup
                           [pool : DOMAIN market', from : Tokens, to : Tokens]]
    BY <1>1, <1>2, <1>3, <1>5
  <1>9. ScanInv'
    BY <1>1 DEF ScanInv, Pools
  <1>10. EdgeInv'
    <2> SUFFICES ASSUME NEW t \in Tokens, predecessor'[t] # NoEdge
                 PROVE  /\ predecessor'[t].pool \in Pools(predecessor'[t].from)
                        /\ predecessor'[t] = Edge(predecessor'[t].pool, predecessor'[t].from)
                        /\ predecessor'[t].to = t
      BY <1>1 DEF EdgeInv, Pools, Edge
    <2>1. CASE t = v
      BY <1>1, <1>2, <1>6, <2>1 DEF e, v
    <2>2. CASE t # v
      BY <1>6, <2>2 DEF IInv, EdgeInv
    <2>3. QED
      BY <2>1, <2>2
  (* The edge back through the same pool would have improved nothing. *)
  <1>11. predecessor[u].pool # p
    <2> SUFFICES ASSUME predecessor[u].pool = p PROVE FALSE
      OBVIOUS
    <2>1. p # 0
      BY <1>1, EdgeFacts
    <2>2. predecessor[u] # NoEdge
      BY <2>1 DEF NoEdge
    <2>3. /\ predecessor[u] = Edge(p, predecessor[u].from)
          /\ predecessor[u].to = u /\ p \in Pools(predecessor[u].from)
          /\ dist[u] >= dist[predecessor[u].from] + Weight(predecessor[u])
      BY <1>1, <2>2 DEF IInv, EdgeInv, LagInv
    <2>4. predecessor[u].from \in Tokens
      BY <1>1, <1>5, <2>2
    <2>5. predecessor[u].from # u
      BY <1>1, <2>3, <2>4, EdgeFacts
    <2>6. predecessor[u].from = v
      BY <1>1, <1>2, <2>3, <2>4, <2>5 DEF Pools, Edge, e, v
    <2>7. dist[u] >= dist[v] - w
      BY <1>2, <1>5, <2>3, <2>6, <1>1
    <2>8. QED
      BY <1>1, <1>2, <1>3, <1>5, <2>7
  <1>12. LagInv'
    <2> SUFFICES ASSUME NEW t \in Tokens, predecessor'[t] # NoEdge
                 PROVE  dist'[t] >= dist'[predecessor'[t].from] + Weight(predecessor'[t])
      BY <1>7 DEF LagInv
    <2>1. predecessor'[t].from \in Tokens
      BY <1>8
    <2>2. Weight(predecessor'[t]) \in Int
      <3>1. CASE t = v
        BY <1>2, <1>6, <3>1 DEF w
      <3>2. CASE t # v
        BY <1>1, <1>6, <2>1, <3>2, EdgeFacts DEF IInv, EdgeInv
      <3>3. QED
        BY <3>1, <3>2
    <2>3. d \in [Tokens -> Int]
      BY <1>1, <1>2, <1>5
    <2>4. d[t] - d[predecessor'[t].from] >= Weight(predecessor'[t])
      <3>1. CASE t = v
        BY <1>1, <1>2, <1>5, <1>6, <3>1 DEF w
      <3>2. CASE t # v
        <4>1. dist[t] >= dist[predecessor[t].from] + Weight(predecessor[t])
          BY <1>6, <3>2 DEF IInv, LagInv
        <4>2. d[t] = dist[t] /\ predecessor'[t] = predecessor[t]
          BY <1>5, <1>6, <3>2
        <4>3. d[predecessor[t].from] <= dist[predecessor[t].from]
          BY <1>1, <1>2, <1>3, <1>5, <2>1, <4>2
        <4>4. QED
          BY <1>5, <2>1, <2>2, <2>3, <4>1, <4>2, <4>3
      <3>3. QED
        BY <3>1, <3>2
    <2>5. dist'[t] - dist'[predecessor'[t].from] = d[t] - d[predecessor'[t].from]
      BY <1>4, <2>1
    <2>6. dist'[t] \in Int /\ dist'[predecessor'[t].from] \in Int
      BY <1>4, <2>1
    <2> HIDE DEF d
    <2>7. QED
      BY <2>2, <2>4, <2>5, <2>6
  <1>13. NoPoolBothWays'
    <2> SUFFICES ASSUME NEW t \in Tokens, predecessor'[t] # NoEdge
                 PROVE  predecessor'[predecessor'[t].from].pool # predecessor'[t].pool
      BY DEF NoPoolBothWays
    <2>1. CASE t = v
      BY <1>1, <1>2, <1>6, <1>11, <2>1
    <2>2. CASE t # v
      <3>1. predecessor'[t] = predecessor[t] /\ predecessor[t].from \in Tokens
        BY <1>5, <1>6, <2>2
      <3>2. CASE predecessor[t].from # v
        BY <1>6, <3>1, <3>2 DEF IInv, NoPoolBothWays
      <3>3. CASE predecessor[t].from = v
        <4>1. SUFFICES ASSUME predecessor[t].pool = p PROVE FALSE
          BY <1>2, <1>6, <3>1, <3>3
        <4>2. predecessor[t] = Edge(p, v) /\ predecessor[t].to = t
          BY <3>1, <3>3, <4>1 DEF IInv, EdgeInv
        <4>3. t = u
          BY <1>2, <4>2
        <4>4. QED
          BY <1>11, <4>1, <4>3
      <3>4. QED
        BY <3>2, <3>3
    <2>3. QED
      BY <2>1, <2>2
  <1>14. QED
    BY <1>4, <1>8, <1>9, <1>10, <1>12, <1>13

-----------------------------------------------------------------------------
(* Every token has label 0 and no predecessor. *)
LEMMA InitInv == Init => IInv
  <1> SUFFICES ASSUME Init PROVE IInv
    OBVIOUS
  <1>1. TypeOK
    BY RouterAssumption DEF Init, TypeOK
  <1>2. ScanInv /\ EdgeInv /\ LagInv /\ NoPoolBothWays
    BY DEF Init, ScanInv, EdgeInv, LagInv, NoPoolBothWays
  <1>3. QED
    BY <1>1, <1>2 DEF IInv

(* The counter stays below N, and only tokens are queued. *)
LEMMA RelaxedType ==
  ASSUME IInv, NEW p \in todo,
         RelaxQueued(p) \/ RelaxAndQueue(p) \/ RelaxAndExtract(p)
  PROVE  TypeOK'
  <1> DEFINE e == Edge(p, u)
  <1>1. /\ u \in Tokens /\ p \in Pools(u) /\ market \in Markets
        /\ market' = market /\ u' = u /\ todo' \subseteq DOMAIN market
        /\ pc' \in {"pop", "edges"}
    BY NextEdgeFacts DEF RelaxQueued, RelaxAndQueue, RelaxAndExtract, Relaxed, IInv, TypeOK
  <1>2. e.to \in Tokens
    BY <1>1, EdgeFacts
  <1>3. /\ dist' \in [Tokens -> Int]
        /\ predecessor' \in [Tokens -> {NoEdge} \cup
                               [pool : DOMAIN market', from : Tokens, to : Tokens]]
    BY RelaxedInv DEF RelaxQueued, RelaxAndQueue, RelaxAndExtract
  <1> HIDE DEF e
  <1>4. count' \in [Tokens -> 0 .. N - 1]
    <2>1. CASE RelaxQueued(p)
      BY <2>1 DEF RelaxQueued, IInv, TypeOK
    <2>2. CASE RelaxAndQueue(p)
      <3>1. count' = [count EXCEPT ![e.to] = count[e.to] + 1] /\ count[e.to] + 1 < N
        BY <2>2 DEF RelaxAndQueue, e
      <3>2. count \in [Tokens -> 0 .. N - 1]
        BY DEF IInv, TypeOK
      <3>3. count[e.to] + 1 \in 0 .. N - 1
        BY <1>2, <3>1, <3>2, RouterAssumption
      <3>4. QED
        BY <3>1, <3>2, <3>3
    <2>3. CASE RelaxAndExtract(p)
      BY <1>2, <2>3, RouterAssumption DEF RelaxAndExtract, IInv, TypeOK, e
    <2>4. QED
      BY <2>1, <2>2, <2>3
  <1>5. queue' \in Seq(Tokens)
    <2>1. queue \in Seq(Tokens) /\ <<e.to>> \in Seq(Tokens)
      BY <1>2 DEF IInv, TypeOK
    <2>2. <<e.to>> \o queue \in Seq(Tokens) /\ Append(queue, e.to) \in Seq(Tokens)
      BY <1>2, <2>1
    <2>3. CASE RelaxAndQueue(p)
      BY <2>2, <2>3 DEF RelaxAndQueue, e
    <2>4. CASE RelaxQueued(p) \/ RelaxAndExtract(p)
      BY <2>1, <2>4 DEF RelaxQueued, RelaxAndExtract
    <2>5. QED
      BY <2>3, <2>4
  <1>6. QED
    BY <1>1, <1>3, <1>4, <1>5 DEF TypeOK

(* Every action keeps the invariant. *)
LEMMA NextInv == IInv /\ [Next]_vars => IInv'
  <1> SUFFICES ASSUME IInv, [Next]_vars PROVE IInv'
    OBVIOUS
  <1>1. CASE Pop
    <2>1. Head(queue) \in Tokens /\ Tail(queue) \in Seq(Tokens)
      <3>1. queue \in Seq(Tokens) /\ queue # <<>>
        BY <1>1 DEF Pop, IInv, TypeOK
      <3> HIDE DEF Tokens
      <3>2. QED
        BY <3>1, HeadTailProperties
    <2>2. TypeOK'
      BY <1>1, <2>1 DEF Pop, IInv, TypeOK, Pools
    <2>3. ScanInv' /\ EdgeInv' /\ LagInv' /\ NoPoolBothWays'
      BY <1>1, <2>1 DEF Pop, IInv, ScanInv, EdgeInv, LagInv, NoPoolBothWays, Pools,
         Edge, Weight
    <2>4. QED
      BY <2>2, <2>3 DEF IInv
  <1>2. ASSUME NEW p \in todo, Skip(p) PROVE IInv'
    <2>1. TypeOK'
      BY <1>2, NextEdgeFacts DEF Skip, labels, IInv, TypeOK
    <2>2. ScanInv'
      BY <1>2, NextEdgeFacts DEF Skip, ScanInv, Pools
    <2>3. EdgeInv' /\ LagInv' /\ NoPoolBothWays'
      BY <1>2, NextEdgeFacts DEF Skip, labels, IInv, EdgeInv, LagInv, NoPoolBothWays,
         Pools, Edge, Weight
    <2>4. QED
      BY <2>1, <2>2, <2>3 DEF IInv
  <1>3. ASSUME NEW p \in todo,
               RelaxQueued(p) \/ RelaxAndQueue(p) \/ RelaxAndExtract(p)
        PROVE  IInv'
    BY <1>3, RelaxedType, RelaxedInv
       DEF RelaxQueued, RelaxAndQueue, RelaxAndExtract, IInv
  <1>4. CASE Collect
    <2>1. UNCHANGED <<market, dist, count, queue, predecessor, u, todo>> /\ pc' = "done"
      BY <1>4 DEF Collect, labels
    <2>2. QED
      BY <2>1 DEF IInv, TypeOK, ScanInv, EdgeInv, LagInv, NoPoolBothWays, Pools, Edge,
         Weight
  <1>5. CASE UNCHANGED vars
    BY <1>5 DEF vars, labels, IInv, TypeOK, ScanInv, EdgeInv, LagInv, NoPoolBothWays,
       Pools, Edge, Weight
  <1>6. QED
    BY <1>1, <1>2, <1>3, <1>4, <1>5 DEF Next

(* The invariant holds in every reachable state. *)
LEMMA Invariance == Spec => []IInv
  BY InitInv, NextInv, PTL DEF Spec

(* The types of all variables, for any number of tokens and any market. *)
THEOREM TypeCorrect == Spec => []TypeOK
  <1>1. IInv => TypeOK
    BY DEF IInv
  <1>2. QED
    BY <1>1, Invariance, PTL

(* run_spfa_on_component never stores an edge back through the pool by     *)
(* which a token got its label: no route uses one pool in both directions. *)
THEOREM PoolsUsedOneWay == Spec => []NoPoolBothWays
  <1>1. IInv => NoPoolBothWays
    BY DEF IInv
  <1>2. QED
    BY <1>1, Invariance, PTL

(* Although labels of different times are compared, none is ever below     *)
(* what its predecessor's label and the edge between them add up to.       *)
THEOREM LabelsLag == Spec => []LagInv
  <1>1. IInv => LagInv
    BY DEF IInv
  <1>2. QED
    BY <1>1, Invariance, PTL

-----------------------------------------------------------------------------
(* extract_spfa_cycle goes from a token to its predecessor, starting with  *)
(* the one given, and stops where there is none.                           *)
LEMMA FollowedFacts ==
  ASSUME NEW v \in Tokens, NEW pred, \A t \in Tokens : pred[t].from \in Tokens \cup {0}
  PROVE  /\ Followed(pred, v) \in [0 .. N -> Tokens \cup {0}]
         /\ Followed(pred, v)[0] = v
         /\ \A k \in 1 .. N : Followed(pred, v)[k] =
               IF Followed(pred, v)[k - 1] = 0 THEN 0
               ELSE pred[Followed(pred, v)[k - 1]].from
  <1> DEFINE T == Tokens \cup {0}
             from == [t \in T |-> IF t = 0 THEN 0 ELSE pred[t].from]
             next == [k \in 1 .. N |-> from]
             Defines(f) == f = [k \in 0 .. N |->
                  IF k = 0 THEN v ELSE IF f[k - 1] = 0 THEN 0 ELSE pred[f[k - 1]].from]
  <1>1. v \in T /\ N \in Nat
    BY RouterAssumption
  <1>2. from \in [T -> T]
    OBVIOUS
  <1>3. next \in [1 .. N -> [T -> T]]
    BY <1>2
  <1>4. PICK g \in [0 .. N -> T] : Iterates(g, v, next, N)
    <2> HIDE DEF T, next
    <2>1. QED
      BY <1>1, <1>3, RecursionExists
  <1>5. Defines(g)
    <2>1. \A k \in 1 .. N : g[k] = IF g[k - 1] = 0 THEN 0 ELSE pred[g[k - 1]].from
      <3>1. ASSUME NEW k \in 1 .. N
            PROVE  g[k] = IF g[k - 1] = 0 THEN 0 ELSE pred[g[k - 1]].from
        <4>1. k - 1 \in 0 .. N
          BY <1>1
        <4>2. g[k - 1] \in T
          BY <1>4, <4>1
        <4>3. g[k] = from[g[k - 1]]
          BY <1>4 DEF Iterates
        <4>4. QED
          BY <4>2, <4>3
      <3>2. QED
        BY <3>1
    <2>2. QED
      BY <1>1, <1>4, <2>1 DEF Iterates
  <1>6. Followed(pred, v) = CHOOSE f : Defines(f)
    BY DEF Followed
  <1> HIDE DEF Defines
  <1>7. Defines(Followed(pred, v))
    BY <1>5, <1>6
  <1> DEFINE f == Followed(pred, v)
  <1>8. f = [k \in 0 .. N |->
                  IF k = 0 THEN v ELSE IF f[k - 1] = 0 THEN 0 ELSE pred[f[k - 1]].from]
    BY <1>7 DEF Defines
  <1> HIDE DEF f
  <1>9. /\ f[0] = v
        /\ \A k \in 1 .. N : f[k] = IF f[k - 1] = 0 THEN 0 ELSE pred[f[k - 1]].from
    BY <1>1, <1>8
  <1>10. f \in [0 .. N -> T]
    <2> DEFINE S == {k \in 0 .. N : f[k] \in T}
    <2>1. 0 \in S
      BY <1>1, <1>9
    <2>2. ASSUME NEW k \in 1 .. N, k - 1 \in S PROVE k \in S
      BY <1>2, <1>9, <2>2
    <2> HIDE DEF S
    <2>3. \A k \in 0 .. N : k \in S
      BY <1>1, <2>1, <2>2, BoundedInduction
    <2>4. \A k \in 0 .. N : f[k] \in T
      BY <2>3 DEF S
    <2>5. QED
      BY <1>8, <2>4
  <1>11. QED
    BY <1>9, <1>10 DEF f

-----------------------------------------------------------------------------
(* c goes round in m steps from a token to its predecessor. *)
CycleOf(c, m, pred) ==
    /\ c[0] = c[m]
    /\ \A i \in 0 .. m - 1 : pred[c[i]].from = c[i + 1]

(* The edges met, in the order in which they are traded. *)
LegsOf(c, m, pred) == [l \in 1 .. m |-> pred[c[m - l]]]

(* Following N predecessors meets a token twice or ends: what              *)
(* extract_spfa_cycle returns is a cycle of predecessors, read backwards.  *)
LEMMA CycleFacts ==
  ASSUME NEW v \in Tokens, NEW pred, \A t \in Tokens : pred[t].from \in Tokens \cup {0},
         Cycle(pred, v) # <<>>
  PROVE  \E m \in 1 .. N : \E c \in [0 .. m -> Tokens] :
            /\ CycleOf(c, m, pred)
            /\ Cycle(pred, v) = LegsOf(c, m, pred)
  <1>0. N \in Nat
    BY RouterAssumption
  <1> DEFINE step == Followed(pred, v)
             Met(i) == \E j \in 0 .. i - 1 : step[j] = step[i]
             K == {l \in 1 .. N : step[l] = 0 \/ Met(l)}
             k == Min(K)
             j == CHOOSE l \in 0 .. k - 1 : step[l] = step[k]
  <1>1. /\ step \in [0 .. N -> Tokens \cup {0}] /\ step[0] = v
        /\ \A i \in 1 .. N : step[i] = IF step[i - 1] = 0 THEN 0 ELSE pred[step[i - 1]].from
    BY FollowedFacts
  <1>2. Cycle(pred, v) = IF step[k] = 0 THEN <<>> ELSE [l \in 1 .. k - j |-> pred[step[k - l]]]
    BY DEF Cycle
  <1> HIDE DEF step
  (* N + 1 steps cannot all lead to different tokens. *)
  <1>3. K # {}
    <2> SUFFICES ASSUME K = {} PROVE FALSE
      OBVIOUS
    <2>1. step \in [0 .. N -> Tokens]
      <3>1. ASSUME NEW i \in 0 .. N PROVE step[i] \in Tokens
        <4>1. CASE i = 0
          BY <1>1, <4>1
        <4>2. CASE i \in 1 .. N
          <5>1. step[i] \in Tokens \cup {0} /\ i \notin K
            BY <1>1
          <5>2. step[i] # 0
            BY <4>2, <5>1
          <5>3. QED
            BY <5>1, <5>2
        <4>3. QED
          BY <4>1, <4>2
      <3>2. QED
        BY <1>1, <3>1
    <2>2. /\ IsFiniteSet(0 .. N) /\ IsFiniteSet(1 .. N)
          /\ Cardinality(1 .. N) < Cardinality(0 .. N)
      <3>1. IsFiniteSet(1 .. N) /\ Cardinality(1 .. N) = N - 1 + 1
        <4>1. ~ (1 > N) /\ 1 \in Int /\ N \in Int
          BY RouterAssumption
        <4>2. QED
          BY <4>1, FS_Interval
      <3>2. IsFiniteSet(0 .. N) /\ Cardinality(0 .. N) = N - 0 + 1
        <4>1. ~ (0 > N) /\ 0 \in Int /\ N \in Int
          BY RouterAssumption
        <4>2. QED
          BY <4>1, FS_Interval
      <3>3. ASSUME NEW small, NEW large, small = N - 1 + 1, large = N - 0 + 1
            PROVE  small < large
        BY <1>0, <3>3
      <3>4. Cardinality(1 .. N) < Cardinality(0 .. N)
        BY ONLY <3>1, <3>2, <3>3, Zenon
      <3>5. QED
        BY ONLY <3>1, <3>2, <3>4, Zenon
    <2>3. PICK x, y \in 0 .. N : x # y /\ step[x] = step[y]
      BY ONLY <2>1, <2>2, FS_PigeonHole, Zenon DEF Tokens
    <2>4. ASSUME NEW a \in 0 .. N, NEW b \in 0 .. N, a < b, step[a] = step[b] PROVE FALSE
      <3>1. b \in 1 .. N /\ a \in 0 .. b - 1
        BY <2>4
      <3>2. Met(b)
        BY <2>4, <3>1
      <3>3. QED
        BY <3>1, <3>2
    <2>5. x < y \/ y < x
      BY <2>3
    <2>6. QED
      BY <2>3, <2>4, <2>5
  <1>4. k \in K /\ \A y \in K : k <= y
    <2>1. \E x \in K : \A y \in K : x <= y
      <3>1. K \subseteq Nat
        OBVIOUS
      <3> HIDE DEF K
      <3>2. QED
        BY <1>3, <3>1, LeastElement
    <2> HIDE DEF K
    <2>2. QED
      BY <2>1 DEF Min
  <1> HIDE DEF k
  <1>5. k \in 1 .. N /\ step[k] # 0 /\ Met(k)
    BY <1>2, <1>4
  <1>6. j \in 0 .. k - 1 /\ step[j] = step[k]
    BY <1>5
  <1> HIDE DEF j
  <1>7. ASSUME NEW i \in 0 .. k PROVE step[i] \in Tokens
    <2>1. CASE i = 0
      BY <1>1, <2>1
    <2>2. CASE i = k
      BY <1>1, <1>5, <2>2
    <2>3. CASE i \in 1 .. k - 1
      <3>1. i \in 1 .. N /\ i < k /\ k \in Int
        BY <1>0, <1>5, <2>3
      <3>2. i \notin K
        <4> HIDE DEF K
        <4>1. QED
          BY <1>4, <3>1
      <3>3. QED
        BY <1>1, <3>1, <3>2
    <2>4. QED
      BY <1>5, <2>1, <2>2, <2>3
  <1> HIDE DEF K
  <1> DEFINE m == k - j
             c == [i \in 0 .. m |-> step[j + i]]
  <1>8. m \in 1 .. N
    BY <1>0, <1>5, <1>6
  <1>9. c \in [0 .. m -> Tokens]
    <2>1. ASSUME NEW i \in 0 .. m PROVE step[j + i] \in Tokens
      <3>1. j + i \in 0 .. k
        BY <1>0, <1>5, <1>6
      <3>2. QED
        BY <1>7, <3>1
    <2>2. QED
      BY <2>1
  <1>10. CycleOf(c, m, pred)
    <2>1. c[0] = step[j] /\ c[m] = step[k]
      BY <1>0, <1>5, <1>6
    <2>2. ASSUME NEW i \in 0 .. m - 1 PROVE pred[c[i]].from = c[i + 1]
      <3>1. c[i] = step[j + i] /\ c[i + 1] = step[j + i + 1]
        BY <1>0, <1>5, <1>6
      <3>2. j + i + 1 \in 1 .. N /\ (j + i + 1) - 1 = j + i /\ j + i \in 0 .. k
        BY <1>0, <1>5, <1>6
      <3>3. step[j + i + 1] = IF step[j + i] = 0 THEN 0 ELSE pred[step[j + i]].from
        BY <1>1, <3>2
      <3>4. step[j + i] \in Tokens
        BY <1>7, <3>2
      <3>5. step[j + i] # 0
        <4>1. \A t \in 1 .. N : t # 0
          BY <1>0
        <4>2. QED
          BY ONLY <3>4, <4>1, Zenon DEF Tokens
      <3> HIDE DEF c
      <3>6. QED
        BY <3>1, <3>3, <3>5
    <2>3. QED
      BY <1>6, <2>1, <2>2 DEF CycleOf
  <1>11. Cycle(pred, v) = LegsOf(c, m, pred)
    <2>1. ASSUME NEW l \in 1 .. m PROVE step[k - l] = c[m - l]
      BY <1>0, <1>5, <1>6
    <2>2. QED
      BY <1>2, <1>5, <2>1 DEF LegsOf
  <1> HIDE DEF c, m
  <1>12. QED
    BY <1>8, <1>9, <1>10, <1>11

-----------------------------------------------------------------------------
(* The label of a token is above what its predecessor and the edge give. *)
Lagging(t) == dist[t] > dist[predecessor[t].from] + Weight(predecessor[t])

(* On every cycle of predecessors there is such a token. *)
SlackInv ==
    \A m \in Nat \ {0} : \A c \in [0 .. m -> Tokens] :
        CycleOf(c, m, predecessor) => \E i \in 0 .. m - 1 : Lagging(c[i])

(* The token a search starts at is a number from 1 on; 0 stands for none. *)
LEMMA NoTokenIsZero == \A t \in Tokens : t # 0
  <1>1. N \in Nat
    BY RouterAssumption
  <1>2. QED
    BY <1>1

(* A relaxation leaves slack on every cycle of predecessors: on those      *)
(* through the lowered label behind it, where the edge was tight or better *)
(* before; on the others where there was slack already.                    *)
LEMMA RelaxedSlack ==
  ASSUME IInv, SlackInv, NEW p \in todo, Relaxed(p, Edge(p, u))
  PROVE  SlackInv'
  <1> DEFINE e == Edge(p, u)
             v == e.to
             w == Weight(e)
             d == [dist EXCEPT ![v] = dist[u] + w]
  <1>1. /\ u \in Tokens /\ p \in Pools(u) /\ market \in Markets
        /\ market' = market
    BY NextEdgeFacts DEF Relaxed, IInv, TypeOK
  <1>2. e.from = u /\ v \in Tokens /\ v # u /\ w \in Int /\ e # NoEdge
    BY <1>1, EdgeFacts
  <1>3. /\ dist[u] + w < dist[v]
        /\ predecessor' = [predecessor EXCEPT ![v] = e]
    BY <1>2 DEF Relaxed, Improves
  <1>4. /\ dist' \in [Tokens -> Int]
        /\ \A s, t \in Tokens : dist'[s] - dist'[t] = d[s] - d[t]
    BY RelaxedLabels, <1>2
  <1>5. /\ dist \in [Tokens -> Int]
        /\ predecessor \in [Tokens -> {NoEdge} \cup
                             [pool : DOMAIN market, from : Tokens, to : Tokens]]
    BY DEF IInv, TypeOK
  <1>6. /\ predecessor'[v] = e
        /\ \A t \in Tokens \ {v} : predecessor'[t] = predecessor[t]
    BY <1>2, <1>3, <1>5
  <1>7. \A f : Weight(f)' = Weight(f)
    BY <1>1 DEF Weight
  <1>8. /\ d \in [Tokens -> Int] /\ d[v] = dist[u] + w
        /\ \A t \in Tokens \ {v} : d[t] = dist[t]
    BY <1>1, <1>2, <1>5
  <1>9. ASSUME NEW t \in Tokens, predecessor[t].from \in Tokens
        PROVE  Weight(predecessor[t]) \in Int /\ predecessor[t] # NoEdge
    <2>1. predecessor[t] # NoEdge
      <3>1. NoEdge.from = 0
        BY DEF NoEdge
      <3>2. QED
        BY <1>9, <3>1, NoTokenIsZero, Zenon
    <2>2. QED
      BY <1>1, <1>9, <2>1, EdgeFacts DEF IInv, EdgeInv
  <1> HIDE DEF e, v, w, d
  <1> SUFFICES ASSUME NEW m \in Nat \ {0}, NEW c \in [0 .. m -> Tokens],
                      CycleOf(c, m, predecessor')
               PROVE  \E i \in 0 .. m - 1 : Lagging(c[i])'
    BY DEF SlackInv, CycleOf
  <1>10. /\ c[0] = c[m]
         /\ \A i \in 0 .. m - 1 : predecessor'[c[i]].from = c[i + 1]
         /\ \A i \in 0 .. m : c[i] \in Tokens
    BY DEF CycleOf
  (* Where the label has not changed, what lags still does. *)
  <1>11. ASSUME NEW t \in Tokens, t # v, predecessor[t].from \in Tokens,
                d[t] > d[predecessor[t].from] + Weight(predecessor[t])
         PROVE  Lagging(t)'
    <2> DEFINE s == predecessor[t].from
    <2>1. predecessor'[t] = predecessor[t]
      BY <1>6, <1>11
    <2>2. dist'[t] - dist'[s] = d[t] - d[s]
      BY <1>4, <1>11
    <2>3. /\ dist'[t] \in Int /\ dist'[s] \in Int /\ d[t] \in Int /\ d[s] \in Int
          /\ Weight(predecessor[t]) \in Int
      BY <1>4, <1>8, <1>9, <1>11
    <2>4. dist'[t] > dist'[s] + Weight(predecessor[t])
      BY <1>11, <2>2, <2>3
    <2>5. QED
      BY <1>7, <2>1, <2>4 DEF Lagging
  <1>12. CASE \E i \in 1 .. m : c[i] = v
    <2>1. PICK i \in 1 .. m : c[i] = v
      BY <1>12
    <2> DEFINE t == c[i - 1]
    <2>2. i - 1 \in 0 .. m - 1 /\ (i - 1) + 1 = i /\ t \in Tokens
      BY <1>10
    <2>3. predecessor'[t].from = v
      BY <1>10, <2>1, <2>2
    <2>4. t # v /\ predecessor[t].from = v
      BY <1>2, <1>6, <2>2, <2>3
    <2>5. predecessor[t] # NoEdge
      BY <1>2, <1>9, <2>2, <2>4
    <2>6. dist[t] >= dist[v] + Weight(predecessor[t]) /\ Weight(predecessor[t]) \in Int
      BY <1>2, <1>9, <2>2, <2>4, <2>5 DEF IInv, LagInv
    <2>7. d[t] = dist[t] /\ d[v] < dist[v]
      BY <1>3, <1>8, <2>2, <2>4
    <2>8. d[t] > d[v] + Weight(predecessor[t])
      <3>1. dist[t] \in Int /\ dist[v] \in Int /\ d[v] \in Int
        BY <1>2, <1>5, <1>8, <2>2
      <3>2. QED
        BY <2>6, <2>7, <3>1
    <2>9. Lagging(t)'
      BY <1>2, <1>11, <2>2, <2>4, <2>8
    <2>10. QED
      BY <2>2, <2>9
  <1>13. CASE \A i \in 1 .. m : c[i] # v
    <2>1. \A i \in 0 .. m : c[i] # v
      BY <1>10, <1>13
    <2>2. \A i \in 0 .. m - 1 : predecessor[c[i]].from = c[i + 1]
      <3>1. ASSUME NEW i \in 0 .. m - 1 PROVE predecessor[c[i]].from = c[i + 1]
        <4>1. i \in 0 .. m
          OBVIOUS
        <4>2. c[i] \in Tokens \ {v}
          BY <1>10, <2>1, <4>1
        <4>3. QED
          BY <1>6, <1>10, <4>2
      <3>2. QED
        BY <3>1
    <2>3. CycleOf(c, m, predecessor)
      BY <1>10, <2>2 DEF CycleOf
    <2>4. PICK i \in 0 .. m - 1 : Lagging(c[i])
      BY <2>3 DEF SlackInv
    <2>5. /\ c[i] \in Tokens /\ c[i + 1] \in Tokens /\ c[i] # v /\ c[i + 1] # v
          /\ predecessor[c[i]].from = c[i + 1]
      BY <1>10, <2>1, <2>2
    <2>6. d[c[i]] > d[c[i + 1]] + Weight(predecessor[c[i]])
      BY <1>8, <2>4, <2>5 DEF Lagging
    <2>7. Lagging(c[i])'
      BY <1>11, <2>5, <2>6
    <2>8. QED
      BY <2>7
  <1>14. QED
    BY <1>12, <1>13

(* There is never a cycle of predecessors all of whose edges are tight. *)
LEMMA SlackInvariance == Spec => []SlackInv
  <1>1. Init => SlackInv
    <2> SUFFICES ASSUME Init, NEW m \in Nat \ {0}, NEW c \in [0 .. m -> Tokens],
                        CycleOf(c, m, predecessor)
                 PROVE  FALSE
      BY DEF SlackInv
    <2>1. c[0] \in Tokens /\ c[1] \in Tokens /\ predecessor[c[0]].from = c[0 + 1]
      BY DEF CycleOf
    <2>2. predecessor[c[0]].from = 0
      BY <2>1 DEF Init, NoEdge
    <2>3. c[0 + 1] \in Tokens
      BY <2>1
    <2>4. QED
      BY <2>1, <2>2, <2>3, NoTokenIsZero, Zenon
  <1>2. IInv /\ SlackInv /\ [Next]_vars => SlackInv'
    <2> SUFFICES ASSUME IInv, SlackInv, [Next]_vars PROVE SlackInv'
      OBVIOUS
    <2>1. ASSUME NEW p \in todo, RelaxQueued(p) \/ RelaxAndQueue(p) \/ RelaxAndExtract(p)
          PROVE  SlackInv'
      BY <2>1, RelaxedSlack DEF RelaxQueued, RelaxAndQueue, RelaxAndExtract
    <2>2. CASE UNCHANGED <<market, dist, predecessor>>
      BY <2>2 DEF SlackInv, CycleOf, Lagging, Weight
    <2>3. QED
      BY <2>1, <2>2 DEF Next, Pop, Skip, NextEdge, Collect, vars, labels
  <1>3. QED
    BY <1>1, <1>2, Invariance, PTL DEF Spec

-----------------------------------------------------------------------------
(* The edges of the market. *)
Edges == [pool : DOMAIN market, from : Tokens, to : Tokens]

(* f[j] is what the first j legs add up to. *)
Sums(f, legs) == f[0] = 0 /\ \A j \in 1 .. Len(legs) : f[j] = f[j - 1] + Weight(legs[j])

(* The weight of an edge is an integer. *)
LEMMA EdgeWeight ==
  ASSUME market \in Markets, NEW e \in Edges
  PROVE  Weight(e) \in Int
  <1>1. e.pool \in DOMAIN market
    BY DEF Edges
  <1>2. market[e.pool].price \in Int /\ market[e.pool].fee \in Nat
    BY <1>1, RouterAssumption
  <1>3. QED
    BY <1>2 DEF Weight

(* Total is the last of the partial sums of the weights. *)
LEMMA TotalFacts ==
  ASSUME market \in Markets, NEW legs \in Seq(Edges)
  PROVE  \E f \in [0 .. Len(legs) -> Int] : Sums(f, legs) /\ Total(legs) = f[Len(legs)]
  <1> DEFINE m == Len(legs)
             add == [j \in 1 .. m |-> [n \in Int |-> n + Weight(legs[j])]]
             Defines(f) == f = [j \in 0 .. m |-> IF j = 0 THEN 0 ELSE f[j - 1] + Weight(legs[j])]
  <1>1. m \in Nat /\ \A j \in 1 .. m : Weight(legs[j]) \in Int
    BY ElementOfSeq, EdgeWeight, LenProperties
  <1>2. Total(legs) = (CHOOSE f : Defines(f))[m]
    BY DEF Total
  <1> HIDE DEF m
  <1>3. add \in [1 .. m -> [Int -> Int]]
    BY <1>1
  <1>4. PICK g \in [0 .. m -> Int] : Iterates(g, 0, add, m)
    <2>1. 0 \in Int
      OBVIOUS
    <2> HIDE DEF add
    <2>2. QED
      BY <1>1, <1>3, <2>1, RecursionExists, Zenon
  <1>5. g[0] = 0 /\ \A j \in 1 .. m : g[j] = g[j - 1] + Weight(legs[j])
    <2>1. ASSUME NEW j \in 1 .. m PROVE g[j] = g[j - 1] + Weight(legs[j])
      <3>1. g[j - 1] \in Int
        BY <1>1, <1>4
      <3>2. g[j] = add[j][g[j - 1]]
        BY <1>4 DEF Iterates
      <3>3. QED
        BY <3>1, <3>2
    <2>2. QED
      BY <1>4, <2>1 DEF Iterates
  <1>6. Defines(g)
    BY <1>1, <1>5
  <1> DEFINE f == CHOOSE f : Defines(f)
  <1>7. Defines(f)
    <2> HIDE DEF Defines
    <2>1. QED
      BY <1>6
  <1> HIDE DEF f
  <1>8. f[0] = 0 /\ \A j \in 1 .. m : f[j] = f[j - 1] + Weight(legs[j])
    BY <1>1, <1>7
  <1>9. f \in [0 .. m -> Int]
    <2> DEFINE S == {j \in 0 .. m : f[j] \in Int}
    <2>1. 0 \in S
      BY <1>1, <1>8
    <2>2. ASSUME NEW j \in 1 .. m, j - 1 \in S PROVE j \in S
      BY <1>1, <1>8, <2>2
    <2> HIDE DEF S
    <2>3. \A j \in 0 .. m : j \in S
      BY <1>1, <2>1, <2>2, BoundedInduction
    <2>4. QED
      BY <1>7, <2>3 DEF S
  <1>10. QED
    BY <1>2, <1>8, <1>9 DEF f, m, Sums

(* Whatever adds up the weights one by one ends at Total. *)
LEMMA TotalUnique ==
  ASSUME market \in Markets, NEW legs \in Seq(Edges), NEW g, Sums(g, legs)
  PROVE  Total(legs) = g[Len(legs)]
  <1> DEFINE m == Len(legs)
  <1>1. PICK f \in [0 .. m -> Int] : Sums(f, legs) /\ Total(legs) = f[m]
    BY TotalFacts
  <1>2. m \in Nat
    BY LenProperties
  <1> DEFINE S == {j \in 0 .. m : f[j] = g[j]}
  <1>3. 0 \in S
    BY <1>1, <1>2 DEF Sums
  <1>4. ASSUME NEW j \in 1 .. m, j - 1 \in S PROVE j \in S
    BY <1>1, <1>2, <1>4 DEF Sums
  <1> HIDE DEF S
  <1>5. \A j \in 0 .. m : j \in S
    BY <1>2, <1>3, <1>4, BoundedInduction
  <1>6. QED
    BY <1>1, <1>2, <1>5 DEF S

(* The legs lead from token to token and back to the first. *)
RoundTrip(legs) ==
    /\ legs # <<>>
    /\ \A j \in 1 .. Len(legs) - 1 : legs[j].to = legs[j + 1].from
    /\ legs[Len(legs)].to = legs[1].from

(* What extract_spfa_cycle returns is a round trip through the edges that  *)
(* are stored, from the last predecessor met to the first.                 *)
LEMMA CycleLegs ==
  ASSUME NEW v \in Tokens,
         NEW pred \in [Tokens -> {NoEdge} \cup Edges],
         \A t \in Tokens : pred[t] # NoEdge => pred[t].to = t,
         Cycle(pred, v) # <<>>
  PROVE  /\ Cycle(pred, v) \in Seq(Edges)
         /\ RoundTrip(Cycle(pred, v))
         /\ \E m \in Nat \ {0} : \E c \in [0 .. m -> Tokens] :
               /\ CycleOf(c, m, pred)
               /\ Len(Cycle(pred, v)) = m
               /\ \A l \in 1 .. m : Cycle(pred, v)[l] = pred[c[m - l]]
  <1> DEFINE legs == Cycle(pred, v)
  <1>0. NoEdge.from = 0
    BY DEF NoEdge
  <1>1. \A t \in Tokens : pred[t].from \in Tokens \cup {0}
    BY <1>0 DEF Edges
  <1>2. PICK m \in 1 .. N : \E c \in [0 .. m -> Tokens] :
            /\ CycleOf(c, m, pred)
            /\ legs = LegsOf(c, m, pred)
    BY <1>1, CycleFacts
  <1>3. PICK c \in [0 .. m -> Tokens] :
            /\ CycleOf(c, m, pred)
            /\ legs = LegsOf(c, m, pred)
    BY <1>2
  <1> HIDE DEF legs
  <1>4. m \in Nat \ {0}
    BY <1>2, RouterAssumption
  <1>5. /\ c[0] = c[m]
        /\ \A i \in 0 .. m - 1 : pred[c[i]].from = c[i + 1]
    BY <1>3 DEF CycleOf
  <1>6. ASSUME NEW i \in 0 .. m - 1
        PROVE  pred[c[i]] \in Edges /\ pred[c[i]].from = c[i + 1] /\ pred[c[i]].to = c[i]
    <2>1. c[i] \in Tokens /\ c[i + 1] \in Tokens /\ pred[c[i]].from = c[i + 1]
      BY <1>4, <1>5
    <2>2. pred[c[i]] # NoEdge
      BY ONLY <1>0, <2>1, NoTokenIsZero, Zenon
    <2>3. QED
      BY <2>1, <2>2
  <1>7. legs \in [1 .. m -> Edges]
    BY <1>3, <1>4, <1>6 DEF LegsOf
  <1>8. legs \in Seq(Edges) /\ Len(legs) = m
    <2>1. legs \in Seq(Edges)
      BY <1>4, <1>7, SeqDef
    <2>2. Len(legs) \in Nat /\ 1 .. m = 1 .. Len(legs)
      BY <1>7, <2>1, LenProperties
    <2>3. QED
      BY <1>4, <2>1, <2>2
  <1>9. \A l \in 1 .. m : legs[l] = pred[c[m - l]]
    BY <1>3 DEF LegsOf
  <1>10. ASSUME NEW l \in 1 .. m PROVE legs[l].to = c[m - l] /\ legs[l].from = c[(m - l) + 1]
    <2>1. m - l \in 0 .. m - 1
      BY <1>4
    <2>2. QED
      BY <1>6, <1>9, <2>1
  <1>11. RoundTrip(legs)
    <2>1. ASSUME NEW j \in 1 .. m - 1 PROVE legs[j].to = legs[j + 1].from
      <3>1. j \in 1 .. m /\ j + 1 \in 1 .. m /\ (m - (j + 1)) + 1 = m - j
        BY <1>4
      <3>2. QED
        BY <1>10, <3>1
    <2>2. legs[m].to = c[0] /\ legs[1].from = c[m]
      <3>1. 1 \in 1 .. m /\ m \in 1 .. m /\ m - m = 0 /\ (m - 1) + 1 = m
        BY <1>4
      <3>2. QED
        BY <1>10, <3>1
    <2>3. legs # <<>>
      BY <1>4, <1>8, EmptySeq
    <2>4. QED
      BY <1>5, <1>8, <2>1, <2>2, <2>3 DEF RoundTrip
  <1>12. QED
    BY <1>3, <1>4, <1>8, <1>9, <1>11 DEF legs

-----------------------------------------------------------------------------
(* Stored edges lead into their token. *)
LEMMA PredecessorFacts ==
  ASSUME IInv
  PROVE  /\ market \in Markets
         /\ predecessor \in [Tokens -> {NoEdge} \cup Edges]
         /\ \A t \in Tokens : predecessor[t] # NoEdge => predecessor[t].to = t
  BY DEF IInv, TypeOK, EdgeInv, Edges

(* Around a cycle the differences of the labels add up to 0, and each is   *)
(* at least the edge's weight, one of them more: the weights' sum is below *)
(* 0.                                                                      *)
LEMMA NegativeCycles == IInv /\ SlackInv => CyclesAreNegative
  <1> SUFFICES ASSUME IInv, SlackInv, NEW t \in Tokens, Cycle(predecessor, t) # <<>>
               PROVE  Total(Cycle(predecessor, t)) < 0
    BY DEF CyclesAreNegative
  <1> DEFINE legs == Cycle(predecessor, t)
  <1>1. /\ market \in Markets
        /\ predecessor \in [Tokens -> {NoEdge} \cup Edges]
        /\ \A s \in Tokens : predecessor[s] # NoEdge => predecessor[s].to = s
    BY PredecessorFacts
  <1>2. legs \in Seq(Edges)
    BY <1>1, CycleLegs
  <1>3. PICK m \in Nat \ {0} : \E c \in [0 .. m -> Tokens] :
            /\ CycleOf(c, m, predecessor)
            /\ Len(legs) = m
            /\ \A l \in 1 .. m : legs[l] = predecessor[c[m - l]]
    BY <1>1, CycleLegs
  <1>4. PICK c \in [0 .. m -> Tokens] :
            /\ CycleOf(c, m, predecessor)
            /\ Len(legs) = m
            /\ \A l \in 1 .. m : legs[l] = predecessor[c[m - l]]
    BY <1>3
  <1> HIDE DEF legs
  <1>5. PICK f \in [0 .. m -> Int] : Sums(f, legs) /\ Total(legs) = f[m]
    BY <1>1, <1>2, <1>4, TotalFacts
  <1>6. PICK i0 \in 0 .. m - 1 : Lagging(c[i0])
    BY <1>4 DEF SlackInv
  (* The label of the token the l-th leg leads to, above that of the first. *)
  <1> DEFINE gap == [l \in 0 .. m |-> dist[c[m - l]] - dist[c[m]]]
             w == [l \in 1 .. m |-> Weight(legs[l])]
             l0 == m - i0
  <1>7. dist \in [Tokens -> Int] /\ \A i \in 0 .. m : c[i] \in Tokens /\ dist[c[i]] \in Int
    BY DEF IInv, TypeOK
  <1>8. gap \in [0 .. m -> Int] /\ gap[0] = 0 /\ gap[m] = 0
    <2>1. c[0] = c[m]
      BY <1>4 DEF CycleOf
    <2>2. QED
      BY <1>7, <2>1
  <1>9. l0 \in 1 .. m
    OBVIOUS
  <1>10. ASSUME NEW l \in 1 .. m
         PROVE  /\ w[l] \in Int
                /\ gap[l] - gap[l - 1] >= w[l]
                /\ l = l0 => gap[l] - gap[l - 1] > w[l]
    <2>1. /\ m - l \in 0 .. m - 1 /\ m - l \in 0 .. m /\ (m - l) + 1 \in 0 .. m
          /\ m - (l - 1) = (m - l) + 1
      OBVIOUS
    <2> DEFINE s == c[m - l]
               r == c[(m - l) + 1]
    <2>2. /\ s \in Tokens /\ r \in Tokens /\ predecessor[s].from = r
          /\ dist[s] \in Int /\ dist[r] \in Int
      BY <1>4, <1>7, <2>1 DEF CycleOf
    <2>3. predecessor[s] # NoEdge
      <3>1. NoEdge.from = 0
        BY DEF NoEdge
      <3>2. QED
        BY <2>2, <3>1, NoTokenIsZero, Zenon
    <2>4. w[l] = Weight(predecessor[s]) /\ w[l] \in Int
      <3>1. legs[l] = predecessor[s]
        BY <1>4
      <3>2. predecessor[s] \in Edges
        BY <1>1, <2>2, <2>3
      <3>3. QED
        BY <1>1, <3>1, <3>2, EdgeWeight
    <2>5. dist[s] >= dist[r] + w[l]
      BY <2>2, <2>3, <2>4 DEF IInv, LagInv
    <2>6. l = l0 => dist[s] > dist[r] + w[l]
      <3>1. l = l0 => m - l = i0
        OBVIOUS
      <3>2. QED
        BY <1>6, <2>2, <2>4, <3>1 DEF Lagging
    <2>7. gap[l] = dist[s] - dist[c[m]] /\ gap[l - 1] = dist[r] - dist[c[m]]
      BY <2>1
    <2>8. dist[c[m]] \in Int
      BY <1>7
    <2>9. ASSUME NEW ds \in Int, NEW dr \in Int, NEW base \in Int, NEW n \in Int,
                 ds >= dr + n
          PROVE  /\ (ds - base) - (dr - base) >= n
                 /\ ds > dr + n => (ds - base) - (dr - base) > n
      BY <2>9
    <2> HIDE DEF s, r, w, gap, l0
    <2>10. /\ (dist[s] - dist[c[m]]) - (dist[r] - dist[c[m]]) >= w[l]
           /\ dist[s] > dist[r] + w[l] =>
                 (dist[s] - dist[c[m]]) - (dist[r] - dist[c[m]]) > w[l]
      BY <2>2, <2>4, <2>5, <2>8, <2>9
    <2>11. QED
      BY <2>4, <2>6, <2>7, <2>10
  <1>11. f[0] = 0 /\ \A l \in 1 .. m : f[l] = f[l - 1] + w[l]
    BY <1>4, <1>5 DEF Sums
  <1> HIDE DEF gap, w, l0
  <1> DEFINE S == {l \in 0 .. m : f[l] <= gap[l] /\ (l >= l0 => f[l] < gap[l])}
  <1>12. 0 \in S
    BY <1>8, <1>9, <1>11
  <1>13. ASSUME NEW l \in 1 .. m, l - 1 \in S PROVE l \in S
    <2>1. /\ f[l - 1] \in Int /\ gap[l - 1] \in Int /\ gap[l] \in Int /\ w[l] \in Int
          /\ l - 1 \in 0 .. m
      BY <1>5, <1>8, <1>10
    <2>2. f[l] = f[l - 1] + w[l]
      BY <1>11
    <2>3. gap[l] - gap[l - 1] >= w[l] /\ (l = l0 => gap[l] - gap[l - 1] > w[l])
      BY <1>10
    <2>4. f[l - 1] <= gap[l - 1] /\ (l - 1 >= l0 => f[l - 1] < gap[l - 1])
      BY <1>13
    <2>5. l >= l0 => l = l0 \/ l - 1 >= l0
      BY <1>9
    <2>6. ASSUME NEW a \in Int, NEW b \in Int, NEW x \in Int, NEW n \in Int,
                 a <= b, x - b >= n
          PROVE  /\ a + n <= x
                 /\ a < b \/ x - b > n => a + n < x
      BY <2>6
    <2>7. f[l - 1] + w[l] <= gap[l]
      BY <2>1, <2>3, <2>4, <2>6
    <2>8. l >= l0 => f[l - 1] + w[l] < gap[l]
      BY <2>1, <2>3, <2>4, <2>5, <2>6
    <2>9. QED
      BY <2>2, <2>7, <2>8
  <1> HIDE DEF S
  <1>14. \A l \in 0 .. m : l \in S
    BY <1>12, <1>13, BoundedInduction
  <1>15. f[m] < gap[m]
    BY <1>9, <1>14 DEF S
  <1>16. QED
    BY <1>5, <1>8, <1>15 DEF legs

-----------------------------------------------------------------------------
(* Post-processing: a round trip rotated to one of its anchors is a round  *)
(* trip that starts there, of the same total.                              *)
LEMMA RotatedFacts ==
  ASSUME market \in Markets, NEW legs \in Seq(Edges), RoundTrip(legs),
         \E b \in DOMAIN Anchors : Passes(legs, Anchors[b])
  PROVE  /\ Rotated(legs) \in Seq(Edges)
         /\ RoundTrip(Rotated(legs))
         /\ \E b \in DOMAIN Anchors : Rotated(legs)[1].from = Anchors[b]
         /\ Total(Rotated(legs)) = Total(legs)
  <1> DEFINE B == {b \in DOMAIN Anchors : Passes(legs, Anchors[b])}
             a == Min(B)
             pos == CHOOSE j \in DOMAIN legs : legs[j].from = Anchors[a]
             m == Len(legs)
             n == m - pos + 1
             fore == SubSeq(legs, pos, m)
             aft == SubSeq(legs, 1, pos - 1)
             r == fore \o aft
  <1>1. Rotated(legs) = r
    BY DEF Rotated
  <1>2. m \in Nat \ {0} /\ DOMAIN legs = 1 .. m /\ \A j \in 1 .. m : legs[j] \in Edges
    BY LenProperties, ElementOfSeq, EmptySeq DEF RoundTrip
  <1>3. a \in DOMAIN Anchors /\ Passes(legs, Anchors[a])
    <2>1. B # {} /\ B \subseteq Nat
      <3>1. Anchors \in Seq(Nat)
        BY RouterAssumption
      <3>2. DOMAIN Anchors = 1 .. Len(Anchors) /\ Len(Anchors) \in Nat
        BY <3>1, LenProperties
      <3>3. QED
        BY <3>2
    <2> HIDE DEF B
    <2>2. \E x \in B : \A y \in B : x <= y
      BY <2>1, LeastElement
    <2>3. a \in B
      BY <2>2 DEF Min
    <2>4. QED
      BY <2>3 DEF B
  <1> HIDE DEF a
  <1>4. pos \in 1 .. m /\ legs[pos].from = Anchors[a]
    BY <1>2, <1>3 DEF Passes
  <1> HIDE DEF pos, m
  <1>5. n \in 1 .. m
    BY <1>2, <1>4
  <1>6. /\ fore \in Seq(Edges) /\ Len(fore) = n
        /\ \A i \in 1 .. n : fore[i] = legs[pos + i - 1]
    <2>1. pos \in Int /\ m \in Int /\ pos <= m /\ \A i \in pos .. m : legs[i] \in Edges
      BY <1>2, <1>4
    <2>2. /\ fore \in Seq(Edges) /\ Len(fore) = n
          /\ \A i \in 1 .. m - pos + 1 : fore[i] = legs[pos + i - 1]
      BY <2>1, SubSeqProperties
    <2>3. QED
      BY <2>2
  <1>7. /\ aft \in Seq(Edges) /\ Len(aft) = m - n
        /\ \A i \in 1 .. m - n : aft[i] = legs[i]
    <2>1. 1 \in Int /\ pos - 1 \in Int /\ \A i \in 1 .. pos - 1 : legs[i] \in Edges
      BY <1>2, <1>4
    <2>2. /\ aft \in Seq(Edges)
          /\ Len(aft) = IF 1 <= pos - 1 THEN pos - 1 - 1 + 1 ELSE 0
          /\ \A i \in 1 .. pos - 1 - 1 + 1 : aft[i] = legs[1 + i - 1]
      BY <2>1, SubSeqProperties
    <2>3. m - n = pos - 1 /\ pos - 1 - 1 + 1 = pos - 1 /\ \A i \in 1 .. pos - 1 : 1 + i - 1 = i
      BY <1>2, <1>4
    <2> HIDE DEF aft, n
    <2>4. Len(aft) = pos - 1
      BY <1>4, <2>2
    <2>5. QED
      BY <2>2, <2>3, <2>4
  <1> HIDE DEF fore, aft
  <1>8. r \in Seq(Edges) /\ Len(r) = m
    BY <1>2, <1>5, <1>6, <1>7, ConcatProperties
  <1>9. ASSUME NEW i \in 1 .. m
        PROVE  r[i] = IF i <= n THEN legs[pos + i - 1] ELSE legs[i - n]
    <2>1. r[i] = IF i <= Len(fore) THEN fore[i] ELSE aft[i - Len(fore)]
      <3>1. i \in 1 .. Len(fore) + Len(aft)
        BY <1>2, <1>5, <1>6, <1>7
      <3>2. QED
        BY <1>6, <1>7, <3>1, ConcatProperties
    <2>2. CASE i <= n
      BY <1>5, <1>6, <2>1, <2>2
    <2>3. CASE ~ (i <= n)
      <3>1. i - n \in 1 .. m - n
        BY <1>2, <1>5, <2>3
      <3>2. QED
        BY <1>6, <1>7, <2>1, <2>3, <3>1
    <2>4. QED
      BY <2>2, <2>3
  <1> HIDE DEF r, n
  <1>10. n = m - pos + 1
    BY DEF n
  <1>11. /\ legs[m].to = legs[1].from
         /\ \A j \in 1 .. m - 1 : legs[j].to = legs[j + 1].from
    BY DEF RoundTrip, m
  <1>12. r[1] = legs[pos]
    BY <1>2, <1>4, <1>5, <1>9
  <1>13. RoundTrip(r)
    <2>1. r # <<>>
      BY <1>2, <1>8, EmptySeq
    <2>2. ASSUME NEW j \in 1 .. m - 1 PROVE r[j].to = r[j + 1].from
      <3>1. j \in 1 .. m /\ j + 1 \in 1 .. m
        BY <1>2
      <3>2. CASE j < n
        <4>1. /\ r[j] = legs[pos + j - 1] /\ r[j + 1] = legs[pos + j]
              /\ pos + j - 1 \in 1 .. m - 1 /\ (pos + j - 1) + 1 = pos + j
          BY <1>2, <1>4, <1>5, <1>9, <1>10, <3>1, <3>2
        <4>2. QED
          BY <1>11, <4>1
      <3>3. CASE j = n
        <4>1. /\ j <= n /\ pos + j - 1 = m
              /\ ~ (j + 1 <= n) /\ (j + 1) - n = 1
          BY <1>2, <1>4, <1>5, <1>10, <3>3
        <4>2. r[j] = legs[m] /\ r[j + 1] = legs[1]
          BY <1>9, <3>1, <4>1
        <4>3. QED
          BY <1>11, <4>2
      <3>4. CASE j > n
        <4>1. /\ ~ (j <= n) /\ ~ (j + 1 <= n)
              /\ j - n \in 1 .. m - 1 /\ (j + 1) - n = (j - n) + 1
          BY <1>2, <1>5, <3>4
        <4>2. r[j] = legs[j - n] /\ r[j + 1] = legs[(j - n) + 1]
          BY <1>9, <3>1, <4>1
        <4>3. QED
          BY <1>11, <4>1, <4>2
      <3>5. QED
        BY <1>5, <3>2, <3>3, <3>4
    <2>3. r[m].to = r[1].from
      <3>1. CASE pos = 1
        BY <1>2, <1>4, <1>5, <1>9, <1>10, <1>11, <1>12, <3>1
      <3>2. CASE pos # 1
        <4>1. /\ m \in 1 .. m /\ ~ (m <= n) /\ m - n = pos - 1
              /\ pos - 1 \in 1 .. m - 1 /\ (pos - 1) + 1 = pos
          BY <1>2, <1>4, <1>5, <1>10, <3>2
        <4>2. r[m] = legs[pos - 1]
          BY <1>9, <4>1
        <4>3. QED
          BY <1>11, <1>12, <4>1, <4>2
      <3>3. QED
        BY <3>1, <3>2
    <2>4. QED
      BY <1>8, <2>1, <2>2, <2>3 DEF RoundTrip
  <1>14. Total(r) = Total(legs)
    <2>1. PICK f \in [0 .. m -> Int] : Sums(f, legs) /\ Total(legs) = f[m]
      BY TotalFacts DEF m
    <2>2. f[0] = 0 /\ \A j \in 1 .. m : f[j] = f[j - 1] + Weight(legs[j])
      BY <2>1 DEF Sums, m
    <2>3. /\ f[pos - 1] \in Int /\ f[m] \in Int
          /\ \A j \in 1 .. m : Weight(legs[j]) \in Int
      BY <1>2, <1>4, <2>1, EdgeWeight
    <2> DEFINE g == [i \in 0 .. m |-> IF i <= n THEN f[pos - 1 + i] - f[pos - 1]
                                      ELSE f[i - n] + (f[m] - f[pos - 1])]
    <2>4. g[0] = 0 /\ g[m] = f[m]
      <3>1. g[0] = 0
        BY <1>2, <1>4, <1>5, <2>3
      <3>2. CASE pos = 1
        BY <1>2, <1>4, <1>5, <1>10, <2>2, <2>3, <3>2
      <3>3. CASE pos # 1
        <4>1. ~ (m <= n) /\ m - n = pos - 1
          BY <1>2, <1>4, <1>5, <1>10, <3>3
        <4>2. QED
          BY <1>2, <2>3, <3>1, <4>1
      <3>4. QED
        BY <3>1, <3>2, <3>3
    <2>5. ASSUME NEW j \in 1 .. m PROVE g[j] = g[j - 1] + Weight(r[j])
      <3>1. CASE j <= n
        <4> DEFINE q == pos + j - 1
        <4>1. /\ q \in 1 .. m /\ q - 1 \in 0 .. m
              /\ pos - 1 + j = q /\ pos - 1 + (j - 1) = q - 1
          BY <1>2, <1>4, <1>5, <1>10, <3>1
        <4>2. r[j] = legs[q]
          BY <1>9, <3>1
        <4>3. /\ g[j] = f[pos - 1 + j] - f[pos - 1]
              /\ g[j - 1] = f[pos - 1 + (j - 1)] - f[pos - 1]
          BY <1>2, <1>5, <3>1
        <4> HIDE DEF q, g
        <4>4. f[q] = f[q - 1] + Weight(legs[q])
          BY <2>2, <4>1
        <4>5. f[q - 1] \in Int /\ Weight(legs[q]) \in Int
          BY <2>1, <2>3, <4>1
        <4>6. QED
          BY <2>3, <4>1, <4>2, <4>3, <4>4, <4>5
      <3>2. CASE j > n
        <4>1. g[j] = f[j - n] + (f[m] - f[pos - 1]) /\ r[j] = legs[j - n]
          BY <1>2, <1>5, <1>9, <3>2
        <4>2. j - n \in 1 .. m /\ f[j - n - 1] \in Int
          BY <1>2, <1>5, <2>1, <3>2
        <4>3. f[j - n] = f[j - n - 1] + Weight(legs[j - n])
          BY <2>2, <4>2
        <4>4. g[j - 1] = f[j - n - 1] + (f[m] - f[pos - 1])
          <5>1. CASE j - 1 = n
            <6>1. g[j - 1] = f[pos - 1 + n] - f[pos - 1] /\ pos - 1 + n = m /\ j - n - 1 = 0
              BY <1>2, <1>4, <1>5, <1>10, <5>1
            <6>2. QED
              BY <2>2, <2>3, <6>1
          <5>2. CASE j - 1 > n
            BY <1>2, <1>5, <5>2
          <5>3. QED
            BY <1>2, <1>5, <3>2, <5>1, <5>2
        <4>5. Weight(legs[j - n]) \in Int
          BY <2>3, <4>2
        <4> HIDE DEF g
        <4>6. QED
          BY <2>3, <4>1, <4>2, <4>3, <4>4, <4>5
      <3>3. QED
        BY <1>5, <3>1, <3>2
    <2>6. Sums(g, r)
      BY <1>8, <2>4, <2>5 DEF Sums
    <2> HIDE DEF g
    <2>7. Total(r) = g[m]
      BY <1>8, <2>6, TotalUnique
    <2>8. QED
      BY <2>1, <2>4, <2>7
  <1>15. QED
    BY <1>1, <1>3, <1>4, <1>8, <1>12, <1>13, <1>14

-----------------------------------------------------------------------------
(* Every cycle that is kept is a round trip that promises a profit. *)
FoundInv ==
    \A legs \in found_routes :
        legs \in Seq(Edges) /\ RoundTrip(legs) /\ Total(legs) < -MinLogProfit

(* Totals are of the pools cloned from the registry, which stay. *)
LEMMA MarketStays ==
  ASSUME market' = market
  PROVE  Edges' = Edges /\ \A legs : Total(legs)' = Total(legs)
  <1>1. \A e : Weight(e)' = Weight(e)
    BY DEF Weight
  <1>2. QED
    BY <1>1 DEF Edges, Total

(* Only RelaxAndExtract finds a cycle, among the predecessors it has just  *)
(* changed.                                                                *)
LEMMA FoundStep ==
  ASSUME IInv, IInv', FoundInv, [Next]_vars
  PROVE  FoundInv'
  <1>1. CASE market' = market /\ found_routes' \subseteq found_routes
    BY <1>1, MarketStays DEF FoundInv
  <1>2. ASSUME NEW p \in todo, RelaxAndExtract(p) PROVE FoundInv'
    <2> DEFINE v == Edge(p, u).to
    <2>1. /\ market' = market /\ v \in Tokens
          /\ found_routes' = found_routes \cup Extracted(predecessor', v)
      BY <1>2, NextEdgeFacts, EdgeFacts DEF RelaxAndExtract, Relaxed, IInv, TypeOK
    <2>2. /\ market \in Markets
          /\ predecessor' \in [Tokens -> {NoEdge} \cup Edges]
          /\ \A t \in Tokens : predecessor'[t] # NoEdge => predecessor'[t].to = t
      BY <2>1 DEF IInv, TypeOK, EdgeInv, Edges
    <2> HIDE DEF v
    <2>3. ASSUME NEW legs \in Extracted(predecessor', v)
          PROVE  legs \in Seq(Edges) /\ RoundTrip(legs) /\ Total(legs) < -MinLogProfit
      <3>1. /\ legs = Cycle(predecessor', v) /\ legs # <<>>
            /\ ~ (Total(legs) >= -MinLogProfit)
        BY <2>3 DEF Extracted
      <3>2. legs \in Seq(Edges) /\ RoundTrip(legs)
        BY <2>1, <2>2, <3>1, CycleLegs
      <3>3. Total(legs) \in Int
        <4>1. PICK f \in [0 .. Len(legs) -> Int] : Total(legs) = f[Len(legs)]
          BY <2>2, <3>2, TotalFacts
        <4>2. Len(legs) \in Nat
          BY <3>2, LenProperties
        <4>3. QED
          BY <4>1, <4>2
      <3>4. MinLogProfit \in Nat
        BY RouterAssumption
      <3>5. QED
        BY <3>1, <3>2, <3>3, <3>4
    <2>4. QED
      BY <2>1, <2>3, MarketStays DEF FoundInv, RoundTrip
  <1>3. QED
    BY <1>1, <1>2 DEF Next, Pop, Skip, NextEdge, RelaxQueued, RelaxAndQueue, Relaxed,
       Collect, vars, labels

(* It holds in every reachable state. *)
LEMMA FoundInvariance == Spec => []FoundInv
  <1>1. Init => FoundInv
    BY DEF Init, FoundInv
  <1>2. IInv /\ IInv' /\ FoundInv /\ [Next]_vars => FoundInv'
    BY FoundStep
  <1>3. QED
    BY <1>1, <1>2, Invariance, PTL DEF Spec

(* Collect rotates what was found and drops what is too long. *)
LEMMA RoutesStep ==
  ASSUME IInv, FoundInv, RoutesAreRoundTrips, [Next]_vars
  PROVE  RoutesAreRoundTrips'
  <1>1. CASE UNCHANGED <<market, routes>>
    BY <1>1, MarketStays DEF RoutesAreRoundTrips
  <1>2. CASE Collect
    <2>1. market' = market /\ market \in Markets
      BY <1>2 DEF Collect, IInv, TypeOK
    <2>2. ASSUME NEW r \in routes'
          PROVE  /\ \E b \in DOMAIN Anchors : r[1].from = Anchors[b]
                 /\ \A j \in 1 .. Len(r) - 1 : r[j].to = r[j + 1].from
                 /\ r[Len(r)].to = r[1].from
                 /\ Len(r) <= MaxHops
                 /\ Total(r) < -MinLogProfit
      <3>1. PICK legs \in found_routes :
               /\ \E b \in DOMAIN Anchors : Passes(legs, Anchors[b])
               /\ r = Rotated(legs)
               /\ Len(r) <= MaxHops
        BY <1>2, <2>2 DEF Collect
      <3>2. legs \in Seq(Edges) /\ RoundTrip(legs) /\ Total(legs) < -MinLogProfit
        BY <3>1 DEF FoundInv
      <3>3. /\ RoundTrip(r) /\ Total(r) = Total(legs)
            /\ \E b \in DOMAIN Anchors : r[1].from = Anchors[b]
        BY <2>1, <3>1, <3>2, RotatedFacts
      <3>4. QED
        BY <3>1, <3>2, <3>3 DEF RoundTrip
    <2>3. QED
      BY <2>1, <2>2, MarketStays DEF RoutesAreRoundTrips
  <1>3. QED
    BY <1>1, <1>2 DEF Next, Pop, Skip, NextEdge, RelaxQueued, RelaxAndQueue, RelaxAndExtract,
       Relaxed, vars

(* What find_arbitrage_routes returns can be executed: the legs lead from  *)
(* an anchor from token to token back to it, within MAX_HOPS, and promise  *)
(* a profit above MIN_LOG_PROFIT, for every market and any anchors.        *)
THEOREM ReturnedRoutes == Spec => []RoutesAreRoundTrips
  <1>1. Init => RoutesAreRoundTrips
    BY DEF Init, RoutesAreRoundTrips
  <1>2. QED
    BY <1>1, RoutesStep, Invariance, FoundInvariance, PTL DEF Spec

(* Labels of different times may be compared, and still no cycle of        *)
(* predecessors that extract_spfa_cycle can meet is a loss.                *)
THEOREM PredecessorsGain == Spec => []CyclesAreNegative
  BY NegativeCycles, Invariance, SlackInvariance, PTL

=============================================================================
