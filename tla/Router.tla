------------------------------- MODULE Router -------------------------------
(***************************************************************************)
(* src/router/graph.rs: find_arbitrage_routes on one strongly connected    *)
(* component.  Every token starts with label 0 and in the queue; labels    *)
(* are relaxed until the queue is empty; a token that enters the queue N   *)
(* times is taken for the sign of a negative cycle, which is then read off *)
(* the predecessors.  The routes found are rotated to an anchor and        *)
(* filtered at the end.  Components share nothing; a pool has both edges   *)
(* or none, so a component is any connected set of tokens.                 *)
(*                                                                         *)
(* Logarithms of prices and fees are integers here.  The code only ever    *)
(* compares labels, so they are kept relative to that of the first token.  *)
(* The rounding of f64 and the margin of 1e-11 are left out, and so is the *)
(* order by confidence.                                                    *)
(***************************************************************************)
EXTENDS Integers, Sequences, FiniteSetsExt

CONSTANTS
    N,              \* the component's tokens are 1 .. N
    Markets,        \* the registry's pools, as iterated: [t0, t1, price, fee]
    Anchors,        \* anchor_tokens, a sequence
    MaxHops,        \* MAX_HOPS
    MinLogProfit    \* MIN_LOG_PROFIT, in units of the logarithms

Tokens == 1 .. N
NoEdge == [pool |-> 0, from |-> 0, to |-> 0]

ASSUME RouterAssumption ==
    /\ N \in Nat /\ N > 1
    /\ MaxHops \in Nat /\ MinLogProfit \in Nat
    /\ Anchors \in Seq(Nat)
    /\ \A m \in Markets :
          /\ DOMAIN m \subseteq Nat \ {0}
          /\ \A p \in DOMAIN m :
                /\ m[p].t0 \in Tokens /\ m[p].t1 \in Tokens /\ m[p].t0 # m[p].t1
                /\ m[p].price \in Int /\ m[p].fee \in Nat
          /\ \A S \in (SUBSET Tokens) \ {{}, Tokens} :
                \E p \in DOMAIN m : m[p].t0 \in S <=> m[p].t1 \notin S

VARIABLES
    market,         \* the pools cloned from the registry
    dist, count, queue, predecessor,
    u, todo,        \* the token being processed, and the pools left to look at
    found_routes,
    routes,         \* what find_arbitrage_routes returns
    pc

labels == <<dist, count, queue, predecessor>>
vars == <<market, labels, u, todo, found_routes, routes, pc>>

-----------------------------------------------------------------------------
Pools(t) == {p \in DOMAIN market : t \in {market[p].t0, market[p].t1}}

Edge(p, t) ==
    [pool |-> p, from |-> t,
     to |-> IF t = market[p].t0 THEN market[p].t1 ELSE market[p].t0]

(* -ln of get_exchange_rate, which has the fee taken off, one way, and of  *)
(* the inverse of that rate the other way.                                 *)
Weight(e) ==
    LET p == market[e.pool]
    IN  IF e.from = p.t0 THEN p.fee - p.price ELSE p.price - p.fee

(* What going through the pool costs: its fee, in either direction. *)
RealWeight(e) ==
    LET p == market[e.pool]
    IN  p.fee + (IF e.from = p.t0 THEN -p.price ELSE p.price)

Total(legs) ==
    LET sum[j \in 0 .. Len(legs)] == IF j = 0 THEN 0 ELSE sum[j - 1] + Weight(legs[j])
    IN  sum[Len(legs)]

(* in_queue *)
Queued == {queue[j] : j \in DOMAIN queue}

Abs(n) == IF n < 0 THEN -n ELSE n

Rebased(d) == [t \in Tokens |-> d[t] - d[1]]

-----------------------------------------------------------------------------
(* extract_spfa_cycle *)

(* The tokens met when the predecessors of v are followed, 0 past the end. *)
Followed(pred, v) ==
    LET step[k \in 0 .. N] ==
            IF k = 0 THEN v
            ELSE IF step[k - 1] = 0 THEN 0 ELSE pred[step[k - 1]].from
    IN  step

(* The cycle met by following the predecessors of v, or <<>> if they end   *)
(* before there is one.                                                    *)
Cycle(pred, v) ==
    LET step == Followed(pred, v)
        Met(k) == \E j \in 0 .. k - 1 : step[j] = step[k]
        k == Min({l \in 1 .. N : step[l] = 0 \/ Met(l)})
        j == CHOOSE l \in 0 .. k - 1 : step[l] = step[k]
    IN  IF step[k] = 0 THEN <<>> ELSE [l \in 1 .. k - j |-> pred[step[k - l]]]

Extracted(pred, v) ==
    LET legs == Cycle(pred, v)
    IN  IF legs = <<>> \/ Len(legs) > MaxHops + 1 \/ Total(legs) >= -MinLogProfit
        THEN {} ELSE {legs}

-----------------------------------------------------------------------------
Init ==
    /\ market \in Markets
    /\ dist = [t \in Tokens |-> 0]
    /\ count = [t \in Tokens |-> 0]
    /\ queue = [t \in Tokens |-> t]
    /\ predecessor = [t \in Tokens |-> NoEdge]
    /\ u = 0
    /\ todo = {}
    /\ found_routes = {}
    /\ routes = {}
    /\ pc = "pop"

Pop ==
    /\ pc = "pop" /\ queue # <<>>
    /\ u' = Head(queue)
    /\ queue' = Tail(queue)
    /\ todo' = Pools(Head(queue))
    /\ pc' = "edges"
    /\ UNCHANGED <<market, dist, count, predecessor, found_routes, routes>>

-----------------------------------------------------------------------------
(* One round of the loop over the edges of u, in the order of the pools. *)

NextEdge(p) ==
    /\ pc = "edges"
    /\ p \in todo /\ \A q \in todo : p <= q
    /\ todo' = todo \ {p}
    /\ pc' = IF todo' = {} THEN "pop" ELSE "edges"
    /\ UNCHANGED <<market, u, routes>>

(* Mutant of Improves: labels may be replaced by equal ones. *)
NoWorse(e) == dist[e.from] + Weight(e) <= dist[e.to]

Improves(e) == dist[e.from] + Weight(e) < dist[e.to]

Skip(p) ==
    /\ NextEdge(p)
    /\ ~Improves(Edge(p, u))
    /\ UNCHANGED <<labels, found_routes>>

Relaxed(p, e) ==
    /\ NextEdge(p)
    /\ Improves(e)
    /\ dist' = Rebased([dist EXCEPT ![e.to] = dist[e.from] + Weight(e)])
    /\ predecessor' = [predecessor EXCEPT ![e.to] = e]

RelaxQueued(p) ==
    LET e == Edge(p, u)
    IN  /\ Relaxed(p, e)
        /\ e.to \in Queued
        /\ UNCHANGED <<count, queue, found_routes>>

(* Smallest label first *)
RelaxAndQueue(p) ==
    LET e == Edge(p, u)
    IN  /\ Relaxed(p, e)
        /\ e.to \notin Queued
        /\ count[e.to] + 1 < N
        /\ count' = [count EXCEPT ![e.to] = @ + 1]
        /\ queue' = IF queue # <<>> /\ dist'[e.to] < dist'[Head(queue)]
                    THEN <<e.to>> \o queue
                    ELSE Append(queue, e.to)
        /\ UNCHANGED found_routes

(* Mutant of RelaxAndExtract: the counter is not reset. *)
ExtractAndCount(p) ==
    LET e == Edge(p, u)
    IN  /\ Relaxed(p, e)
        /\ e.to \notin Queued
        /\ count[e.to] + 1 >= N
        /\ count' = [count EXCEPT ![e.to] = @ + 1]
        /\ found_routes' = found_routes \cup Extracted(predecessor', e.to)
        /\ UNCHANGED queue

(* The counter starts again, and the token stays out of the queue. *)
RelaxAndExtract(p) ==
    LET e == Edge(p, u)
    IN  /\ Relaxed(p, e)
        /\ e.to \notin Queued
        /\ count[e.to] + 1 >= N
        /\ count' = [count EXCEPT ![e.to] = 0]
        /\ found_routes' = found_routes \cup Extracted(predecessor', e.to)
        /\ UNCHANGED queue

-----------------------------------------------------------------------------
(* Post-processing *)

Passes(legs, t) == \E j \in DOMAIN legs : legs[j].from = t

(* Mutant of Rotated: one leg too far. *)
RotatedPast(legs) ==
    LET a == Min({b \in DOMAIN Anchors : Passes(legs, Anchors[b])})
        pos == CHOOSE j \in DOMAIN legs : legs[j].from = Anchors[a]
    IN  SubSeq(legs, pos + 1, Len(legs)) \o SubSeq(legs, 1, pos)

(* The first anchor on the cycle becomes its first token. *)
Rotated(legs) ==
    LET a == Min({b \in DOMAIN Anchors : Passes(legs, Anchors[b])})
        pos == CHOOSE j \in DOMAIN legs : legs[j].from = Anchors[a]
    IN  SubSeq(legs, pos, Len(legs)) \o SubSeq(legs, 1, pos - 1)

PoolsOf(legs) == {legs[j].pool : j \in DOMAIN legs}

(* Of the cycles through the same pools the first one found is kept. *)
Collect ==
    /\ pc = "pop" /\ queue = <<>>
    /\ LET anchored == {legs \in found_routes : \E b \in DOMAIN Anchors : Passes(legs, Anchors[b])}
           candidates == {Rotated(legs) : legs \in anchored}
       IN  \E kept \in SUBSET candidates :
              /\ \A c \in candidates : \E r \in kept : PoolsOf(r) = PoolsOf(c)
              /\ \A r, s \in kept : PoolsOf(r) = PoolsOf(s) => r = s
              /\ routes' = {r \in kept : Len(r) <= MaxHops}
    /\ pc' = "done"
    /\ UNCHANGED <<market, labels, u, todo, found_routes>>

Next ==
    \/ Pop
    \/ \E p \in todo : Skip(p) \/ RelaxQueued(p) \/ RelaxAndQueue(p) \/ RelaxAndExtract(p)
    \/ Collect

Spec == Init /\ [][Next]_vars /\ WF_vars(Next)

-----------------------------------------------------------------------------
(* Properties *)

(* The types of all variables. *)
TypeOK ==
    /\ market \in Markets
    /\ dist \in [Tokens -> Int]
    /\ count \in [Tokens -> 0 .. N - 1]
    /\ queue \in Seq(Tokens)
    /\ predecessor \in [Tokens -> {NoEdge} \cup
                          [pool : DOMAIN market, from : Tokens, to : Tokens]]
    /\ u \in Tokens \cup {0}
    /\ todo \subseteq DOMAIN market
    /\ pc \in {"pop", "edges", "done"}

(* A cycle of predecessors is always a negative one, although its labels   *)
(* are from different times: what extract_spfa_cycle rejects is too long   *)
(* or too small, never a loss.                                             *)
CyclesAreNegative ==
    \A t \in Tokens :
        LET legs == Cycle(predecessor, t) IN legs # <<>> => Total(legs) < 0

(* No cycle of predecessors goes through one pool both ways: its second    *)
(* swap would be priced at reserves the first has moved.                   *)
NoPoolBothWays ==
    \A t \in Tokens :
        LET e == predecessor[t]
        IN  e # NoEdge => predecessor[e.from].pool # e.pool

(* What is returned can be executed: the legs lead from an anchor from     *)
(* token to token back to it, within MAX_HOPS, and promise a profit.       *)
RoutesAreRoundTrips ==
    \A r \in routes :
        /\ \E b \in DOMAIN Anchors : r[1].from = Anchors[b]
        /\ \A j \in 1 .. Len(r) - 1 : r[j].to = r[j + 1].from
        /\ r[Len(r)].to = r[1].from
        /\ Len(r) <= MaxHops
        /\ Total(r) < -MinLogProfit

(* The pools agree on what each token is worth, so there is no negative    *)
(* cycle.                                                                  *)
Explained ==
    LET span == MapThenSumSet(LAMBDA p : Abs(market[p].price) + market[p].fee, DOMAIN market)
    IN  \E value \in {v \in [Tokens -> -span .. span] : v[1] = 0} :
        \A p \in DOMAIN market :
            value[market[p].t1] - value[market[p].t0] = market[p].fee - market[p].price

(* A search begun (u is still 0) where there is none ends, and with        *)
(* nothing (test_no_arbitrage_found_in_efficient_market).                  *)
EndsWithNothing == u = 0 /\ Explained ~> pc = "done" /\ routes = {}

-----------------------------------------------------------------------------
(* Claims of the documentation.  TLC refutes them: see the README. *)

(* graph.rs: "Reset count and skip to prevent infinite loop" *)
SearchEnds == <>(pc = "done")

(* routing_test.rs: a negative cycle will be found. *)
FindsNegativeCycle == pc = "done" /\ ~Explained => found_routes # {}

(* strategy.md: a negative cycle is a sequence of trades that ends with    *)
(* more than it started with.                                              *)
RoutesGain ==
    \A r \in routes : MapThenSumSet(LAMBDA j : RealWeight(r[j]), DOMAIN r) < 0

=============================================================================
