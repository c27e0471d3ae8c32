------------------------------ MODULE MCRouter ------------------------------
(* Small markets for TLC: every list of pools that connects the tokens. *)
EXTENDS Router

PoolsWith(tokens, prices, fees) ==
    UNION {[t0 : {a}, t1 : {b}, price : prices, fee : fees] : <<a, b>> \in
              {ab \in tokens \X tokens : ab[1] < ab[2]}}

Connects(m) ==
    \A S \in (SUBSET Tokens) \ {{}, Tokens} :
        \E p \in DOMAIN m : m[p].t0 \in S <=> m[p].t1 \notin S

OfSize(n, prices, fees) == {m \in [1 .. n -> PoolsWith(Tokens, prices, fees)] : Connects(m)}

FourPools == OfSize(4, {-1, 1}, {0})
FewPools == FourPools \cup OfSize(3, -2 .. 2, {0})
SecondThenFirst == <<2, 1>>
=============================================================================
