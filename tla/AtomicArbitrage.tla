--------------------------- MODULE AtomicArbitrage ---------------------------
(***************************************************************************)
(* What the owner of the executor contract is promised, transaction by     *)
(* transaction: a trade on given terms either happens whole, with at least *)
(* the minimum profit in the borrowed token and no more than the agreed    *)
(* reward paid in ETH, or leaves no trace.  Nobody else takes anything.    *)
(***************************************************************************)
EXTENDS Naturals

CONSTANTS
    Tokens,     \* the tokens the contract may hold
    Terms       \* [asset, minProfit, minerReward] the owner may ask for

VARIABLES
    balance,    \* balance[t]: what the contract holds of token t
    eth         \* what it holds of ETH

(* A trade on terms c.  Only the borrowed token is vouched for: the legs   *)
(* are allowed to spend what the contract holds of the others.             *)
Trade(c) ==
    /\ balance'[c.asset] >= balance[c.asset] + c.minProfit
    /\ eth' + c.minerReward >= eth

Withdraw == \E t \in Tokens : balance' = [balance EXCEPT ![t] = 0] /\ UNCHANGED eth
WithdrawEth == eth' = 0 /\ UNCHANGED balance

Deposit == eth' >= eth /\ \A t \in Tokens : balance'[t] >= balance[t]

Init == balance \in [Tokens -> Nat] /\ eth \in Nat
Next == (\E c \in Terms : Trade(c)) \/ Withdraw \/ WithdrawEth \/ Deposit

Spec == Init /\ [][Next]_<<balance, eth>>

=============================================================================
