-------------------------- MODULE ArbitrageExecutor --------------------------
(***************************************************************************)
(* contracts/src/ArbitrageExecutor.sol: the contract that takes the flash  *)
(* loan, runs the legs bundle.rs encoded, checks the profit, pays the      *)
(* block's coinbase and lets the lending pool pull the loan back.  One     *)
(* transaction runs at a time; inside it control passes to contracts that  *)
(* may use any allowance, pay anything in, or fail.  A revert restores the *)
(* state from before the transaction.                                      *)
(*                                                                         *)
(* The owner is no contract and no leg targets the lending pool, a token   *)
(* or the executor, as in every bundle of the bot; what a leg sends in ETH *)
(* (Action.value) is always 0 there and left out.                          *)
(*                                                                         *)
(* External: the lending pool, the tokens, the legs' pools, the coinbase.  *)
(***************************************************************************)
EXTENDS Integers, Sequences

CONSTANTS
    Tokens,
    NoToken,        \* approveToken = address(0)
    Targets,        \* the pools the legs go through
    Pool,           \* POOL, the lending pool
    Owner, Stranger,
    Requests,       \* arguments the owner may give executeArbitrage
    Unasked,        \* what others may have the pool pass to the contract
    NoRequest,      \* no transaction is running
    Premiums,       \* what the pool may charge
    Unlimited,      \* type(uint256).max
    MaxHeld         \* bound: nobody pays in beyond this balance

ASSUME ExecutorAssumption ==
    /\ Pool \notin Targets
    /\ NoToken \notin Tokens
    /\ Owner # Stranger
    /\ NoRequest \notin Requests \cup Unasked
    /\ Premiums \subseteq Nat
    /\ Unlimited \in Nat /\ MaxHeld \in Nat
    /\ \A c \in Requests \cup Unasked :
          /\ c.asset \in Tokens
          /\ c.amount \in Nat /\ c.minProfit \in Nat /\ c.minerReward \in Nat
          /\ c.actions \in Seq([target : Targets, approveToken : Tokens \cup {NoToken},
                                approveAmount : Nat])

VARIABLES
    balance, eth, allowance,
    status,         \* ReentrancyGuard._status: "entered" or not
    pc,             \* where the running transaction is, or "idle"
    call,           \* its arguments
    initiator,      \* who asked the pool for the loan: this contract or not
    premium, balanceBefore, i,
    saved           \* the state a revert restores

worldVars == <<balance, eth, allowance>>
frameVars == <<call, initiator, premium, balanceBefore, i>>
vars == <<worldVars, status, pc, frameVars, saved>>

Spenders == Targets \cup {Pool}
Nothing == [balance |-> [t \in Tokens |-> 0], eth |-> 0]
NoAllowance == [t \in Tokens |-> [s \in Spenders |-> 0]]

-----------------------------------------------------------------------------
Init ==
    /\ balance \in [Tokens -> 0 .. MaxHeld]
    /\ eth \in 0 .. MaxHeld
    /\ allowance = NoAllowance
    /\ status = "not_entered"
    /\ pc = "idle"
    /\ call = NoRequest
    /\ initiator = "nobody"
    /\ premium = 0
    /\ balanceBefore = 0
    /\ i = 1
    /\ saved = Nothing

-----------------------------------------------------------------------------
(* Every transaction ends by forgetting its arguments and locals. *)
End ==
    /\ pc' = "idle"
    /\ status' = "not_entered"
    /\ call' = NoRequest
    /\ initiator' = "nobody"
    /\ premium' = 0
    /\ balanceBefore' = 0
    /\ i' = 1
    /\ saved' = Nothing

(* The transaction undone; allowances were zero before it, and status was  *)
(* not_entered.                                                            *)
Revert ==
    /\ balance' = saved.balance
    /\ eth' = saved.eth
    /\ allowance' = NoAllowance
    /\ End

(* The pool funds the receiver and calls executeOperation. *)
FlashLoan(who, c) ==
    /\ call' = c
    /\ initiator' = who
    /\ premium' \in Premiums
    /\ balance' = [balance EXCEPT ![c.asset] = @ + c.amount]
    /\ saved' = [balance |-> balance, eth |-> eth]
    /\ pc' = "loan"
    /\ UNCHANGED <<eth, allowance, balanceBefore, i>>

(* onlyOwner, nonReentrant, the three requires, enough ETH for the miner;  *)
(* the contract itself is then the initiator of the loan.                  *)
executeArbitrage(who, c) ==
    /\ pc = "idle"
    /\ who = Owner
    /\ status # "entered"
    /\ c.amount > 0 /\ c.actions # <<>>
    /\ c.minerReward = 0 \/ eth >= c.minerReward
    /\ status' = "entered"
    /\ FlashLoan("executor", c)

(* Anybody can ask the pool to lend to the executor. *)
ForeignLoan(c) ==
    /\ pc = "idle"
    /\ FlashLoan("somebody", c)
    /\ UNCHANGED status

(* Mutant of BeginOperation: the loan and its price are taken off. *)
BeginBeforeLoan ==
    /\ pc = "loan"
    /\ IF initiator # "executor" THEN Revert
       ELSE /\ balanceBefore' = balance[call.asset] - call.amount - premium
            /\ i' = 1
            /\ pc' = "legs"
            /\ UNCHANGED <<worldVars, status, call, initiator, premium, saved>>

(* executeOperation up to the legs: UntrustedInitiator, or balanceBefore. *)
BeginOperation ==
    /\ pc = "loan"
    /\ IF initiator # "executor" THEN Revert
       ELSE /\ balanceBefore' = balance[call.asset]
            /\ i' = 1
            /\ pc' = "legs"
            /\ UNCHANGED <<worldVars, status, call, initiator, premium, saved>>

-----------------------------------------------------------------------------
(* _runActions *)

Leg == call.actions[i]

Approved(leg, n) ==
    IF leg.approveToken = NoToken THEN allowance
    ELSE [allowance EXCEPT ![leg.approveToken][leg.target] = n]

(* An approveAmount of 0 stands for an unlimited approval. *)
StartLeg ==
    /\ pc = "legs"
    /\ i <= Len(call.actions)
    /\ allowance' = Approved(Leg, IF Leg.approveAmount = 0 THEN Unlimited ELSE Leg.approveAmount)
    /\ pc' = "leg"
    /\ UNCHANGED <<balance, eth, status, frameVars, saved>>

(* Mutant of EndLeg: the approval is left standing. *)
EndLegApproved ==
    /\ pc = "leg"
    /\ i' = i + 1
    /\ pc' = "legs"
    /\ UNCHANGED <<worldVars, status, call, initiator, premium, balanceBefore, saved>>

(* The target returned: its approval is revoked. *)
EndLeg ==
    /\ pc = "leg"
    /\ allowance' = Approved(Leg, 0)
    /\ i' = i + 1
    /\ pc' = "legs"
    /\ UNCHANGED <<balance, eth, status, call, initiator, premium, balanceBefore, saved>>

(* ActionCallFailed, or the target's own revert data *)
LegFails ==
    /\ pc = "leg"
    /\ Revert

-----------------------------------------------------------------------------
(* executeOperation after the legs. *)

balanceAfter == balance[call.asset]
required == balanceBefore + premium
amountOwed == call.amount + premium

(* Mutants of Profitable: the premium is left out; what the contract held  *)
(* before the loan may go.                                                 *)
ProfitableGross == balanceAfter >= balanceBefore + call.minProfit
ProfitableOwed == balanceAfter >= amountOwed + call.minProfit

(* neither ArbitrageUnprofitable nor ProfitBelowMinimum *)
Profitable ==
    /\ balanceAfter >= required
    /\ balanceAfter - balanceBefore - premium >= call.minProfit

(* Check the profit, then pay the coinbase, which gets control if there is *)
(* anything to pay.                                                        *)
PayMiner ==
    /\ pc = "legs"
    /\ i > Len(call.actions)
    /\ IF ~Profitable \/ eth < call.minerReward THEN Revert
       ELSE /\ eth' = eth - call.minerReward
            /\ pc' = "miner"
            /\ UNCHANGED <<balance, allowance, status, frameVars, saved>>

(* MinerPaymentFailed *)
MinerFails ==
    /\ pc = "miner" /\ call.minerReward > 0
    /\ Revert

(* Approve the repayment and return to the pool. *)
EndOperation ==
    /\ pc = "miner"
    /\ allowance' = [allowance EXCEPT ![call.asset][Pool] = amountOwed]
    /\ pc' = "repay"
    /\ UNCHANGED <<balance, eth, status, frameVars, saved>>

(* External: the pool pulls the loan and the premium, or reverts; then     *)
(* executeArbitrage returns and leaves the reentrancy guard.               *)
Repay ==
    /\ pc = "repay"
    /\ IF balance[call.asset] < amountOwed \/ allowance[call.asset][Pool] < amountOwed
       THEN Revert
       ELSE /\ balance' = [balance EXCEPT ![call.asset] = @ - amountOwed]
            /\ allowance' = [allowance EXCEPT ![call.asset][Pool] = @ - amountOwed]
            /\ End
            /\ UNCHANGED eth

-----------------------------------------------------------------------------
(* Other transactions of the owner. *)

emergencyWithdraw(t) ==
    /\ pc = "idle"
    /\ IF t = NoToken THEN eth' = 0 /\ UNCHANGED balance
       ELSE balance' = [balance EXCEPT ![t] = 0] /\ UNCHANGED eth
    /\ UNCHANGED <<allowance, status, pc, frameVars, saved>>

batchRevokeApprovals(t, s) ==
    /\ pc = "idle"
    /\ allowance' = [allowance EXCEPT ![t][s] = 0]
    /\ UNCHANGED <<balance, eth, status, pc, frameVars, saved>>

-----------------------------------------------------------------------------
(* External: whoever has control, inside a leg, the coinbase's call or a   *)
(* transaction of their own, uses allowances and pays in.                  *)
Foreign == pc \in {"idle", "leg", "miner"}

(* transferFrom; an unlimited allowance is not used up. *)
Pull(t, s) ==
    /\ Foreign
    /\ \E n \in 1 .. balance[t] :
          /\ n <= allowance[t][s]
          /\ balance' = [balance EXCEPT ![t] = @ - n]
          /\ allowance' = IF allowance[t][s] = Unlimited THEN allowance
                          ELSE [allowance EXCEPT ![t][s] = @ - n]
    /\ UNCHANGED <<eth, status, pc, frameVars, saved>>

PayIn(t) ==
    /\ Foreign
    /\ balance[t] < MaxHeld
    /\ balance' = [balance EXCEPT ![t] = @ + 1]
    /\ UNCHANGED <<eth, allowance, status, pc, frameVars, saved>>

(* receive() *)
PayEth ==
    /\ Foreign
    /\ eth < MaxHeld
    /\ eth' = eth + 1
    /\ UNCHANGED <<balance, allowance, status, pc, frameVars, saved>>

-----------------------------------------------------------------------------
Trade ==
    \/ \E who \in {Owner, Stranger}, c \in Requests : executeArbitrage(who, c)
    \/ \E c \in Requests \cup Unasked : ForeignLoan(c)
    \/ BeginOperation \/ StartLeg \/ EndLeg \/ LegFails
    \/ PayMiner \/ MinerFails \/ EndOperation \/ Repay

Next ==
    \/ Trade
    \/ \E t \in Tokens \cup {NoToken} : emergencyWithdraw(t)
    \/ \E t \in Tokens, s \in Spenders : batchRevokeApprovals(t, s) \/ Pull(t, s)
    \/ \E t \in Tokens : PayIn(t)
    \/ PayEth

Spec == Init /\ [][Next]_vars

-----------------------------------------------------------------------------
(* Properties *)

(* The types of all variables. *)
TypeOK ==
    /\ balance \in [Tokens -> Nat]
    /\ eth \in Nat
    /\ allowance \in [Tokens -> [Spenders -> Nat]]
    /\ status \in {"entered", "not_entered"}
    /\ pc \in {"idle", "loan", "legs", "leg", "miner", "repay"}
    /\ call \in Requests \cup Unasked \cup {NoRequest}
    /\ call = NoRequest <=> pc = "idle"
    /\ initiator \in {"nobody", "executor", "somebody"}
    /\ premium \in Nat
    /\ balanceBefore \in Nat
    /\ i \in Nat \ {0}
    /\ saved \in [balance : [Tokens -> Nat], eth : Nat]

(* SECURITY_REVIEW.md: approve, call, revoke leaves no allowance behind.   *)
(* Nobody but the target of the running leg, and at the end the lending    *)
(* pool for what it is owed, can take a token out of the contract.         *)
NoLingeringAllowance ==
    \A t \in Tokens : \A s \in Spenders :
        allowance[t][s] > 0 =>
            \/ pc = "leg" /\ s = Leg.target /\ t = Leg.approveToken
            \/ pc = "repay" /\ s = Pool /\ t = call.asset /\ allowance[t][s] = amountOwed

(* An operation that passed its checks can be repaid: the coinbase, which  *)
(* has control between the check and the repayment, cannot spoil it.       *)
Repayable == pc \in {"miner", "repay"} => balance[call.asset] >= amountOwed

(* What everybody outside the running transaction sees: its effects only   *)
(* when it has ended.                                                      *)
Promise ==
    INSTANCE AtomicArbitrage WITH
        balance <- IF pc = "idle" THEN balance ELSE saved.balance,
        eth <- IF pc = "idle" THEN eth ELSE saved.eth,
        Terms <- Requests

(* The contract keeps the promise. *)
TradesAreAtomic == Promise!Spec

-----------------------------------------------------------------------------
(* Claims of the documentation.  TLC refutes them: see the README. *)

(* security.md: "Reverts on any unprofitable trade or failed repayment."   *)
(* For a trade in wrapped ether: what it makes covers what it pays the     *)
(* coinbase, when nobody pays in on the side.                              *)
NoUnprofitableTrade ==
    [][pc = "repay" /\ pc' = "idle" /\ eth + call.minerReward = saved.eth =>
          balance'[call.asset] + eth' >= saved.balance[call.asset] + saved.eth]_vars

=============================================================================
