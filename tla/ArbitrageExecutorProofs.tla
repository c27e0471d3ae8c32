----------------------- MODULE ArbitrageExecutorProofs -----------------------
(***************************************************************************)
(* Proofs about ArbitrageExecutor for any tokens, legs, requests, premiums *)
(* and amounts.  The inductive invariant says what a running transaction   *)
(* may rely on: who asked for the loan, what was there before it, and who  *)
(* holds an allowance.                                                     *)
(***************************************************************************)
EXTENDS ArbitrageExecutor, SequenceTheorems, TLAPS

Operating == {"legs", "leg", "miner", "repay"}
Checked == {"miner", "repay"}

(* A leg that runs is one of the request's; the executor is the initiator  *)
(* of every operation that got past its first check, and only for what the *)
(* owner asked.                                                            *)
CallInv ==
    /\ pc = "leg" => i \in 1 .. Len(call.actions)
    /\ pc \in Operating => initiator = "executor"
    /\ initiator = "executor" => call \in Requests

(* What the contract held before the transaction, as the operation sees it. *)
BeforeInv ==
    /\ pc = "loan" => balance[call.asset] = saved.balance[call.asset] + call.amount
    /\ pc \in Operating => balanceBefore = saved.balance[call.asset] + call.amount
    /\ pc \in {"loan", "legs", "leg"} => eth >= saved.eth

(* What the checks leave behind, and the coinbase cannot take. *)
CheckedInv ==
    pc \in Checked =>
        /\ balance[call.asset] >= balanceBefore + premium + call.minProfit
        /\ eth + call.minerReward >= saved.eth

IInv == TypeOK /\ CallInv /\ NoLingeringAllowance /\ BeforeInv /\ CheckedInv

-----------------------------------------------------------------------------
USE DEF worldVars, frameVars

(* The fields of a request that may be running. *)
LEMMA RequestFields ==
  ASSUME TypeOK, pc # "idle"
  PROVE  /\ call \in Requests \cup Unasked
         /\ call.asset \in Tokens
         /\ call.amount \in Nat
         /\ call.minProfit \in Nat
         /\ call.minerReward \in Nat
  BY ExecutorAssumption DEF TypeOK

(* The fields of the leg about to run or running. *)
LEMMA LegFields ==
  ASSUME TypeOK, pc # "idle", i \in 1 .. Len(call.actions)
  PROVE  /\ Leg.target \in Targets
         /\ Leg.approveToken \in Tokens \cup {NoToken}
         /\ Leg.approveAmount \in Nat
  <1> DEFINE L == [target : Targets, approveToken : Tokens \cup {NoToken},
                   approveAmount : Nat]
  <1>1. call.actions \in Seq(L)
    BY ExecutorAssumption DEF TypeOK
  <1>2. Leg \in L
    BY <1>1, ElementOfSeq DEF Leg
  <1>3. QED
    BY <1>2

(* Undoing or ending a transaction. *)
LEMMA EndType ==
  ASSUME TypeOK, End
  PROVE  /\ pc' = "idle"
         /\ status' = "not_entered"
         /\ call' = NoRequest
         /\ initiator' = "nobody"
         /\ premium' = 0
         /\ balanceBefore' = 0
         /\ i' = 1
         /\ saved' \in [balance : [Tokens -> Nat], eth : Nat]
  BY DEF End, Nothing

(* A reverted transaction leaves the state from before it. *)
LEMMA RevertInv ==
  ASSUME TypeOK, Revert
  PROVE  IInv'
  <1>1. NoAllowance \in [Tokens -> [Spenders -> Nat]]
    BY DEF NoAllowance
  <1>2. TypeOK'
    BY <1>1, EndType DEF TypeOK, Revert
  <1>3. NoLingeringAllowance'
    BY DEF Revert, NoAllowance, NoLingeringAllowance
  <1>4. CallInv' /\ BeforeInv' /\ CheckedInv'
    BY EndType DEF Revert, CallInv, BeforeInv, CheckedInv, Operating, Checked
  <1>5. QED
    BY <1>2, <1>3, <1>4 DEF IInv

(* While nobody can have an allowance, nobody can pull. *)
LEMMA PullInv ==
  ASSUME IInv, NEW t \in Tokens, NEW s \in Spenders, Pull(t, s)
  PROVE  /\ pc = "leg"
         /\ balance' \in [Tokens -> Nat]
         /\ allowance' \in [Tokens -> [Spenders -> Nat]]
         /\ \A u \in Tokens, v \in Spenders :
               allowance'[u][v] > 0 => allowance[u][v] > 0
  <1> USE DEF IInv
  <1>1. PICK n \in 1 .. balance[t] :
          /\ n <= allowance[t][s]
          /\ balance' = [balance EXCEPT ![t] = @ - n]
          /\ allowance' = IF allowance[t][s] = Unlimited THEN allowance
                          ELSE [allowance EXCEPT ![t][s] = @ - n]
    BY DEF Pull
  <1>2. allowance[t][s] \in Nat /\ balance[t] \in Nat /\ n \in Nat /\ n > 0
    BY <1>1 DEF TypeOK
  <1>3. pc \in {"leg", "repay"}
    BY <1>1, <1>2 DEF NoLingeringAllowance
  <1>4. balance[t] - n \in Nat /\ allowance[t][s] - n \in Nat
    BY <1>1, <1>2
  <1>5. pc = "leg"
    BY <1>3 DEF Pull, Foreign
  <1>6. balance' \in [Tokens -> Nat]
    BY <1>1, <1>4 DEF TypeOK
  <1>7. allowance' \in [Tokens -> [Spenders -> Nat]]
    BY <1>1, <1>4 DEF TypeOK
  <1>8. ASSUME NEW u \in Tokens, NEW v \in Spenders, allowance'[u][v] > 0
        PROVE  allowance[u][v] > 0
    BY <1>1, <1>2, <1>8 DEF TypeOK
  <1>9. QED
    BY <1>5, <1>6, <1>7, <1>8

-----------------------------------------------------------------------------
(* A loan begins on a state nobody holds an allowance in. *)
LEMMA FlashLoanInv ==
  ASSUME IInv, pc = "idle", NEW who \in {"executor", "somebody"},
         NEW c \in Requests \cup Unasked,
         who = "executor" => c \in Requests,
         status' \in {"entered", "not_entered"},
         FlashLoan(who, c)
  PROVE  IInv'
  <1> USE DEF IInv
  <1>1. c.asset \in Tokens /\ c.amount \in Nat
    BY ExecutorAssumption
  <1>2. /\ balance' \in [Tokens -> Nat]
        /\ balance'[c.asset] = balance[c.asset] + c.amount
    BY <1>1 DEF TypeOK, FlashLoan
  <1>3. saved' \in [balance : [Tokens -> Nat], eth : Nat]
    BY DEF TypeOK, FlashLoan
  <1>4. TypeOK'
    BY <1>2, <1>3, ExecutorAssumption DEF TypeOK, FlashLoan
  <1>5. NoLingeringAllowance'
    BY DEF FlashLoan, NoLingeringAllowance
  <1>6. CallInv' /\ CheckedInv'
    BY DEF FlashLoan, CallInv, CheckedInv, Operating, Checked
  <1>7. BeforeInv'
    BY <1>2 DEF FlashLoan, BeforeInv, Operating, TypeOK
  <1>8. QED
    BY <1>4, <1>5, <1>6, <1>7

(* executeOperation goes on only if the executor asked for the loan. *)
LEMMA BeginInv ==
  ASSUME IInv, BeginOperation
  PROVE  IInv'
  <1> USE DEF IInv
  <1>1. CASE Revert
    BY <1>1, RevertInv
  <1>2. CASE /\ pc = "loan" /\ initiator = "executor"
             /\ balanceBefore' = balance[call.asset]
             /\ i' = 1
             /\ pc' = "legs"
             /\ UNCHANGED <<balance, eth, allowance, status, call, initiator, premium, saved>>
    <2>1. balance[call.asset] \in Nat
      BY <1>2, RequestFields DEF TypeOK
    <2>2. TypeOK'
      BY <1>2, <2>1 DEF TypeOK
    <2>3. NoLingeringAllowance'
      BY <1>2 DEF NoLingeringAllowance
    <2>4. CallInv' /\ BeforeInv' /\ CheckedInv'
      BY <1>2 DEF CallInv, BeforeInv, CheckedInv, Operating, Checked
    <2>5. QED
      BY <2>2, <2>3, <2>4
  <1>3. QED
    BY <1>1, <1>2 DEF BeginOperation

(* One leg, one allowance. *)
LEMMA StartLegInv ==
  ASSUME IInv, StartLeg
  PROVE  IInv'
  <1> USE DEF IInv
  <1> DEFINE n == IF Leg.approveAmount = 0 THEN Unlimited ELSE Leg.approveAmount
  <1>1. i \in 1 .. Len(call.actions)
    <2>1. call.actions \in Seq([target : Targets, approveToken : Tokens \cup {NoToken},
                                approveAmount : Nat])
      BY ExecutorAssumption DEF TypeOK, StartLeg
    <2>2. QED
      BY <2>1 DEF TypeOK, StartLeg
  <1>2. /\ Leg.target \in Targets
        /\ Leg.approveToken \in Tokens \cup {NoToken}
        /\ n \in Nat
    BY <1>1, LegFields, ExecutorAssumption DEF StartLeg
  <1>3. allowance' = Approved(Leg, n)
    BY DEF StartLeg
  <1>4. allowance' \in [Tokens -> [Spenders -> Nat]]
    BY <1>2, <1>3 DEF TypeOK, Approved, Spenders
  <1>5. Leg' = Leg
    BY DEF StartLeg, Leg
  <1>6. TypeOK'
    BY <1>4 DEF TypeOK, StartLeg
  <1>7. \A t \in Tokens, s \in Spenders : allowance[t][s] = 0
    BY DEF NoLingeringAllowance, TypeOK, StartLeg
  <1>8. ASSUME NEW t \in Tokens, NEW s \in Spenders, allowance'[t][s] > 0
        PROVE  s = Leg.target /\ t = Leg.approveToken
    BY <1>2, <1>3, <1>7, <1>8 DEF Approved, TypeOK
  <1>9. NoLingeringAllowance'
    BY <1>5, <1>8 DEF NoLingeringAllowance, StartLeg
  <1>10. CallInv' /\ BeforeInv' /\ CheckedInv'
    BY <1>1 DEF StartLeg, CallInv, BeforeInv, CheckedInv, Operating, Checked
  <1>11. QED
    BY <1>6, <1>9, <1>10

(* The allowance of the leg that returned is gone. *)
LEMMA EndLegInv ==
  ASSUME IInv, EndLeg
  PROVE  IInv'
  <1> USE DEF IInv
  <1>1. /\ Leg.target \in Targets
        /\ Leg.approveToken \in Tokens \cup {NoToken}
    BY LegFields DEF EndLeg, CallInv
  <1>2. allowance' = Approved(Leg, 0)
    BY DEF EndLeg
  <1>3. allowance' \in [Tokens -> [Spenders -> Nat]]
    BY <1>1, <1>2 DEF TypeOK, Approved, Spenders
  <1>4. TypeOK'
    BY <1>3 DEF TypeOK, EndLeg
  <1>5. ASSUME NEW t \in Tokens, NEW s \in Spenders
        PROVE  allowance'[t][s] = 0
    <2>1. allowance[t][s] \in Nat
      BY DEF TypeOK
    <2>2. CASE s = Leg.target /\ t = Leg.approveToken
      BY <1>1, <1>2, <2>2, ExecutorAssumption DEF Approved, TypeOK, Spenders
    <2>3. CASE ~(s = Leg.target /\ t = Leg.approveToken)
      <3>1. allowance[t][s] = 0
        BY <2>1, <2>3 DEF NoLingeringAllowance, EndLeg
      <3>2. QED
        BY <1>1, <1>2, <2>3, <3>1 DEF Approved, TypeOK
    <2>4. QED
      BY <2>2, <2>3
  <1>6. NoLingeringAllowance'
    BY <1>5 DEF NoLingeringAllowance
  <1>7. CallInv' /\ BeforeInv' /\ CheckedInv'
    BY DEF EndLeg, CallInv, BeforeInv, CheckedInv, Operating, Checked
  <1>8. QED
    BY <1>4, <1>6, <1>7

(* Past the profit check, balance and ETH cover what is promised. *)
LEMMA PayMinerInv ==
  ASSUME IInv, PayMiner
  PROVE  IInv'
  <1> USE DEF IInv
  <1>1. CASE Revert
    BY <1>1, RevertInv
  <1>2. CASE /\ pc = "legs" /\ Profitable /\ ~(eth < call.minerReward)
             /\ eth' = eth - call.minerReward
             /\ pc' = "miner"
             /\ UNCHANGED <<balance, allowance, status, call, initiator, premium,
                            balanceBefore, i, saved>>
    <2>1. /\ call.asset \in Tokens /\ call.minerReward \in Nat /\ call.minProfit \in Nat
          /\ eth \in Nat /\ saved.eth \in Nat
          /\ balance[call.asset] \in Nat /\ balanceBefore \in Nat /\ premium \in Nat
      BY <1>2, RequestFields DEF TypeOK
    <2>2. TypeOK'
      BY <1>2, <2>1 DEF TypeOK
    <2>3. NoLingeringAllowance'
      BY <1>2 DEF NoLingeringAllowance
    <2>4. CallInv' /\ BeforeInv'
      BY <1>2 DEF CallInv, BeforeInv, Operating
    <2>5. /\ balance[call.asset] >= balanceBefore + premium + call.minProfit
          /\ (eth - call.minerReward) + call.minerReward >= saved.eth
      BY <1>2, <2>1 DEF Profitable, balanceAfter, required, BeforeInv
    <2>6. CheckedInv'
      BY <1>2, <2>5 DEF CheckedInv
    <2>7. QED
      BY <2>2, <2>3, <2>4, <2>6
  <1>3. QED
    BY <1>1, <1>2 DEF PayMiner

(* The repayment's allowance is exactly what is owed. *)
LEMMA EndOperationInv ==
  ASSUME IInv, EndOperation
  PROVE  IInv'
  <1> USE DEF IInv
  <1>0. call.asset \in Tokens /\ call.amount \in Nat
    BY RequestFields DEF EndOperation
  <1>1. call.asset \in Tokens /\ amountOwed \in Nat /\ Pool \in Spenders
    BY <1>0 DEF TypeOK, amountOwed, Spenders
  <1>2. amountOwed' = amountOwed
    BY DEF EndOperation, amountOwed
  <1>3. TypeOK'
    BY <1>1 DEF TypeOK, EndOperation
  <1>4. \A t \in Tokens, s \in Spenders : allowance[t][s] = 0
    BY DEF NoLingeringAllowance, TypeOK, EndOperation
  <1>5. ASSUME NEW t \in Tokens, NEW s \in Spenders, allowance'[t][s] > 0
        PROVE  s = Pool /\ t = call.asset /\ allowance'[t][s] = amountOwed
    BY <1>1, <1>4, <1>5 DEF TypeOK, EndOperation
  <1>6. NoLingeringAllowance'
    BY <1>2, <1>5 DEF NoLingeringAllowance, EndOperation
  <1>7. CallInv' /\ BeforeInv' /\ CheckedInv'
    BY DEF EndOperation, CallInv, BeforeInv, CheckedInv, Operating, Checked
  <1>8. QED
    BY <1>3, <1>6, <1>7

(* The pool takes what is owed and uses up its allowance. *)
LEMMA RepayInv ==
  ASSUME IInv, Repay
  PROVE  IInv'
  <1> USE DEF IInv
  <1>1. CASE Revert
    BY <1>1, RevertInv
  <1>2. CASE /\ pc = "repay"
             /\ ~(balance[call.asset] < amountOwed)
             /\ ~(allowance[call.asset][Pool] < amountOwed)
             /\ balance' = [balance EXCEPT ![call.asset] = @ - amountOwed]
             /\ allowance' = [allowance EXCEPT ![call.asset][Pool] = @ - amountOwed]
             /\ End
             /\ UNCHANGED eth
    <2>0. call.asset \in Tokens /\ call.amount \in Nat
      BY <1>2, RequestFields
    <2>1. /\ call.asset \in Tokens /\ amountOwed \in Nat /\ Pool \in Spenders
          /\ balance[call.asset] \in Nat /\ allowance[call.asset][Pool] \in Nat
      BY <2>0 DEF TypeOK, amountOwed, Spenders
    <2>2. balance[call.asset] - amountOwed \in Nat
      BY <1>2, <2>1
    <2>3. allowance[call.asset][Pool] - amountOwed = 0
      BY <1>2, <2>1 DEF NoLingeringAllowance
    <2>4. TypeOK'
      BY <1>2, <2>1, <2>2, <2>3, EndType DEF TypeOK
    <2>5. ASSUME NEW t \in Tokens, NEW s \in Spenders
          PROVE  allowance'[t][s] = 0
      <3>1. CASE t = call.asset /\ s = Pool
        BY <1>2, <2>1, <2>3, <3>1 DEF TypeOK
      <3>2. CASE ~(t = call.asset /\ s = Pool)
        <4>1. allowance[t][s] \in Nat
          BY DEF TypeOK
        <4>2. allowance[t][s] = 0
          BY <1>2, <3>2, <4>1 DEF NoLingeringAllowance
        <4>3. QED
          BY <1>2, <2>1, <3>2, <4>2 DEF TypeOK
      <3>3. QED
        BY <3>1, <3>2
    <2>6. NoLingeringAllowance'
      BY <2>5 DEF NoLingeringAllowance
    <2>7. CallInv' /\ BeforeInv' /\ CheckedInv'
      BY <1>2, EndType DEF CallInv, BeforeInv, CheckedInv, Operating, Checked
    <2>8. QED
      BY <2>4, <2>6, <2>7
  <1>3. QED
    BY <1>1, <1>2 DEF Repay

(* Whoever has control may only pay in and use the allowance it was given. *)
LEMMA ForeignInv ==
  ASSUME IInv, NEW t \in Tokens, NEW s \in Spenders,
         Pull(t, s) \/ PayIn(t)
  PROVE  IInv'
  <1> USE DEF IInv
  <1>1. CASE Pull(t, s)
    <2>1. UNCHANGED <<eth, status, pc, call, initiator, premium, balanceBefore, i, saved>>
      BY <1>1 DEF Pull
    <2>2. TypeOK'
      BY <1>1, <2>1, PullInv DEF TypeOK
    <2>3. NoLingeringAllowance'
      BY <1>1, <2>1, PullInv DEF NoLingeringAllowance, Leg
    <2>4. CallInv' /\ BeforeInv' /\ CheckedInv'
      BY <1>1, <2>1, PullInv DEF CallInv, BeforeInv, CheckedInv, Operating, Checked
    <2>5. QED
      BY <2>2, <2>3, <2>4
  <1>2. CASE PayIn(t)
    <2>1. UNCHANGED <<eth, allowance, status, pc, call, initiator, premium, balanceBefore, i, saved>>
      BY <1>2 DEF PayIn
    <2>2. TypeOK' /\ \A u \in Tokens : balance'[u] >= balance[u]
      BY <1>2, <2>1 DEF TypeOK, PayIn
    <2>3. NoLingeringAllowance'
      BY <2>1 DEF NoLingeringAllowance, Leg, amountOwed
    <2>4. pc # "loan"
      BY <1>2 DEF PayIn, Foreign
    <2>5. CallInv' /\ BeforeInv'
      BY <2>1, <2>4 DEF CallInv, BeforeInv, Operating
    <2>6. CheckedInv'
      <3>1. SUFFICES ASSUME pc \in Checked
                     PROVE  balance'[call.asset] >= balanceBefore + premium + call.minProfit
        BY <2>1 DEF CheckedInv
      <3>2. /\ call.asset \in Tokens
            /\ balance[call.asset] \in Nat /\ balance'[call.asset] \in Nat
            /\ balanceBefore + premium + call.minProfit \in Nat
        BY <2>1, <2>2, <3>1, RequestFields DEF TypeOK, Checked
      <3>3. QED
        BY <2>2, <3>1, <3>2 DEF CheckedInv
    <2>7. QED
      BY <2>2, <2>3, <2>5, <2>6
  <1>3. QED
    BY <1>1, <1>2

(* Paying in ETH makes no promise harder to keep. *)
LEMMA PayEthInv ==
  ASSUME IInv, PayEth
  PROVE  IInv'
  <1> USE DEF IInv
  <1>1. UNCHANGED <<balance, allowance, status, pc, call, initiator, premium, balanceBefore, i, saved>>
    BY DEF PayEth
  <1>2. TypeOK' /\ eth' = eth + 1
    BY <1>1 DEF TypeOK, PayEth
  <1>3. NoLingeringAllowance'
    BY <1>1 DEF NoLingeringAllowance, Leg, amountOwed
  <1>4. CallInv'
    BY <1>1 DEF CallInv, Operating
  <1>5. BeforeInv'
    BY <1>1, <1>2 DEF BeforeInv, Operating, TypeOK
  <1>6. CheckedInv'
    BY <1>1, <1>2, RequestFields DEF CheckedInv, Checked, TypeOK
  <1>7. QED
    BY <1>2, <1>3, <1>4, <1>5, <1>6

(* The owner's other transactions run between trades. *)
LEMMA OwnerInv ==
  ASSUME IInv, pc = "idle",
         \/ \E t \in Tokens \cup {NoToken} : emergencyWithdraw(t)
         \/ \E t \in Tokens, s \in Spenders : batchRevokeApprovals(t, s)
  PROVE  IInv'
  <1> USE DEF IInv
  <1>1. UNCHANGED <<status, pc, call, initiator, premium, balanceBefore, i, saved>>
    BY DEF emergencyWithdraw, batchRevokeApprovals
  <1>2. TypeOK'
    <2>1. ASSUME NEW t \in Tokens \cup {NoToken}, emergencyWithdraw(t) PROVE TypeOK'
      BY <1>1, <2>1 DEF TypeOK, emergencyWithdraw
    <2>2. ASSUME NEW t \in Tokens, NEW s \in Spenders, batchRevokeApprovals(t, s)
          PROVE  TypeOK'
      BY <1>1, <2>2 DEF TypeOK, batchRevokeApprovals
    <2>3. QED
      BY <2>1, <2>2
  <1>3. \A t \in Tokens, s \in Spenders : allowance[t][s] = 0
    BY DEF NoLingeringAllowance, TypeOK
  <1>4. \A t \in Tokens, s \in Spenders : allowance'[t][s] = 0
    BY <1>3 DEF TypeOK, emergencyWithdraw, batchRevokeApprovals
  <1>5. NoLingeringAllowance'
    BY <1>4 DEF NoLingeringAllowance
  <1>6. CallInv' /\ BeforeInv' /\ CheckedInv'
    BY <1>1 DEF CallInv, BeforeInv, CheckedInv, Operating, Checked
  <1>7. QED
    BY <1>2, <1>5, <1>6

-----------------------------------------------------------------------------
(* The contract starts with no allowance and no transaction. *)
LEMMA InitInv == Init => IInv
  <1> SUFFICES ASSUME Init PROVE IInv
    OBVIOUS
  <1>1. TypeOK
    BY ExecutorAssumption DEF Init, TypeOK, NoAllowance, Nothing
  <1>2. NoLingeringAllowance
    BY DEF Init, NoAllowance, NoLingeringAllowance
  <1>3. CallInv /\ BeforeInv /\ CheckedInv
    BY DEF Init, CallInv, BeforeInv, CheckedInv, Operating, Checked
  <1>4. QED
    BY <1>1, <1>2, <1>3 DEF IInv

(* Every action keeps the invariant. *)
LEMMA NextInv == IInv /\ [Next]_vars => IInv'
  <1> SUFFICES ASSUME IInv, [Next]_vars PROVE IInv'
    OBVIOUS
  <1>1. ASSUME NEW who \in {Owner, Stranger}, NEW c \in Requests, executeArbitrage(who, c)
        PROVE  IInv'
    BY <1>1, FlashLoanInv DEF executeArbitrage
  <1>2. ASSUME NEW c \in Requests \cup Unasked, ForeignLoan(c) PROVE IInv'
    BY <1>2, FlashLoanInv DEF ForeignLoan, IInv, TypeOK
  <1>3. CASE BeginOperation \/ StartLeg \/ EndLeg \/ PayMiner \/ EndOperation \/ Repay
    BY <1>3, BeginInv, StartLegInv, EndLegInv, PayMinerInv, EndOperationInv, RepayInv
  <1>4. CASE LegFails \/ MinerFails
    BY <1>4, RevertInv DEF LegFails, MinerFails, IInv
  <1>5. ASSUME NEW t \in Tokens \cup {NoToken}, emergencyWithdraw(t) PROVE IInv'
    BY <1>5, OwnerInv DEF emergencyWithdraw
  <1>6. ASSUME NEW t \in Tokens, NEW s \in Spenders,
               batchRevokeApprovals(t, s) \/ Pull(t, s)
        PROVE  IInv'
    BY <1>6, OwnerInv, ForeignInv DEF batchRevokeApprovals
  <1>7. CASE UNCHANGED vars
    BY <1>7 DEF vars, IInv, TypeOK, CallInv, NoLingeringAllowance, BeforeInv, CheckedInv,
       Leg, amountOwed
  <1>8. ASSUME NEW t \in Tokens, PayIn(t) PROVE IInv'
    BY <1>8, ForeignInv DEF Spenders
  <1>9. CASE PayEth
    BY <1>9, PayEthInv
  <1>10. CASE Trade
    BY <1>1, <1>2, <1>3, <1>4, <1>10 DEF Trade
  <1>11. QED
    BY <1>5, <1>6, <1>7, <1>8, <1>9, <1>10 DEF Next

(* The invariant holds in every reachable state. *)
LEMMA Invariance == Spec => []IInv
  BY InitInv, NextInv, PTL DEF Spec

-----------------------------------------------------------------------------
(* The types of all variables, for any requests, premiums and amounts.     *)
THEOREM TypeCorrect == Spec => []TypeOK
  <1>1. IInv => TypeOK
    BY DEF IInv
  <1>2. QED
    BY <1>1, Invariance, PTL

(* _runActions revokes what it approved: outside the leg it was given for, *)
(* and outside the repayment, no allowance of the contract is left.        *)
THEOREM AllowancesRevoked == Spec => []NoLingeringAllowance
  <1>1. IInv => NoLingeringAllowance
    BY DEF IInv
  <1>2. QED
    BY <1>1, Invariance, PTL

(* Once executeOperation has checked the profit, the pool can be repaid,   *)
(* whatever the coinbase does with the control it gets before that.        *)
THEOREM LoansRepayable == Spec => []Repayable
  <1>1. IInv => Repayable
    <2> SUFFICES ASSUME IInv, pc \in Checked PROVE balance[call.asset] >= amountOwed
      BY DEF Repayable, Checked
    <2> USE DEF IInv
    <2>1. balance[call.asset] >= balanceBefore + premium + call.minProfit
      BY DEF CheckedInv
    <2>2. balanceBefore = saved.balance[call.asset] + call.amount
      BY DEF BeforeInv, Operating, Checked
    <2>3. /\ call.asset \in Tokens /\ call.amount \in Nat /\ call.minProfit \in Nat
      BY RequestFields DEF Checked
    <2>4. /\ saved.balance[call.asset] \in Nat /\ balance[call.asset] \in Nat
          /\ premium \in Nat
      BY <2>3 DEF TypeOK
    <2>5. QED
      BY <2>1, <2>2, <2>3, <2>4 DEF amountOwed
  <1>2. QED
    BY <1>1, Invariance, PTL

-----------------------------------------------------------------------------
(* What is seen from outside a transaction. *)
SeenBalance == IF pc = "idle" THEN balance ELSE saved.balance
SeenEth == IF pc = "idle" THEN eth ELSE saved.eth

(* The completed repayment is where the trade takes effect. *)
LEMMA RepayTrades ==
  ASSUME IInv, Repay
  PROVE  UNCHANGED <<SeenBalance, SeenEth>> \/ \E c \in Requests : Promise!Trade(c)
  <1> USE DEF IInv
  <1>1. CASE Revert
    BY <1>1 DEF Revert, End, SeenBalance, SeenEth, Repay
  <1>2. CASE ~Revert
    <2>1. /\ balance' = [balance EXCEPT ![call.asset] = @ - amountOwed]
          /\ pc = "repay" /\ pc' = "idle" /\ eth' = eth
      BY <1>2 DEF Repay, End
    <2>2. /\ call \in Requests /\ call.asset \in Tokens /\ call.amount \in Nat
          /\ call.minProfit \in Nat /\ call.minerReward \in Nat
      BY <2>1, RequestFields DEF CallInv, Operating
    <2>3. /\ balance[call.asset] \in Nat /\ premium \in Nat
          /\ saved.balance[call.asset] \in Nat
      BY <2>2 DEF TypeOK
    <2>4. balance'[call.asset] = balance[call.asset] - (call.amount + premium)
      BY <2>1, <2>2 DEF TypeOK, amountOwed
    <2>5. /\ balance[call.asset] >= balanceBefore + premium + call.minProfit
          /\ eth + call.minerReward >= saved.eth
          /\ balanceBefore = saved.balance[call.asset] + call.amount
      BY <2>1 DEF CheckedInv, BeforeInv, Operating, Checked
    <2>6. balance'[call.asset] >= saved.balance[call.asset] + call.minProfit
      BY <2>2, <2>3, <2>4, <2>5
    <2>7. Promise!Trade(call)
      BY <2>1, <2>5, <2>6 DEF Promise!Trade
    <2>8. QED
      BY <2>2, <2>7
  <1>3. QED
    BY <1>1, <1>2

(* What others do changes nothing outside, or pays in. *)
LEMMA ForeignDeposits ==
  ASSUME IInv,
         \/ \E t \in Tokens, s \in Spenders : Pull(t, s)
         \/ \E t \in Tokens : PayIn(t)
         \/ PayEth
  PROVE  UNCHANGED <<SeenBalance, SeenEth>> \/ Promise!Deposit
  <1> USE DEF IInv
  <1>1. CASE pc # "idle"
    BY <1>1 DEF Pull, PayIn, PayEth, SeenBalance, SeenEth
  <1>2. CASE pc = "idle"
    <2>1. ASSUME NEW t \in Tokens, NEW s \in Spenders PROVE ~Pull(t, s)
      <3>1. allowance[t][s] \in Nat /\ ~(allowance[t][s] > 0)
        BY <1>2 DEF NoLingeringAllowance, TypeOK
      <3>2. balance[t] \in Nat
        BY DEF TypeOK
      <3>3. QED
        BY <3>1, <3>2 DEF Pull
    <2>2. ASSUME NEW t \in Tokens, PayIn(t) PROVE Promise!Deposit
      BY <1>2, <2>2 DEF PayIn, Promise!Deposit, TypeOK
    <2>3. CASE PayEth
      BY <1>2, <2>3 DEF PayEth, Promise!Deposit, TypeOK
    <2>4. QED
      BY <2>1, <2>2, <2>3
  <1>3. QED
    BY <1>1, <1>2

(* The contract implements the promise: between transactions the owner     *)
(* sees whole trades on agreed terms, withdrawals and deposits, and        *)
(* nothing of a transaction that reverted.                                 *)
THEOREM ExecutorImplementsPromise == Spec => TradesAreAtomic
  <1>1. Init => Promise!Init
    BY ExecutorAssumption DEF Init, Promise!Init
  <1>2. IInv /\ [Next]_vars => [Promise!Next]_<<SeenBalance, SeenEth>>
    <2> SUFFICES ASSUME IInv, [Next]_vars
                 PROVE  Promise!Next \/ UNCHANGED <<SeenBalance, SeenEth>>
      OBVIOUS
    <2> USE DEF SeenBalance, SeenEth
    <2>1. ASSUME NEW who \in {Owner, Stranger}, NEW c \in Requests, executeArbitrage(who, c)
          PROVE  UNCHANGED <<SeenBalance, SeenEth>>
      BY <2>1 DEF executeArbitrage, FlashLoan
    <2>2. ASSUME NEW c \in Requests \cup Unasked, ForeignLoan(c)
          PROVE  UNCHANGED <<SeenBalance, SeenEth>>
      BY <2>2 DEF ForeignLoan, FlashLoan
    <2>3. CASE BeginOperation \/ StartLeg \/ EndLeg \/ LegFails \/ PayMiner \/ MinerFails
               \/ EndOperation
      BY <2>3 DEF BeginOperation, StartLeg, EndLeg, LegFails, PayMiner, MinerFails,
         EndOperation, Revert, End
    <2>4. CASE Repay
      BY <2>4, RepayTrades DEF Promise!Next
    <2>5. ASSUME NEW t \in Tokens \cup {NoToken}, emergencyWithdraw(t)
          PROVE  Promise!Withdraw \/ Promise!WithdrawEth
      BY <2>5 DEF emergencyWithdraw, Promise!Withdraw, Promise!WithdrawEth
    <2>6. ASSUME NEW t \in Tokens, NEW s \in Spenders, batchRevokeApprovals(t, s)
          PROVE  UNCHANGED <<SeenBalance, SeenEth>>
      BY <2>6 DEF batchRevokeApprovals
    <2>7. CASE (\E t \in Tokens, s \in Spenders : Pull(t, s)) \/ (\E t \in Tokens : PayIn(t))
               \/ PayEth
      BY <2>7, ForeignDeposits DEF Promise!Next
    <2>8. CASE UNCHANGED vars
      BY <2>8 DEF vars
    <2>9. CASE Trade
      BY <2>1, <2>2, <2>3, <2>4, <2>9 DEF Trade
    <2>10. QED
      BY <2>5, <2>6, <2>7, <2>8, <2>9 DEF Next, Promise!Next
  <1>3. QED
    BY <1>1, <1>2, Invariance, PTL
       DEF Spec, TradesAreAtomic, Promise!Spec, SeenBalance, SeenEth

=============================================================================
