---------------------------- MODULE RelayerProofs ----------------------------
(***************************************************************************)
(* Proofs about Relayer for any number of relays and attempts, any opening *)
(* bids and increment.  The inductive invariant says which version each    *)
(* relay can have at most, and what the calls' states tell of it.          *)
(***************************************************************************)
EXTENDS Relayer, BidMathProofs

(* The bundle in hand is that of the attempt, or of an earlier one. *)
VersionInv ==
    /\ version <= attempt
    /\ pc \in {"submit", "posting"} => version = attempt
    /\ pc = "rebuild" => version < attempt

(* No relay has or will get anything newer. *)
FlightInv == \A r \in Relays : \A k \in wire[r] \cup held[r] : k <= version

(* A call that succeeds tells the truth. *)
CallInv == \A r \in Relays : call[r] \in {"taken", "Included"} => version \in held[r]

(* Between attempts all calls are over, and none of them succeeded. *)
Quiet(s) == s \in (Closed \ {"Included"}) \cup {"idle"}
QuietInv == pc \in {"submit", "rebuild"} => \A r \in Relays : Quiet(call[r])

(* An acceptance is the end, and is of the bundle in hand. *)
AcceptedInv ==
    /\ accepted # {} => pc = "done"
    /\ \A x \in accepted : x.attempt = version /\ version \in held[x.relay]

IInv == TypeOK /\ VersionInv /\ FlightInv /\ CallInv /\ QuietInv /\ AcceptedInv /\ BidsBounded

USE DEF Attempts, NoVersion, Closed, Quiet

-----------------------------------------------------------------------------
(* What an increment is good for, with the attempts' bounds. *)
LEMMA AttemptBounds ==
  ASSUME NEW o \in Nat, NEW k \in Attempts
  PROVE  /\ EscalatedReward(o, k) \in Nat
         /\ EscalatedReward(o, k) >= o
         /\ EscalatedReward(o, k) * 10000 <= o * (10000 + IncrementBps * (MaxAttempts - 1))
  <1> DEFINE last == MaxAttempts - 1
  <1>1. last \in Nat /\ k \in 0 .. last
    BY MaxAttemptsAssumption
  <1> HIDE DEF last
  <1>2. /\ EscalatedReward(o, k) \in Nat
        /\ EscalatedReward(o, k) >= o
        /\ EscalatedReward(o, k) * 10000 <= o * (10000 + IncrementBps * last)
    <2>1. EscalatedReward(o, k) \in Nat
      BY <1>1, RewardBounds, BpsAssumption
    <2>2. EscalatedReward(o, k) >= o
      BY <1>1, RewardBounds
    <2>3. EscalatedReward(o, k) * 10000 <= o * (10000 + IncrementBps * last)
      BY <1>1, RewardBounds
    <2>4. QED
      BY <2>1, <2>2, <2>3
  <1>3. QED
    BY <1>2 DEF last

-----------------------------------------------------------------------------
(* The end of an attempt: on to a later one, or done with the first bid. *)
LEMMA NextAttemptFacts ==
  ASSUME IInv, NEW ok \in BOOLEAN, NextAttempt(ok), pc \in {"submit", "posting"},
         UNCHANGED <<original_reward, version>>
  PROVE  /\ pc' \in {"rebuild", "done"} /\ (ok => pc' = "done")
         /\ attempt' \in Attempts
         /\ VersionInv'
         /\ miner_reward' \in Nat /\ BidsBounded'
  <1>1. CASE ok \/ attempt + 1 = MaxAttempts
    <2>1. pc' = "done" /\ miner_reward' = original_reward /\ attempt' = attempt
      BY <1>1 DEF NextAttempt
    <2>2. BidsBounded'
      <3>1. original_reward * 10000 <= original_reward * (10000 + IncrementBps * (MaxAttempts - 1))
        <4>1. MaxAttempts - 1 \in Nat
          BY MaxAttemptsAssumption
        <4>2. IncrementBps * (MaxAttempts - 1) \in Nat
          BY <4>1, BpsAssumption
        <4>3. 10000 + IncrementBps * (MaxAttempts - 1) \in Nat
          BY <4>2
        <4>4. 10000 <= 10000 + IncrementBps * (MaxAttempts - 1)
          BY <4>2
        <4>5. QED
          BY <4>3, <4>4, TimesMonotone DEF IInv, TypeOK
      <3>2. QED
        BY <2>1, <3>1 DEF IInv, TypeOK, BidsBounded
    <2>3. QED
      BY <2>1, <2>2 DEF IInv, TypeOK, VersionInv
  <1>2. CASE ~(ok \/ attempt + 1 = MaxAttempts)
    <2>1. pc' = "rebuild" /\ miner_reward' = miner_reward /\ attempt' = attempt + 1
      BY <1>2 DEF NextAttempt
    <2>2. attempt' \in Attempts
      BY <1>2, <2>1, MaxAttemptsAssumption DEF IInv, TypeOK
    <2>3. VersionInv'
      BY <2>1 DEF IInv, TypeOK, VersionInv
    <2>4. QED
      BY <1>2, <2>1, <2>2, <2>3 DEF IInv, TypeOK, BidsBounded
  <1>3. QED
    BY <1>1, <1>2

(* Every step of the bot keeps the invariant. *)
LEMMA BotInv ==
  ASSUME IInv, Bot
  PROVE  IInv'
  <1>1. CASE Submit
    <2>1. TypeOK' /\ VersionInv'
      BY <1>1 DEF Submit, IInv, TypeOK, VersionInv, worldVars
    <2>2. FlightInv' /\ CallInv' /\ QuietInv' /\ AcceptedInv' /\ BidsBounded'
      BY <1>1 DEF Submit, IInv, TypeOK, FlightInv, CallInv, QuietInv, AcceptedInv, BidsBounded
    <2>3. QED
      BY <2>1, <2>2 DEF IInv
  <1>2. CASE Abort
    <2>1. /\ pc' \in {"rebuild", "done"} /\ attempt' \in Attempts
          /\ VersionInv' /\ miner_reward' \in Nat /\ BidsBounded'
      BY <1>2, NextAttemptFacts DEF Abort
    <2>2. TypeOK'
      BY <1>2, <2>1 DEF Abort, IInv, TypeOK, worldVars
    <2>3. FlightInv' /\ CallInv' /\ QuietInv' /\ AcceptedInv'
      BY <1>2, <2>1 DEF Abort, IInv, FlightInv, CallInv, QuietInv, AcceptedInv, worldVars
    <2>4. QED
      BY <2>1, <2>2, <2>3 DEF IInv
  <1>3. CASE Join
    <2> DEFINE ok == \E r \in Relays : call[r] = "Included"
    <2>1. /\ pc' \in {"rebuild", "done"} /\ (ok => pc' = "done")
          /\ attempt' \in Attempts
          /\ VersionInv' /\ miner_reward' \in Nat /\ BidsBounded'
      BY <1>3, NextAttemptFacts DEF Join
    <2>2. version = attempt /\ accepted = {}
      BY <1>3 DEF Join, IInv, VersionInv, AcceptedInv
    <2>3. accepted' = {[attempt |-> version, relay |-> r] :
                          r \in {q \in Relays : call[q] = "Included"}}
      BY <1>3, <2>2 DEF Join
    <2>4. TypeOK'
      BY <1>3, <2>1, <2>3 DEF Join, IInv, TypeOK, worldVars
    <2>5. AcceptedInv'
      BY <1>3, <2>1, <2>3 DEF Join, IInv, AcceptedInv, CallInv, worldVars
    <2>6. FlightInv' /\ CallInv' /\ QuietInv'
      BY <1>3, <2>1 DEF Join, IInv, FlightInv, CallInv, QuietInv, worldVars
    <2>7. QED
      BY <2>1, <2>4, <2>5, <2>6 DEF IInv
  <1>4. CASE Rebuild
    <2>1. /\ EscalatedReward(original_reward, attempt) \in Nat
          /\ BidsBounded'
      BY <1>4, AttemptBounds DEF Rebuild, IInv, TypeOK, BidsBounded
    <2>2. TypeOK'
      BY <1>4, <2>1 DEF Rebuild, IInv, TypeOK, worldVars
    <2>3. VersionInv'
      BY <1>4 DEF Rebuild, IInv, TypeOK, VersionInv
    <2>4. FlightInv'
      BY <1>4 DEF Rebuild, IInv, TypeOK, VersionInv, FlightInv, worldVars
    <2>5. CallInv' /\ QuietInv' /\ AcceptedInv'
      BY <1>4 DEF Rebuild, IInv, CallInv, QuietInv, AcceptedInv, worldVars
    <2>6. QED
      BY <2>1, <2>2, <2>3, <2>4, <2>5 DEF IInv
  <1>5. CASE RebuildFails
    <2>1. /\ TypeOK' /\ VersionInv' /\ FlightInv' /\ CallInv' /\ QuietInv'
          /\ AcceptedInv'
      BY <1>5 DEF RebuildFails, IInv, TypeOK, VersionInv, FlightInv, CallInv, QuietInv,
         AcceptedInv, worldVars
    <2>2. BidsBounded'
      <3>1. 0 \in Attempts /\ EscalatedReward(original_reward, 0) >= original_reward
        BY AttemptBounds, MaxAttemptsAssumption DEF IInv, TypeOK
      <3>2. EscalatedReward(original_reward, 0) * 10000
                <= original_reward * (10000 + IncrementBps * (MaxAttempts - 1))
        BY <3>1, AttemptBounds DEF IInv, TypeOK
      <3>3. EscalatedReward(original_reward, 0) = original_reward
        BY BpsAssumption DEF EscalatedReward, IInv, TypeOK
      <3>4. QED
        BY <1>5, <3>2, <3>3 DEF RebuildFails, BidsBounded, IInv, TypeOK
    <2>3. QED
      BY <2>1, <2>2 DEF IInv
  <1>6. QED
    BY <1>1, <1>2, <1>3, <1>4, <1>5 DEF Bot

(* So does every step of a task, a relay or the chain. *)
LEMMA WorldInv ==
  ASSUME IInv, (\E r \in Relays : Client(r)) \/ World
  PROVE  IInv'
  <1>1. ASSUME NEW r \in Relays, Client(r) PROVE IInv'
    <2>1. UNCHANGED <<relayerVars, worldVars>>
      BY <1>1 DEF Client, Reply, Fail
    <2>2. PICK s \in {"Included", "SimulationFailed", "RelayError"} :
             /\ call' = [call EXCEPT ![r] = s]
             /\ s = "Included" => call[r] = "taken"
             /\ ~Quiet(call[r])
      BY <1>1 DEF Client, Reply, Fail
    <2>3. TypeOK' /\ VersionInv' /\ FlightInv' /\ AcceptedInv' /\ BidsBounded'
      BY <2>1, <2>2 DEF relayerVars, worldVars, IInv, TypeOK, VersionInv, FlightInv, AcceptedInv,
         BidsBounded
    <2>4. CallInv' /\ QuietInv'
      BY <2>1, <2>2 DEF relayerVars, worldVars, IInv, TypeOK, CallInv, QuietInv
    <2>5. QED
      BY <2>3, <2>4 DEF IInv
  <1>2. ASSUME NEW r \in Relays, Take(r) \/ Turn(r) PROVE IInv'
    <2>1. PICK v \in wire[r], s \in {"taken", "refused"} :
             /\ wire' = [wire EXCEPT ![r] = @ \ {v}]
             /\ held' = IF s = "taken" THEN [held EXCEPT ![r] = @ \cup {v}] ELSE held
             /\ Handled(r, v, s)
      BY <1>2 DEF Take, Turn
    <2>2. UNCHANGED <<relayerVars, head, landed>>
      BY <1>2 DEF Take, Turn
    <2>3. TypeOK'
      BY <2>1, <2>2 DEF relayerVars, Handled, IInv, TypeOK
    <2>4. FlightInv' /\ CallInv'
      BY <2>1, <2>2 DEF relayerVars, Handled, IInv, TypeOK, FlightInv, CallInv
    <2>5. VersionInv' /\ QuietInv' /\ AcceptedInv' /\ BidsBounded'
      BY <2>1, <2>2 DEF relayerVars, Handled, IInv, TypeOK, VersionInv, QuietInv, AcceptedInv,
         BidsBounded
    <2>6. QED
      BY <2>3, <2>4, <2>5 DEF IInv
  <1>3. CASE Block
    <2>1. UNCHANGED <<relayerVars, call, wire, held>>
      BY <1>3 DEF Block
    <2>2. TypeOK'
      BY <1>3, <2>1 DEF Block, relayerVars, IInv, TypeOK
    <2>3. QED
      BY <2>1, <2>2 DEF relayerVars, IInv, VersionInv, FlightInv, CallInv, QuietInv, AcceptedInv,
         BidsBounded
  <1>4. QED
    BY <1>1, <1>2, <1>3 DEF World

-----------------------------------------------------------------------------
LEMMA InitInv ==
  ASSUME Init
  PROVE  IInv
  <1>1. TypeOK
    BY MaxAttemptsAssumption, OpeningsAssumption, TargetAssumption DEF Init, TypeOK
  <1>2. BidsBounded
    <2>1. 0 \in Attempts
      BY MaxAttemptsAssumption
    <2>2. EscalatedReward(original_reward, 0) = original_reward
      BY <1>1, BpsAssumption DEF EscalatedReward, TypeOK
    <2>3. QED
      BY <1>1, <2>1, <2>2, AttemptBounds DEF Init, BidsBounded, TypeOK
  <1>3. QED
    BY <1>1, <1>2 DEF Init, IInv, VersionInv, FlightInv, CallInv, QuietInv, AcceptedInv

LEMMA Invariance == Spec => []IInv
  <1>1. IInv /\ [Next]_vars => IInv'
    <2>1. IInv /\ UNCHANGED vars => IInv'
      BY DEF vars, relayerVars, worldVars, IInv, TypeOK, VersionInv, FlightInv, CallInv, QuietInv,
         AcceptedInv, BidsBounded
    <2>2. QED
      BY <2>1, BotInv, WorldInv DEF Next
  <1>2. QED
    BY <1>1, InitInv, PTL DEF Spec

(* Every variable keeps its type. *)
THEOREM TypeCorrect == Spec => []TypeOK
  BY Invariance, PTL DEF IInv

(* The bot never bids against itself knowingly: an acceptance ends the     *)
(* bidding, and no relay has or will get a later version than the accepted *)
(* one.                                                                    *)
THEOREM AcceptanceIsFinal == Spec => []AcceptanceEndsBidding
  <1>1. IInv => AcceptanceEndsBidding
    BY DEF IInv, FlightInv, AcceptedInv, AcceptanceEndsBidding
  <1>2. QED
    BY <1>1, Invariance, PTL

(* Increments do not compound: every bid lies between the opening one and  *)
(* MaxAttempts - 1 increments of it.                                       *)
THEOREM BidsStayBounded == Spec => []BidsBounded
  BY Invariance, PTL DEF IInv

(* A bid is raised only when every call is over and none succeeded. *)
THEOREM RaisesFollowRefusals == Spec => RaisedOverRefusals
  <1>1. IInv /\ [Next]_vars =>
          [version' # version =>
             \A r \in Relays : call[r] \in (Closed \ {"Included"}) \cup {"idle"}]_vars
    <2> SUFFICES ASSUME IInv, [Next]_vars, version' # version
                 PROVE  \A r \in Relays : Quiet(call[r])
      OBVIOUS
    <2>1. pc = "rebuild"
      BY DEF Next, Bot, Submit, Abort, Join, Rebuild, RebuildFails, Client, Reply, Fail, World, Take,
         Turn, Block, vars, relayerVars
    <2>2. QED
      BY <2>1 DEF IInv, QuietInv
  <1>2. QED
    BY <1>1, Invariance, PTL DEF Spec, RaisedOverRefusals

=============================================================================
