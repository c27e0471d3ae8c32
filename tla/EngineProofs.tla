---------------------------- MODULE EngineProofs ----------------------------
(***************************************************************************)
(* Proofs about Engine and about PnlLog, the database it logs to, for any  *)
(* opportunities, profits, fees, threads and bounds.                       *)
(* IInv, of Engine, says where an opportunity can be under the kill switch *)
(* or in a dry run, that the sums of logged profits never fall before a    *)
(* conversion wraps, and what a row was computed from.  LogInv, of PnlLog, *)
(* says who holds the mutex and that the sums that were answered stay      *)
(* right.                                                                  *)
(***************************************************************************)
EXTENDS Engine, PnlLog, BidMathProofs, SequenceTheorems

(* Places before anything is sent. *)
Early == {"new", "queued", "lost", "dropped", "routes", "chain", "simulate", "nonce", "sign"}
EarlyInv ==
    \A o \in Opps :
        pc[o] \in Early => posted[o] = {} /\ landed[o] = NoVersion /\ rows[o] = NoRow

(* Neither the kill switch nor a dry run lets a task go on. *)
SwitchInv ==
    /\ late # {} => kill
    /\ \A o \in late : pc[o] \in {"new", "queued", "lost", "dropped"}
    /\ dry_run => \A o \in Opps : pc[o] \notin {"post", "answer", "log"}

(* The channel holds waiting opportunities, once each. *)
QueueInv ==
    /\ \A i \in DOMAIN queue : pc[queue[i]] = "queued"
    /\ \A i, j \in DOMAIN queue : queue[i] = queue[j] => i = j

(* The sums only grow, until a conversion wraps and a loss is logged. *)
LossLogged == \E o \in Opps : rows[o] # NoRow /\ rows[o].net < 0
SumsGrow == \A i, j \in DOMAIN totals : i <= j => totals[i] <= totals[j]
SumsInv == LossLogged \/ SumsGrow

(* A task past its bid has one, and its row was computed from it. *)
PricedInv ==
    \A o \in Opps :
        pc[o] \in {"nonce", "sign", "post", "answer", "log"} => Bid(o).miner_reward # 0
RowFits(o) ==
    rows[o] # NoRow =>
        pc[o] = "done" /\ rows[o].net = Signed(LoggedNet(o)) /\ Bid(o).miner_reward # 0
RowInv == \A o \in Opps : RowFits(o)

IInv ==
    /\ TypeOK /\ EarlyInv /\ SwitchInv /\ SilentWhenTold /\ QueueInv /\ SumsInv
    /\ PricedInv /\ RowInv

USE DEF NoVersion

Places ==
    {"new", "queued", "routes", "chain", "simulate", "nonce", "sign", "post", "answer", "log",
     "lost", "dropped", "done"}

-----------------------------------------------------------------------------
(* The conversion to i128, and the cast of the database. *)
LEMMA SignedFacts ==
  ASSUME NEW n \in Int
  PROVE  /\ Signed(n) \in Int /\ Cast(Signed(n)) \in Int
         /\ Signed(n) >= 0 => Cast(Signed(n)) >= 0
         /\ n \in -I128 .. I128 - 1 => Signed(n) = n
  <1>1. I128 \in Nat /\ I128 > 0 /\ MaxInt \in Nat
    BY EngineAssumption, IntegerAssumption
  <1>2. 2 * I128 \in Nat /\ 2 * I128 > 0 /\ n + I128 \in Int
    BY <1>1
  <1>3. \A a \in Int : \A m \in Nat : m > 0 => a % m \in 0 .. m - 1
    OBVIOUS
  <1>4. \A m \in Nat : \A a \in 0 .. m - 1 : a % m = a
    OBVIOUS
  <1>5. (n + I128) % (2 * I128) \in 0 .. 2 * I128 - 1
    BY <1>2, <1>3
  <1>6. Signed(n) \in Int
    BY <1>1, <1>5 DEF Signed
  <1>7. Cast(Signed(n)) \in Int /\ (Signed(n) >= 0 => Cast(Signed(n)) >= 0)
    BY <1>1, <1>6 DEF Cast
  <1>8. ASSUME n \in -I128 .. I128 - 1 PROVE Signed(n) = n
    <2>1. n + I128 \in 0 .. 2 * I128 - 1
      BY <1>1, <1>8
    <2>2. (n + I128) % (2 * I128) = n + I128
      BY <1>2, <1>4, <2>1
    <2>3. QED
      BY <1>1, <2>2 DEF Signed
  <1>9. QED
    BY <1>6, <1>7, <1>8

(* What is logged of a profit. *)
LEMMA LoggedFacts ==
  ASSUME TypeOK, NEW o \in Opps
  PROVE  /\ gross[o] \in Nat /\ fee[o] \in Nat /\ FloorBps \in Nat /\ GasUsed \in Nat
         /\ Bid(o).miner_reward \in Nat /\ Bid(o).min_profit \in Nat
         /\ GasUsed * fee[o] \in Nat
         /\ LoggedNet(o) \in Nat
         /\ LoggedNet(o) <= gross[o]
  <1>1. gross[o] \in Nat /\ fee[o] \in Nat /\ FloorBps \in Nat /\ GasUsed \in Nat
    BY EngineAssumption DEF TypeOK
  <1>2. Decide(FloorBps, gross[o], fee[o], GasUsed).miner_reward \in Nat
    BY <1>1, BidTypes
  <1>3. Decide(FloorBps, gross[o], fee[o], GasUsed).min_profit \in Nat
    BY <1>1, BidTypes
  <1>4. GasUsed * fee[o] \in Nat
    BY <1>1
  <1>5. Bid(o).miner_reward \in Nat /\ Bid(o).min_profit \in Nat
    BY <1>2, <1>3 DEF Bid
  <1>6. QED
    BY <1>1, <1>4, <1>5 DEF LoggedNet, Higher

(* The sum over a window is an integer, and no loss unless one was logged. *)
LEMMA WindowFacts ==
  ASSUME IInv
  PROVE  rolling_pnl \in Int /\ (LossLogged \/ rolling_pnl >= 0)
  <1>1. Len(totals) \in DOMAIN totals /\ oldest + 1 \in DOMAIN totals /\ oldest + 1 <= Len(totals)
    BY DEF IInv, TypeOK
  <1>2. LossLogged \/ totals[oldest + 1] <= totals[Len(totals)]
    BY <1>1 DEF IInv, SumsInv, SumsGrow
  <1>3. totals[oldest + 1] \in Int /\ totals[Len(totals)] \in Int
    BY <1>1 DEF IInv, TypeOK
  <1>4. rolling_pnl = totals[Len(totals)] - totals[oldest + 1] \/ rolling_pnl = 0
    BY DEF rolling_pnl
  <1>5. QED
    BY <1>2, <1>3, <1>4

(* The threshold is no profit, unless the limit wraps. *)
LEMMA ThresholdFacts ==
  ASSUME TypeOK
  PROVE  /\ Signed(-max_loss) \in Int
         /\ max_loss <= I128 => Signed(-max_loss) <= 0
  <1>1. I128 \in Nat \ {0} /\ max_loss \in 0 .. 2 * I128 - 1 /\ -max_loss \in Int
    BY EngineAssumption DEF TypeOK
  <1>2. Signed(-max_loss) \in Int
    BY <1>1, SignedFacts
  <1>3. ASSUME max_loss <= I128 PROVE Signed(-max_loss) <= 0
    <2>1. -max_loss \in -I128 .. I128 - 1
      BY <1>1, <1>3
    <2>2. Signed(-max_loss) = -max_loss
      BY <1>1, <2>1, SignedFacts
    <2>3. QED
      BY <1>1, <2>2
  <1>4. QED
    BY <1>2, <1>3

(* The breaker sets the kill switch only where something wrapped. *)
LEMMA BreakerStep ==
  ASSUME IInv, Breaker, kill' # kill
  PROVE  max_loss > I128 \/ LossLogged
  <1>1. rolling_pnl < Signed(-max_loss)
    BY DEF Breaker, IInv, TypeOK
  <1>2. rolling_pnl \in Int /\ (LossLogged \/ rolling_pnl >= 0)
    BY WindowFacts
  <1>3. Signed(-max_loss) \in Int /\ (max_loss <= I128 => Signed(-max_loss) <= 0)
    BY ThresholdFacts DEF IInv
  <1>4. max_loss \in Int /\ I128 \in Int
    BY EngineAssumption DEF IInv, TypeOK
  <1>5. QED
    BY <1>1, <1>2, <1>3, <1>4

(* Nothing but the breaker sets the kill switch, and nothing the mode. *)
LEMMA SwitchesFixed ==
  ASSUME Next
  PROVE  /\ UNCHANGED <<dry_run, max_loss>>
         /\ Breaker \/ UNCHANGED <<kill, late>>
  <1>1. CASE Breaker
    BY <1>1 DEF Breaker
  <1>2. CASE Recv \/ WindowSlides \/ Seal \/ Halted
    BY <1>2 DEF Recv, WindowSlides, Seal, Halted, vars, modeVars
  <1>3. ASSUME NEW o \in Opps, Arrive(o) \/ Ask(o) \/ Work(o) \/ Land(o)
        PROVE  UNCHANGED <<dry_run, max_loss, kill, late>>
    BY <1>3 DEF Arrive, Ask, Work, Land, FindRoute, ReadChain, Simulate, TakeNonce, Sign, Post,
       Accepted, NotAccepted, Log, LogPanics, modeVars
  <1>4. QED
    BY <1>1, <1>2, <1>3 DEF Next

-----------------------------------------------------------------------------
(* Sequences that grow at the end and shrink at the front. *)
LEMMA AppendFacts ==
  ASSUME NEW S, NEW s \in Seq(S), NEW e \in S
  PROVE  /\ Append(s, e) \in Seq(S) /\ Len(Append(s, e)) = Len(s) + 1
         /\ DOMAIN Append(s, e) = 1 .. Len(s) + 1
         /\ \A i \in 1 .. Len(s) : Append(s, e)[i] = s[i]
         /\ Append(s, e)[Len(s) + 1] = e
  <1>1. /\ Append(s, e) \in Seq(S) /\ Len(Append(s, e)) = Len(s) + 1
        /\ \A i \in 1 .. Len(s) : Append(s, e)[i] = s[i]
        /\ Append(s, e)[Len(s) + 1] = e
    BY AppendProperties
  <1>2. DOMAIN Append(s, e) = 1 .. Len(Append(s, e))
    BY <1>1, LenProperties
  <1>3. QED
    BY <1>1, <1>2

LEMMA TailFacts ==
  ASSUME NEW S, NEW s \in Seq(S), s # <<>>
  PROVE  /\ Head(s) = s[1] /\ Head(s) \in S /\ Tail(s) \in Seq(S)
         /\ Len(s) \in Nat \ {0} /\ DOMAIN s = 1 .. Len(s)
         /\ DOMAIN Tail(s) = 1 .. Len(s) - 1
         /\ \A i \in 1 .. Len(s) - 1 : Tail(s)[i] = s[i + 1]
  <1>1. /\ Head(s) \in S /\ Tail(s) \in Seq(S) /\ Len(Tail(s)) = Len(s) - 1
        /\ \A i \in 1 .. Len(Tail(s)) : Tail(s)[i] = s[i + 1]
    BY HeadTailProperties
  <1>2. DOMAIN Tail(s) = 1 .. Len(Tail(s)) /\ DOMAIN s = 1 .. Len(s)
    BY <1>1, LenProperties
  <1>3. Len(s) \in Nat \ {0} /\ Head(s) = s[1]
    BY EmptySeq
  <1>4. QED
    BY <1>1, <1>2, <1>3

(* Where an opportunity goes next is a place. *)
LEMMA PlaceStep ==
  ASSUME TypeOK, NEW o \in Opps, NEW label \in Places, Goto(o, label)
  PROVE  pc' \in [Opps -> Places] /\ pc' = [pc EXCEPT ![o] = label]
  BY DEF TypeOK, Goto, Places, Ended

(* Each step keeps the types. *)
LEMMA TypeStep ==
  ASSUME IInv, Next
  PROVE  TypeOK'
  <1> DEFINE PcType == pc \in [Opps -> Places]
  <1>0. TypeOK
    BY DEF IInv
  <1>1. ASSUME NEW o \in Opps, Arrive(o) PROVE TypeOK'
    <2>1. PcType'
      BY <1>0, <1>1, PlaceStep DEF Arrive, Places
    <2>2. queue' \in Seq(Opps)
      <3>1. queue \in Seq(Opps) /\ (queue' = queue \/ queue' = Append(queue, o))
        BY <1>0, <1>1 DEF Arrive, TypeOK
      <3>2. Append(queue, o) \in Seq(Opps)
        BY <3>1, AppendProperties
      <3>3. QED
        BY <3>1, <3>2
    <2>3. UNCHANGED <<modeVars, localVars, next_nonce, dbVars, posted, chainVars>>
      BY <1>1 DEF Arrive
    <2>4. QED
      BY <1>0, <2>1, <2>2, <2>3 DEF TypeOK, Places, Ended, modeVars, localVars, dbVars, chainVars
  <1>2. CASE Recv
    <2>1. Head(queue) \in Opps /\ queue' \in Seq(Opps)
      BY <1>0, <1>2, TailFacts DEF Recv, TypeOK
    <2>2. PcType'
      BY <1>0, <1>2, <2>1, PlaceStep DEF Recv, Places
    <2>3. UNCHANGED <<modeVars, localVars, next_nonce, dbVars, posted, chainVars>>
      BY <1>2 DEF Recv
    <2>4. QED
      BY <1>0, <2>1, <2>2, <2>3 DEF TypeOK, Places, Ended, modeVars, localVars, dbVars, chainVars
  <1>3. ASSUME NEW o \in Opps, FindRoute(o) \/ Sign(o) PROVE TypeOK'
    <2>1. PcType'
      BY <1>0, <1>3, PlaceStep DEF FindRoute, Sign, Places
    <2>2. UNCHANGED <<modeVars, queue, localVars, next_nonce, dbVars, posted, chainVars>>
      BY <1>3 DEF FindRoute, Sign
    <2>3. QED
      BY <1>0, <2>1, <2>2 DEF TypeOK, Places, Ended, modeVars, localVars, dbVars, chainVars
  <1>4. ASSUME NEW o \in Opps, ReadChain(o) PROVE TypeOK'
    <2>1. PcType'
      BY <1>0, <1>4, PlaceStep DEF ReadChain, Places
    <2>2. block' \in [Opps -> Nat]
      BY <1>0, <1>4 DEF ReadChain, TypeOK
    <2>3. fee' \in [Opps -> Nat]
      <3>1. NodeFees \cup {FallbackFee} \subseteq Nat
        BY EngineAssumption
      <3>2. QED
        BY <1>0, <1>4, <3>1 DEF ReadChain, TypeOK
    <2>4. UNCHANGED <<modeVars, queue, gross, nonce, attempt, included, next_nonce, dbVars,
                      posted, chainVars>>
      BY <1>4 DEF ReadChain
    <2>5. QED
      BY <1>0, <2>1, <2>2, <2>3, <2>4 DEF TypeOK, Places, Ended, modeVars, dbVars, chainVars
  <1>5. ASSUME NEW o \in Opps, Simulate(o) PROVE TypeOK'
    <2>1. PICK profit \in Profits[o] \cup {0} :
            /\ gross' = [gross EXCEPT ![o] = profit]
            /\ Goto(o, IF Decide(FloorBps, profit, fee[o], GasUsed).miner_reward = 0
                       THEN "done" ELSE "nonce")
      BY <1>5 DEF Simulate
    <2>2. PcType'
      BY <1>0, <2>1, PlaceStep DEF Places
    <2>3. gross' \in [Opps -> Nat]
      BY <1>0, <2>1, EngineAssumption DEF TypeOK
    <2>4. UNCHANGED <<modeVars, queue, block, fee, nonce, attempt, included, next_nonce,
                      dbVars, posted, chainVars>>
      BY <1>5 DEF Simulate
    <2>5. QED
      BY <1>0, <2>2, <2>3, <2>4 DEF TypeOK, Places, Ended, modeVars, dbVars, chainVars
  <1>6. ASSUME NEW o \in Opps, TakeNonce(o) PROVE TypeOK'
    <2>1. PcType'
      BY <1>0, <1>6, PlaceStep DEF TakeNonce, Places
    <2>2. nonce' \in [Opps -> Nat] /\ next_nonce' \in Nat
      BY <1>0, <1>6 DEF TakeNonce, TypeOK
    <2>3. UNCHANGED <<modeVars, queue, block, fee, gross, attempt, included, dbVars, posted,
                      chainVars>>
      BY <1>6 DEF TakeNonce
    <2>4. QED
      BY <1>0, <2>1, <2>2, <2>3 DEF TypeOK, Places, Ended, modeVars, dbVars, chainVars
  <1>7. ASSUME NEW o \in Opps, Post(o) PROVE TypeOK'
    <2>1. PcType'
      BY <1>0, <1>7, PlaceStep DEF Post, Places
    <2>2. posted' \in [Opps -> SUBSET (0 .. MaxAttempts - 1)]
      <3> DEFINE versions == 0 .. MaxAttempts - 1
      <3>1. /\ posted \in [Opps -> SUBSET versions] /\ attempt[o] \in versions
            /\ posted' = posted \/ posted' = [posted EXCEPT ![o] = posted[o] \cup {attempt[o]}]
        BY <1>0, <1>7 DEF Post, TypeOK
      <3> HIDE DEF versions
      <3>2. posted' \in [Opps -> SUBSET versions]
        BY <3>1
      <3>3. QED
        BY <3>2 DEF versions
    <2>3. UNCHANGED <<modeVars, queue, localVars, next_nonce, dbVars, chainVars>>
      BY <1>7 DEF Post
    <2>4. QED
      BY <1>0, <2>1, <2>2, <2>3 DEF TypeOK, Places, Ended, modeVars, localVars, dbVars, chainVars
  <1>8. ASSUME NEW o \in Opps, Accepted(o) PROVE TypeOK'
    <2>1. PcType'
      BY <1>0, <1>8, PlaceStep DEF Accepted, Places
    <2>2. included' \in [Opps -> BOOLEAN]
      BY <1>0, <1>8 DEF Accepted, TypeOK
    <2>3. UNCHANGED <<modeVars, queue, block, fee, gross, nonce, attempt, next_nonce, dbVars,
                      posted, chainVars>>
      BY <1>8 DEF Accepted
    <2>4. QED
      BY <1>0, <2>1, <2>2, <2>3 DEF TypeOK, Places, Ended, modeVars, dbVars, chainVars
  <1>9. ASSUME NEW o \in Opps, NotAccepted(o) PROVE TypeOK'
    <2>1. PcType'
      BY <1>0, <1>9, PlaceStep DEF NotAccepted, Places
    <2>2. attempt' \in [Opps -> 0 .. MaxAttempts - 1]
      <3> DEFINE versions == 0 .. MaxAttempts - 1
      <3>1. attempt \in [Opps -> versions] /\ attempt[o] \in Nat /\ MaxAttempts \in Nat
        BY <1>0, EngineAssumption DEF TypeOK
      <3>2. \/ attempt' = attempt
            \/ attempt[o] + 1 < MaxAttempts /\ attempt' = [attempt EXCEPT ![o] = attempt[o] + 1]
        BY <1>9 DEF NotAccepted
      <3>3. attempt[o] + 1 < MaxAttempts => attempt[o] + 1 \in versions
        BY <3>1
      <3> HIDE DEF versions
      <3>4. attempt' \in [Opps -> versions]
        BY <3>1, <3>2, <3>3
      <3>5. QED
        BY <3>4 DEF versions
    <2>3. UNCHANGED <<modeVars, queue, block, fee, gross, nonce, included, next_nonce, dbVars,
                      posted, chainVars>>
      BY <1>9 DEF NotAccepted
    <2>4. QED
      BY <1>0, <2>1, <2>2, <2>3 DEF TypeOK, Places, Ended, modeVars, dbVars, chainVars
  <1>10. ASSUME NEW o \in Opps, Log(o) PROVE TypeOK'
    <2>1. PcType'
      BY <1>0, <1>10, PlaceStep DEF Log, Places
    <2>2. Bid(o).miner_reward \in Nat /\ Signed(LoggedNet(o)) \in Int /\ Cast(Signed(LoggedNet(o))) \in Int
      <3>1. Bid(o).miner_reward \in Nat /\ LoggedNet(o) \in Int
        BY <1>0, LoggedFacts
      <3>2. QED
        BY <3>1, SignedFacts
    <2>3. rows' \in [Opps -> {NoRow} \cup
                        [status : {"INCLUDED", "SUBMITTED"}, reward : Nat, net : Int]]
      <3> DEFINE row == [status |-> IF included[o] THEN "INCLUDED" ELSE "SUBMITTED",
                         reward |-> Bid(o).miner_reward, net |-> Signed(LoggedNet(o))]
      <3>1. row \in [status : {"INCLUDED", "SUBMITTED"}, reward : Nat, net : Int]
        BY <2>2
      <3>2. rows' = rows \/ rows' = [rows EXCEPT ![o] = row]
        BY <1>10 DEF Log
      <3> HIDE DEF row
      <3>3. QED
        BY <1>0, <3>1, <3>2 DEF TypeOK
    <2>4. totals' \in Seq(Int) /\ totals' # <<>> /\ oldest' \in 0 .. Len(totals') - 1
      <3>1. totals \in Seq(Int) /\ Len(totals) \in Nat \ {0} /\ oldest \in 0 .. Len(totals) - 1
        BY <1>0, EmptySeq DEF TypeOK
      <3>2. totals[Len(totals)] + Cast(Signed(LoggedNet(o))) \in Int
        BY <2>2, <3>1, ElementOfSeq
      <3>3. oldest' = oldest
        BY <1>10 DEF Log
      <3>4. CASE totals' = totals
        BY <1>0, <3>3, <3>4 DEF TypeOK
      <3>5. CASE totals' = Append(totals, totals[Len(totals)] + Cast(Signed(LoggedNet(o))))
        <4>1. totals' \in Seq(Int) /\ Len(totals') = Len(totals) + 1
          BY <3>1, <3>2, <3>5, AppendFacts
        <4>2. QED
          BY <3>1, <3>3, <4>1
      <3>6. QED
        BY <1>10, <3>4, <3>5 DEF Log
    <2>5. UNCHANGED <<modeVars, queue, localVars, next_nonce, posted, chainVars>>
      BY <1>10 DEF Log
    <2>6. QED
      BY <1>0, <2>1, <2>3, <2>4, <2>5 DEF TypeOK, Places, Ended, modeVars, localVars, chainVars
  <1>11. CASE Breaker
    <2>1. kill' \in BOOLEAN
      <3>1. kill' = (kill \/ rolling_pnl < Signed(-max_loss))
        BY <1>11 DEF Breaker
      <3>2. QED
        BY <3>1
    <2>2. late' \subseteq Opps
      BY <1>0, <1>11 DEF Breaker, Untaken, TypeOK
    <2>3. UNCHANGED <<running, dry_run, max_loss, queue, pc, localVars, next_nonce, dbVars, posted,
                      chainVars>>
      BY <1>11 DEF Breaker
    <2>4. QED
      BY <1>0, <2>1, <2>2, <2>3 DEF TypeOK, localVars, dbVars, chainVars
  <1>12. CASE WindowSlides
    <2>1. oldest' \in 0 .. Len(totals) - 1
      BY <1>0, <1>12 DEF WindowSlides, TypeOK
    <2>2. UNCHANGED <<modeVars, queue, pc, localVars, next_nonce, rows, totals, posted, chainVars>>
      BY <1>12 DEF WindowSlides
    <2>3. QED
      BY <1>0, <2>1, <2>2 DEF TypeOK, localVars, chainVars, modeVars
  <1>13. ASSUME NEW o \in Opps, Land(o) PROVE TypeOK'
    <2>1. ASSUME NEW v \in posted[o], NEW extra \in Extras, NEW cost \in GasCosts
          PROVE  Bid(o).min_profit + extra - EscalatedReward(Bid(o).miner_reward, v) - cost \in Int
      <3>1. Bid(o).min_profit \in Nat /\ Bid(o).miner_reward \in Nat /\ MaxAttempts - 1 \in Nat
        BY <1>0, LoggedFacts, EngineAssumption
      <3>2. PICK last \in Nat : last = MaxAttempts - 1
        BY <3>1
      <3>3. PICK bid \in Nat : bid = Bid(o).miner_reward
        BY <3>1
      <3>4. EscalatedReward(bid, v) \in Nat
        <4>1. PICK k \in 0 .. last : k = v
          BY <1>0, <3>2 DEF TypeOK
        <4>2. EscalatedReward(bid, k) \in Nat
          BY RewardBounds
        <4>3. QED
          BY <4>1, <4>2
      <3>5. extra \in Nat /\ cost \in Nat
        BY EngineAssumption
      <3>6. QED
        BY <3>1, <3>3, <3>4, <3>5
    <2>2. landed' \in [Opps -> 0 .. MaxAttempts - 1 \cup {NoVersion}]
      BY <1>0, <1>13 DEF Land, TypeOK
    <2>3. realised' \in [Opps -> Int] /\ count' \in Nat
      BY <1>0, <1>13, <2>1 DEF Land, TypeOK
    <2>4. UNCHANGED <<modeVars, queue, pc, localVars, next_nonce, dbVars, posted, head>>
      BY <1>13 DEF Land
    <2>5. QED
      BY <1>0, <2>2, <2>3, <2>4 DEF TypeOK, localVars, dbVars, modeVars
  <1>14. CASE Seal
    BY <1>0, <1>14 DEF Seal, TypeOK, localVars, dbVars, modeVars
  <1>15. ASSUME NEW o \in Opps, LogPanics(o) PROVE TypeOK'
    BY <1>0, <1>15 DEF LogPanics, TypeOK, localVars, dbVars, chainVars
  <1>16. CASE Halted
    BY <1>0, <1>16 DEF Halted, TypeOK, vars, modeVars, localVars, dbVars, chainVars
  <1>17. QED
    BY <1>1, <1>2, <1>3, <1>4, <1>5, <1>6, <1>7, <1>8, <1>9, <1>10, <1>11, <1>12, <1>13, <1>14,
       <1>15, <1>16
    DEF Next, Ask, Work

(* The channel stays one of waiting opportunities. *)
LEMMA QueueStep ==
  ASSUME IInv, Next
  PROVE  QueueInv'
  <1>0. /\ queue \in Seq(Opps) /\ DOMAIN queue = 1 .. Len(queue) /\ Len(queue) \in Nat
        /\ pc \in [Opps -> Places] /\ QueueInv
        /\ \A i \in DOMAIN queue : queue[i] \in Opps
    BY LenProperties, ElementOfSeq DEF IInv, TypeOK, Places, Ended
  <1>1. ASSUME NEW o \in Opps, Arrive(o) PROVE QueueInv'
    <2>1. \A i \in DOMAIN queue : queue[i] \in Opps /\ queue[i] # o
      BY <1>0, <1>1 DEF Arrive, QueueInv
    <2>2. CASE queue' = Append(queue, o) /\ pc' = [pc EXCEPT ![o] = "queued"]
      <3>1. DOMAIN queue' = 1 .. Len(queue) + 1 /\ queue'[Len(queue) + 1] = o
            /\ \A i \in 1 .. Len(queue) : queue'[i] = queue[i]
        BY <1>0, <2>2, AppendFacts
      <3>2. \A i \in DOMAIN queue' : i \in DOMAIN queue \/ i = Len(queue) + 1
        BY <1>0, <3>1
      <3>3. \A i \in DOMAIN queue' : pc'[queue'[i]] = "queued"
        BY <1>0, <2>1, <2>2, <3>1, <3>2 DEF QueueInv
      <3>4. \A i, j \in DOMAIN queue' : queue'[i] = queue'[j] => i = j
        BY <1>0, <2>1, <3>1, <3>2 DEF QueueInv
      <3>5. QED
        BY <3>3, <3>4 DEF QueueInv
    <2>3. CASE queue' = queue /\ pc' = [pc EXCEPT ![o] = "lost"]
      BY <1>0, <2>1, <2>3 DEF QueueInv
    <2>4. QED
      BY <1>1, <2>2, <2>3 DEF Arrive, Goto
  <1>2. CASE Recv
    <2>1. /\ Head(queue) = queue[1] /\ queue' = Tail(queue) /\ 1 \in DOMAIN queue
          /\ DOMAIN Tail(queue) = 1 .. Len(queue) - 1
          /\ \A i \in 1 .. Len(queue) - 1 : Tail(queue)[i] = queue[i + 1]
      BY <1>0, <1>2, TailFacts DEF Recv
    <2>2. \A i \in DOMAIN queue' : /\ i + 1 \in DOMAIN queue /\ i + 1 # 1
                                   /\ queue'[i] = queue[i + 1]
      BY <1>0, <2>1
    <2>3. \A i \in DOMAIN queue' : queue[i + 1] # queue[1]
      BY <1>0, <2>1, <2>2 DEF QueueInv
    <2>4. \A i \in DOMAIN queue' : pc'[queue'[i]] = "queued"
      <3>1. \A q \in Opps : q # queue[1] => pc'[q] = pc[q]
        BY <1>0, <1>2, <2>1 DEF Recv, Goto
      <3>2. QED
        BY <1>0, <2>2, <2>3, <3>1 DEF QueueInv
    <2>5. \A i, j \in DOMAIN queue' : queue'[i] = queue'[j] => i = j
      <3>1. \A i, j \in DOMAIN queue' : queue'[i] = queue'[j] => i + 1 = j + 1
        BY <1>0, <2>2 DEF QueueInv
      <3>2. \A i \in DOMAIN queue' : i \in Int
        BY <1>0, <2>1
      <3>3. QED
        BY <3>1, <3>2
    <2>6. QED
      BY <2>4, <2>5 DEF QueueInv
  <1>3. ASSUME NEW o \in Opps, Ask(o) \/ Work(o) PROVE QueueInv'
    <2>1. queue' = queue /\ pc[o] # "queued"
      BY <1>3 DEF Ask, Work, FindRoute, ReadChain, Simulate, TakeNonce, Sign, Post, Accepted,
         NotAccepted, Log, LogPanics
    <2>2. \A q \in Opps : q # o => pc'[q] = pc[q]
      BY <1>0, <1>3 DEF Ask, Work, FindRoute, ReadChain, Simulate, TakeNonce, Sign, Post, Accepted,
         NotAccepted, Log, LogPanics, Goto
    <2>3. QED
      BY <1>0, <2>1, <2>2 DEF QueueInv
  <1>4. CASE UNCHANGED <<queue, pc>>
    BY <1>0, <1>4 DEF QueueInv
  <1>5. QED
    BY <1>1, <1>2, <1>3, <1>4 DEF Next, Breaker, WindowSlides, Seal, Land, Halted, vars

(* A row that is logged stays. *)
LEMMA LossStays ==
  ASSUME IInv, Next, LossLogged
  PROVE  LossLogged'
  <1>1. PICK q \in Opps : rows[q] # NoRow /\ rows[q].net < 0
    BY DEF LossLogged
  <1>2. rows'[q] = rows[q]
    <2>1. pc[q] = "done"
      BY <1>1 DEF IInv, RowInv, RowFits
    <2>2. ASSUME NEW o \in Opps, Log(o) PROVE rows'[q] = rows[q]
      BY <2>1, <2>2 DEF Log, IInv, TypeOK
    <2>3. ASSUME ~(\E o \in Opps : Log(o)) PROVE rows' = rows
      BY <2>3 DEF Next, Ask, Work, Arrive, Recv, FindRoute, ReadChain, Simulate, TakeNonce, Sign,
         Post, Accepted, NotAccepted, LogPanics, Breaker, WindowSlides, Land, Seal, Halted, vars,
         dbVars
    <2>4. QED
      BY <2>2, <2>3
  <1>3. QED
    BY <1>1, <1>2 DEF LossLogged

(* A logged profit adds to the last sum; nothing else touches the sums. *)
LEMMA SumsStep ==
  ASSUME IInv, Next
  PROVE  SumsInv'
  <1>1. CASE LossLogged
    BY <1>1, LossStays DEF SumsInv
  <1>2. ASSUME SumsGrow, NEW o \in Opps, Log(o) PROVE SumsInv'
    <2> DEFINE added == Cast(Signed(LoggedNet(o)))
               new == totals[Len(totals)] + added
    <2>1. Signed(LoggedNet(o)) \in Int /\ added \in Int
          /\ (Signed(LoggedNet(o)) >= 0 => added >= 0)
      <3>1. LoggedNet(o) \in Int
        BY LoggedFacts DEF IInv
      <3>2. QED
        BY <3>1, SignedFacts
    <2>2. CASE UNCHANGED <<rows, totals>>
      BY <1>2, <2>2 DEF SumsInv, SumsGrow
    <2>3. CASE /\ totals' = Append(totals, new)
               /\ rows'[o] # NoRow /\ rows'[o].net = Signed(LoggedNet(o))
      <3>1. CASE Signed(LoggedNet(o)) < 0
        BY <2>3, <3>1 DEF SumsInv, LossLogged
      <3>2. CASE Signed(LoggedNet(o)) >= 0
        <4>1. totals \in Seq(Int) /\ Len(totals) \in DOMAIN totals /\ totals[Len(totals)] \in Int
          BY DEF IInv, TypeOK
        <4>2. new \in Int /\ totals[Len(totals)] <= new
          BY <2>1, <3>2, <4>1
        <4>3. \A i \in DOMAIN totals : totals[i] \in Int /\ totals[i] <= totals[Len(totals)]
          BY <1>2, <4>1 DEF SumsGrow
        <4> HIDE DEF new
        <4>4. /\ DOMAIN totals' = 1 .. Len(totals) + 1
              /\ totals'[Len(totals) + 1] = new
              /\ \A i \in DOMAIN totals : totals'[i] = totals[i]
          BY <2>3, <4>1, <4>2
        <4>5. SumsGrow'
          BY <1>2, <4>1, <4>2, <4>3, <4>4 DEF SumsGrow
        <4>6. QED
          BY <4>5 DEF SumsInv
      <3>3. QED
        BY <2>1, <3>1, <3>2
    <2>4. QED
      BY <1>2, <2>2, <2>3 DEF Log, NoRow, IInv, TypeOK
  <1>3. ASSUME SumsGrow, totals' = totals PROVE SumsInv'
    BY <1>3 DEF SumsInv, SumsGrow
  <1>4. totals' = totals \/ \E o \in Opps : Log(o)
    BY DEF Next, Ask, Work, Arrive, Recv, FindRoute, ReadChain, Simulate, TakeNonce, Sign, Post,
       Accepted, NotAccepted, LogPanics, Breaker, WindowSlides, Land, Seal, Halted, vars, dbVars
  <1>5. QED
    BY <1>1, <1>2, <1>3, <1>4 DEF IInv, SumsInv

(* A step before the relays, or a loss, keeps both modes silent. *)
LEMMA EarlyStep ==
  ASSUME IInv, UNCHANGED <<kill, late, dry_run, posted, landed, rows>>,
         NEW o \in Opps, NEW label, pc' = [pc EXCEPT ![o] = label],
         pc[o] \in Early, label \in Early \cup {"post", "done"},
         dry_run => label # "post",
         o \in late => label \in {"queued", "lost", "dropped"}
  PROVE  EarlyInv' /\ SwitchInv' /\ SilentWhenTold'
  <1>1. pc'[o] = label /\ \A q \in Opps : q # o => pc'[q] = pc[q]
    BY DEF IInv, TypeOK
  <1>2. EarlyInv'
    BY <1>1 DEF IInv, EarlyInv
  <1>3. SwitchInv'
    BY <1>1 DEF IInv, SwitchInv, Early, TypeOK
  <1>4. SilentWhenTold'
    BY DEF IInv, SilentWhenTold
  <1>5. QED
    BY <1>2, <1>3, <1>4

(* What comes off the channel was waiting in it. *)
LEMMA HeadWaits ==
  ASSUME IInv, queue # <<>>
  PROVE  Head(queue) \in Opps /\ pc[Head(queue)] = "queued"
  <1>1. queue \in Seq(Opps)
    BY DEF IInv, TypeOK
  <1>2. Head(queue) = queue[1] /\ Head(queue) \in Opps /\ 1 \in DOMAIN queue
    BY <1>1, TailFacts
  <1>3. QED
    BY <1>2 DEF IInv, QueueInv

(* Neither mode lets anything be sent, mined or logged. *)
LEMMA SilenceStep ==
  ASSUME IInv, Next
  PROVE  EarlyInv' /\ SwitchInv' /\ SilentWhenTold'
  <1>1. UNCHANGED dry_run /\ (Breaker \/ UNCHANGED <<kill, late>>)
    BY SwitchesFixed
  <1>2. ASSUME NEW o \in Opps, Arrive(o) PROVE EarlyInv' /\ SwitchInv' /\ SilentWhenTold'
    <2>1. /\ UNCHANGED <<kill, late, posted, landed, rows>> /\ pc[o] = "new"
          /\ \E label \in {"queued", "lost"} : pc' = [pc EXCEPT ![o] = label]
      BY <1>2 DEF Arrive, Goto, dbVars, chainVars, modeVars
    <2>2. QED
      BY <1>1, <2>1, EarlyStep DEF Early
  <1>3. CASE Recv
    <2>1. Head(queue) \in Opps /\ pc[Head(queue)] = "queued"
      BY <1>3, HeadWaits DEF Recv
    <2>2. /\ UNCHANGED <<kill, late, posted, landed, rows>>
          /\ pc' = [pc EXCEPT ![Head(queue)] = IF kill THEN "dropped" ELSE "routes"]
      BY <1>3 DEF Recv, Goto, dbVars, chainVars, modeVars
    <2>3. late # {} => kill
      BY DEF IInv, SwitchInv
    <2>4. QED
      BY <1>1, <2>1, <2>2, <2>3, EarlyStep DEF Early
  <1>4. ASSUME NEW o \in Opps, FindRoute(o) \/ ReadChain(o) \/ Simulate(o) \/ TakeNonce(o) \/ Sign(o)
        PROVE  EarlyInv' /\ SwitchInv' /\ SilentWhenTold'
    <2>1. /\ UNCHANGED <<kill, late, posted, landed, rows>>
          /\ pc[o] \in {"routes", "chain", "simulate", "nonce", "sign"}
      BY <1>4 DEF FindRoute, ReadChain, Simulate, TakeNonce, Sign, dbVars, chainVars, modeVars
    <2>2. \E label \in Early \cup {"post", "done"} :
              pc' = [pc EXCEPT ![o] = label] /\ (dry_run => label # "post")
      BY <1>4 DEF FindRoute, ReadChain, Simulate, TakeNonce, Sign, Goto, Early
    <2>3. o \notin late /\ pc[o] \in Early
      BY <2>1 DEF IInv, SwitchInv, Early
    <2>4. QED
      BY <1>1, <2>1, <2>2, <2>3, EarlyStep
  <1>5. ASSUME NEW o \in Opps,
               Post(o) \/ Accepted(o) \/ NotAccepted(o) \/ Log(o) \/ LogPanics(o)
        PROVE  EarlyInv' /\ SwitchInv' /\ SilentWhenTold'
    <2>1. pc[o] \in {"post", "answer", "log"} /\ UNCHANGED <<kill, late, landed>>
      BY <1>5 DEF Post, Accepted, NotAccepted, Log, LogPanics, chainVars, modeVars
    <2>2. \E label \in {"post", "answer", "log", "done"} : pc' = [pc EXCEPT ![o] = label]
      BY <1>5 DEF Post, Accepted, NotAccepted, Log, LogPanics, Goto, IInv, TypeOK
    <2>3. \A q \in Opps : q # o => posted'[q] = posted[q] /\ rows'[q] = rows[q]
      BY <1>5 DEF Post, Accepted, NotAccepted, Log, LogPanics, dbVars, IInv, TypeOK
    <2>4. o \notin late /\ ~dry_run
      BY <2>1 DEF IInv, SwitchInv
    <2>5. pc'[o] \notin Early /\ \A q \in Opps : q # o => pc'[q] = pc[q]
      BY <2>2 DEF IInv, TypeOK, Early
    <2>6. EarlyInv'
      BY <2>1, <2>3, <2>5 DEF IInv, EarlyInv
    <2>7. SwitchInv'
      BY <1>1, <2>1, <2>4, <2>5 DEF IInv, SwitchInv, TypeOK
    <2>8. SilentWhenTold'
      BY <1>1, <2>1, <2>3, <2>4 DEF IInv, SilentWhenTold
    <2>9. QED
      BY <2>6, <2>7, <2>8
  <1>6. ASSUME NEW o \in Opps, Land(o) PROVE EarlyInv' /\ SwitchInv' /\ SilentWhenTold'
    <2>1. /\ UNCHANGED <<kill, late, pc, posted, rows>>
          /\ \A q \in Opps : q # o => landed'[q] = landed[q]
      BY <1>6 DEF Land, dbVars, modeVars, IInv, TypeOK
    <2>2. posted[o] # {}
      BY <1>6 DEF Land
    <2>3. EarlyInv'
      BY <2>1, <2>2 DEF IInv, EarlyInv
    <2>4. SwitchInv'
      BY <1>1, <2>1 DEF IInv, SwitchInv
    <2>5. SilentWhenTold'
      BY <1>1, <2>1, <2>2 DEF IInv, SilentWhenTold
    <2>6. QED
      BY <2>3, <2>4, <2>5
  <1>7. CASE Breaker
    <2>1. UNCHANGED <<pc, posted, rows, landed>>
      BY <1>7 DEF Breaker, dbVars, chainVars
    <2>2. /\ kill' = (kill \/ rolling_pnl < Signed(-max_loss))
          /\ late' = (IF kill' = kill THEN late ELSE Untaken)
      BY <1>7 DEF Breaker
    <2>3. CASE kill' = kill
      BY <1>1, <2>1, <2>2, <2>3 DEF IInv, EarlyInv, SwitchInv, SilentWhenTold
    <2>4. CASE kill' # kill
      <3>1. kill' /\ late' = Untaken
        BY <2>2, <2>4 DEF IInv, TypeOK
      <3>2. \A o \in Untaken : o \in Opps /\ pc[o] \in {"new", "queued"}
        BY DEF Untaken
      <3>3. EarlyInv'
        BY <2>1 DEF IInv, EarlyInv
      <3>4. SwitchInv'
        BY <1>1, <2>1, <3>1, <3>2 DEF IInv, SwitchInv
      <3>5. SilentWhenTold'
        BY <1>1, <2>1, <3>1, <3>2 DEF IInv, EarlyInv, Early, SilentWhenTold
      <3>6. QED
        BY <3>3, <3>4, <3>5
    <2>5. QED
      BY <2>3, <2>4
  <1>8. CASE UNCHANGED <<kill, late, pc, posted, rows, landed>>
    BY <1>1, <1>8 DEF IInv, EarlyInv, SwitchInv, SilentWhenTold
  <1>9. QED
    BY <1>2, <1>3, <1>4, <1>5, <1>6, <1>7, <1>8
    DEF Next, Ask, Work, WindowSlides, Seal, Halted, vars, modeVars, dbVars, chainVars

(* Tasks and rows keep the bid they were made with. *)
PricedFits(o) ==
    pc[o] \in {"nonce", "sign", "post", "answer", "log"} => Bid(o).miner_reward # 0
BidsKept(o) == gross'[o] = gross[o] /\ fee'[o] = fee[o]

LEMMA FitsKept ==
  ASSUME NEW q \in Opps, RowFits(q), PricedFits(q), BidsKept(q), rows'[q] = rows[q],
         pc'[q] = pc[q] \/ (pc[q] # "done" /\ PricedFits(q)')
  PROVE  RowFits(q)' /\ PricedFits(q)'
  <1>1. Bid(q)' = Bid(q) /\ LoggedNet(q)' = LoggedNet(q)
    BY DEF LoggedNet, Bid, BidsKept
  <1>2. QED
    BY <1>1 DEF RowFits, PricedFits, Signed

(* Rows stay true to the profit found. *)
LEMMA RowStep ==
  ASSUME IInv, Next
  PROVE  PricedInv' /\ RowInv'
  <1>0. /\ pc \in [Opps -> Places] /\ \A q \in Opps : RowFits(q) /\ PricedFits(q)
    BY DEF IInv, TypeOK, Places, Ended, RowInv, PricedInv, PricedFits
  <1>a. ASSUME \A q \in Opps : RowFits(q)' /\ PricedFits(q)'
        PROVE  PricedInv' /\ RowInv'
    BY <1>a DEF PricedInv, RowInv, PricedFits
  <1>1. ASSUME NEW o \in Opps, pc[o] # "done", PricedFits(o)', \A q \in Opps : q # o => pc'[q] = pc[q],
               UNCHANGED <<rows, gross, fee>>
        PROVE  PricedInv' /\ RowInv'
    <2>1. \A q \in Opps : BidsKept(q)
      BY <1>1 DEF BidsKept
    <2>2. \A q \in Opps : RowFits(q)' /\ PricedFits(q)'
      BY <1>0, <1>1, <2>1, FitsKept
    <2>3. QED
      BY <1>a, <2>2
  <1>2. ASSUME NEW o \in Opps, Arrive(o) \/ FindRoute(o) PROVE PricedInv' /\ RowInv'
    <2>1. /\ pc[o] # "done" /\ pc'[o] \in {"queued", "lost", "done", "chain"}
          /\ \A q \in Opps : q # o => pc'[q] = pc[q]
      BY <1>0, <1>2 DEF Arrive, FindRoute, Goto
    <2>2. UNCHANGED <<rows, gross, fee>>
      BY <1>2 DEF Arrive, FindRoute, localVars, dbVars
    <2>3. QED
      BY <1>1, <2>1, <2>2 DEF PricedFits
  <1>3. CASE Recv
    <2>1. Head(queue) \in Opps /\ pc[Head(queue)] = "queued"
      BY <1>3, HeadWaits DEF Recv
    <2>2. /\ \A q \in Opps : q # Head(queue) => pc'[q] = pc[q]
          /\ pc'[Head(queue)] \in {"dropped", "routes"}
      BY <1>0, <1>3, <2>1 DEF Recv, Goto
    <2>3. UNCHANGED <<rows, gross, fee>>
      BY <1>3 DEF Recv, localVars, dbVars
    <2>4. QED
      BY <1>1, <2>1, <2>2, <2>3 DEF PricedFits
  <1>4. ASSUME NEW o \in Opps, ReadChain(o) \/ Simulate(o) PROVE PricedInv' /\ RowInv'
    <2>1. rows[o] = NoRow /\ pc[o] # "done"
      BY <1>4 DEF ReadChain, Simulate, IInv, EarlyInv, Early
    <2>2. rows' = rows
      BY <1>4 DEF ReadChain, Simulate, dbVars
    <2>3. \A q \in Opps : q # o => pc'[q] = pc[q] /\ BidsKept(q)
      BY <1>0, <1>4 DEF ReadChain, Simulate, Goto, BidsKept, IInv, TypeOK
    <2>4. RowFits(o)'
      BY <2>1, <2>2 DEF RowFits
    <2>5. PricedFits(o)'
      <3>1. CASE ReadChain(o)
        BY <1>0, <3>1 DEF ReadChain, Goto, PricedFits
      <3>2. CASE Simulate(o)
        <4>1. PICK profit \in Profits[o] \cup {0} :
                /\ gross' = [gross EXCEPT ![o] = profit]
                /\ Goto(o, IF Decide(FloorBps, profit, fee[o], GasUsed).miner_reward = 0
                           THEN "done" ELSE "nonce")
          BY <3>2 DEF Simulate
        <4>2. gross'[o] = profit /\ fee'[o] = fee[o]
          BY <3>2, <4>1 DEF Simulate, IInv, TypeOK
        <4>3. Bid(o)' = Decide(FloorBps, profit, fee[o], GasUsed)
          BY <4>2 DEF Bid
        <4>4. pc'[o] = IF Decide(FloorBps, profit, fee[o], GasUsed).miner_reward = 0
                       THEN "done" ELSE "nonce"
          BY <1>0, <4>1 DEF Goto
        <4>5. QED
          BY <4>3, <4>4 DEF PricedFits
      <3>3. QED
        BY <1>4, <3>1, <3>2
    <2>6. \A q \in Opps : RowFits(q)' /\ PricedFits(q)'
      BY <1>0, <2>2, <2>3, <2>4, <2>5, FitsKept
    <2>7. QED
      BY <1>a, <2>6
  <1>5. ASSUME NEW o \in Opps,
               TakeNonce(o) \/ Sign(o) \/ Post(o) \/ Accepted(o) \/ NotAccepted(o)
        PROVE  PricedInv' /\ RowInv'
    <2>1. /\ pc[o] \in {"nonce", "sign", "post", "answer"} /\ UNCHANGED <<rows, gross, fee>>
      BY <1>5 DEF TakeNonce, Sign, Post, Accepted, NotAccepted, localVars, dbVars
    <2>2. \A q \in Opps : q # o => pc'[q] = pc[q]
      BY <1>0, <1>5 DEF TakeNonce, Sign, Post, Accepted, NotAccepted, Goto
    <2>3. Bid(o)' = Bid(o) /\ Bid(o).miner_reward # 0
      BY <1>0, <2>1 DEF Bid, PricedFits
    <2>4. QED
      BY <1>1, <2>1, <2>2, <2>3 DEF PricedFits
  <1>6. ASSUME NEW o \in Opps, Log(o) PROVE PricedInv' /\ RowInv'
    <2>1. UNCHANGED <<gross, fee>>
      BY <1>6 DEF Log, localVars
    <2>2. pc[o] = "log" /\ pc'[o] = "done" /\ \A q \in Opps : q # o => pc'[q] = pc[q]
      BY <1>0, <1>6 DEF Log, Goto
    <2>3. \A q \in Opps : q # o => rows'[q] = rows[q]
      BY <1>6 DEF Log, IInv, TypeOK
    <2>4. rows'[o] = rows[o] \/ rows'[o].net = Signed(LoggedNet(o))
      BY <1>6 DEF Log, IInv, TypeOK
    <2>5. Bid(o)' = Bid(o) /\ LoggedNet(o)' = LoggedNet(o) /\ Bid(o).miner_reward # 0
      BY <1>0, <2>1, <2>2 DEF LoggedNet, Bid, PricedFits
    <2>6. RowFits(o)' /\ PricedFits(o)'
      BY <1>0, <2>2, <2>4, <2>5 DEF RowFits, PricedFits, Signed
    <2>7. \A q \in Opps : BidsKept(q)
      BY <2>1 DEF BidsKept
    <2>8. \A q \in Opps : RowFits(q)' /\ PricedFits(q)'
      BY <1>0, <2>2, <2>3, <2>6, <2>7, FitsKept
    <2>9. QED
      BY <1>a, <2>8
  <1>7. CASE UNCHANGED <<pc, rows, gross, fee>>
    <2>1. \A q \in Opps : BidsKept(q)
      BY <1>7 DEF BidsKept
    <2>2. \A q \in Opps : RowFits(q)' /\ PricedFits(q)'
      BY <1>0, <1>7, <2>1, FitsKept
    <2>3. QED
      BY <1>a, <2>2
  <1>8. ASSUME NEW o \in Opps, Land(o) \/ LogPanics(o) PROVE UNCHANGED <<pc, rows, gross, fee>>
    BY <1>8 DEF Land, LogPanics, localVars, dbVars
  <1>9. CASE Breaker \/ WindowSlides \/ Seal \/ Halted
    <2>1. UNCHANGED <<pc, rows, gross, fee>>
      BY <1>9 DEF Breaker, WindowSlides, Seal, Halted, vars, localVars, dbVars
    <2>2. QED
      BY <1>7, <2>1
  <1>10. QED
    BY <1>2, <1>3, <1>4, <1>5, <1>6, <1>7, <1>8, <1>9 DEF Next, Ask, Work

-----------------------------------------------------------------------------
LEMMA InitInv ==
  ASSUME Init
  PROVE  IInv
  <1>1. TypeOK
    BY EngineAssumption DEF Init, TypeOK
  <1>2. EarlyInv /\ SwitchInv /\ SilentWhenTold /\ QueueInv /\ SumsInv /\ PricedInv /\ RowInv
    BY DEF Init, EarlyInv, SwitchInv, SilentWhenTold, QueueInv, SumsInv, SumsGrow, PricedInv, RowInv,
       RowFits
  <1>3. QED
    BY <1>1, <1>2 DEF IInv

LEMMA Invariance == Spec => []IInv
  <1>1. IInv /\ [Next]_vars => IInv'
    <2>1. ASSUME IInv, UNCHANGED vars PROVE IInv'
      <3>1. TypeOK'
        BY <2>1 DEF IInv, TypeOK, vars, modeVars, localVars, dbVars, chainVars
      <3>2. EarlyInv' /\ SwitchInv' /\ SilentWhenTold' /\ QueueInv'
        BY <2>1 DEF IInv, EarlyInv, SwitchInv, SilentWhenTold, QueueInv, vars, modeVars, dbVars,
           chainVars
      <3>3. SumsInv'
        BY <2>1 DEF IInv, SumsInv, SumsGrow, LossLogged, vars, dbVars
      <3>4. \A q \in Opps : Bid(q)' = Bid(q) /\ LoggedNet(q)' = LoggedNet(q)
        BY <2>1 DEF Bid, LoggedNet, vars, localVars
      <3>5. PricedInv' /\ RowInv'
        BY <2>1, <3>4 DEF IInv, PricedInv, RowInv, RowFits, Signed, vars, dbVars
      <3>6. QED
        BY <3>1, <3>2, <3>3, <3>5 DEF IInv
    <2>2. QED
      BY <2>1, TypeStep, QueueStep, SumsStep, SilenceStep, RowStep DEF IInv
  <1>2. QED
    BY <1>1, InitInv, PTL DEF Spec

(* Every variable keeps its type. *)
THEOREM TypeCorrect == Spec => []TypeOK
  BY Invariance, PTL DEF IInv

(* In a dry run, and for whatever the loop had not taken off the channel   *)
(* when the kill switch was set, the engine sends no bundle, uses no nonce *)
(* on chain and logs no row.                                               *)
THEOREM SilentEngine == Spec => []SilentWhenTold
  BY Invariance, PTL DEF IInv

(* No loss trips the circuit breaker: logged profits saturate at zero, so  *)
(* that no sum over a window is negative before a conversion wraps.        *)
THEOREM BreakerNeedsWrap == Spec => BreakerTripsOnWraps
  <1> DEFINE Wrapped == max_loss > I128 \/ \E o \in Opps : rows[o] # NoRow /\ rows[o].net < 0
  <1>1. IInv /\ [Next]_vars => [kill' # kill => Wrapped]_vars
    <2>1. ASSUME IInv, Next, kill' # kill PROVE Wrapped
      BY <2>1, SwitchesFixed, BreakerStep DEF LossLogged
    <2>2. QED
      BY <2>1
  <1>2. QED
    BY <1>1, Invariance, PTL DEF Spec, BreakerTripsOnWraps

(* The row of a mined bundle is off from what the simulated profit left by *)
(* the raises of its reward, if the two fractions fit in the whole.        *)
THEOREM LogErrsByRaises ==
  ASSUME MinProfitBps + MaxRewardBps <= 10000
  PROVE  Spec => []LogOffByRaises
  <1>1. IInv => LogOffByRaises
    <2> SUFFICES ASSUME IInv, NEW o \in Opps, rows[o] # NoRow, landed[o] # NoVersion,
                        gross[o] < I128
                 PROVE  LET reward == Bid(o).miner_reward
                            left == gross[o] - Paid(o) - GasUsed * fee[o]
                        IN  rows[o].net - left
                                \in 0 .. EscalatedReward(reward, MaxAttempts - 1) - reward
      BY DEF LogOffByRaises
    <2> DEFINE last == MaxAttempts - 1
               cost == GasUsed * fee[o]
    <2>1. landed[o] \in 0 .. last /\ last \in Nat
      BY EngineAssumption DEF IInv, TypeOK
    <2>2. /\ gross[o] \in Nat /\ fee[o] \in Nat /\ FloorBps \in Nat /\ GasUsed \in Nat
          /\ Bid(o).miner_reward \in Nat /\ Bid(o).min_profit \in Nat /\ cost \in Nat
          /\ LoggedNet(o) \in Nat /\ LoggedNet(o) <= gross[o] /\ I128 \in Nat
      BY LoggedFacts, EngineAssumption DEF IInv
    <2>3. PICK bid \in Nat : bid = Bid(o).miner_reward
      BY <2>2
    <2>4. bid # 0 /\ rows[o].net = Signed(LoggedNet(o))
      BY <2>3 DEF IInv, RowInv, RowFits
    <2>5. rows[o].net = LoggedNet(o)
      <3>1. LoggedNet(o) \in -I128 .. I128 - 1 /\ LoggedNet(o) \in Int
        BY <2>2
      <3>2. QED
        BY <2>4, <3>1, SignedFacts
    <2>6. bid + cost <= gross[o]
      <3>1. bid + Bid(o).min_profit + cost <= Higher(gross[o], cost)
        <4> DEFINE offer == Decide(FloorBps, gross[o], fee[o], GasUsed)
        <4>1. offer.miner_reward + offer.min_profit + GasUsed * fee[o]
                  <= Higher(gross[o], GasUsed * fee[o])
          <5>1. ASSUME NEW floor \in Nat, NEW g \in Nat, NEW f \in Nat, NEW gas \in Nat
                PROVE  Decide(floor, g, f, gas).miner_reward + Decide(floor, g, f, gas).min_profit
                           + gas * f <= Higher(g, gas * f)
            BY BidFits
          <5>2. QED
            BY ONLY <2>2, <5>1, Zenon
        <4>2. Bid(o) = offer
          BY DEF Bid
        <4> HIDE DEF offer
        <4>3. QED
          BY <2>3, <4>1, <4>2
      <3> HIDE DEF cost
      <3>2. QED
        BY <2>2, <2>3, <2>4, <3>1 DEF Higher
    <2>7. LoggedNet(o) = gross[o] - bid - cost
      <3> HIDE DEF cost
      <3>1. LoggedNet(o) = Higher(Higher(gross[o] - bid, 0) - cost, 0)
        BY <2>3 DEF LoggedNet, cost
      <3>2. QED
        BY <2>2, <2>6, <3>1 DEF Higher
    <2> HIDE DEF last
    <2>a. PICK n \in Nat : n = last
      BY <2>1
    <2>8. PICK k \in 0 .. n : k = landed[o]
      BY <2>1, <2>a
    <2>9. /\ EscalatedReward(bid, k) \in Nat
          /\ EscalatedReward(bid, k) - bid \in 0 .. EscalatedReward(bid, n) - bid
      BY ONLY <2>3, <2>a, <2>8, RewardRange, Zenon
    <2>10. Paid(o) = EscalatedReward(bid, k)
      BY <2>3, <2>8 DEF Paid
    <2> HIDE DEF cost
    <2>11. rows[o].net - (gross[o] - Paid(o) - cost) = EscalatedReward(bid, k) - bid
      BY <2>2, <2>5, <2>7, <2>9, <2>10
    <2>12. QED
      BY <2>3, <2>a, <2>9, <2>11 DEF cost, last
  <1>2. QED
    BY <1>1, Invariance, PTL

-----------------------------------------------------------------------------
(* PnlLog *)

(* The thread that is inside holds the mutex, and no other. *)
Exclusive == \A t \in Threads : conn = t <=> progress[t] \in {"query", "relock"}

(* Only stats_summary locks a second time. *)
Relocking == \A t \in Threads : progress[t] = "relock" => t \in Reporters

(* What every reachable state of the log satisfies. *)
LogInv == LogTypeOK /\ Exclusive /\ Relocking /\ SumOfWindow

(* Every row is a record of an amount and a time that has come. *)
LEMMA RowFacts ==
  ASSUME LogTypeOK
  PROVE  /\ Len(bundle_logs) \in Nat /\ DOMAIN bundle_logs = 1 .. Len(bundle_logs)
         /\ \A n \in 1 .. Len(bundle_logs) :
               bundle_logs[n].net \in Int /\ bundle_logs[n].at \in 0 .. now
  <1> DEFINE R == [net : NetProfits, at : 0 .. now]
  <1>1. bundle_logs \in Seq(R)
    BY DEF LogTypeOK
  <1>2. /\ Len(bundle_logs) \in Nat /\ DOMAIN bundle_logs = 1 .. Len(bundle_logs)
        /\ \A n \in 1 .. Len(bundle_logs) : bundle_logs[n] \in R
    <2> HIDE DEF R
    <2>1. QED
      BY <1>1, LenProperties, ElementOfSeq
  <1>3. QED
    BY <1>2, LogAssumption

(* Rows that are there stay as they are, so what a call has summed does.   *)
LEMMA SumStands ==
  ASSUME LogInv, NEW t \in Readers, progress[t] = "done", progress'[t] = "done",
         result'[t] = result[t], before'[t] = before[t],
         Len(bundle_logs') \in Nat, Len(bundle_logs) <= Len(bundle_logs'),
         \A n \in 1 .. Len(bundle_logs) : bundle_logs'[n] = bundle_logs[n]
  PROVE  /\ result'[t].upto \in before'[t] .. Len(bundle_logs')
         /\ (Overflows(Young(t)) \/ result[t].value = Total(Young(t)))'
  <1>1. /\ result[t].upto \in before[t] .. Len(bundle_logs)
        /\ Overflows(Young(t)) \/ result[t].value = Total(Young(t))
    BY DEF LogInv, SumOfWindow
  <1>2. t \in Threads /\ before[t] \in Nat /\ Len(bundle_logs) \in Nat
    BY RowFacts DEF LogInv, LogTypeOK, Threads
  <1>3. Young(t)' = Young(t)
    <2>1. \A n \in 1 .. result[t].upto : bundle_logs'[n] = bundle_logs[n]
      BY <1>1, <1>2
    <2>2. QED
      BY <2>1 DEF Young
  <1>4. Overflows(Young(t))' <=> Overflows(Young(t))
    BY <1>3 DEF Overflows, Sums
  <1>5. Total(Young(t))' = Total(Young(t))
    BY <1>3 DEF Total, Sums
  <1>6. QED
    BY <1>1, <1>2, <1>4, <1>5

(* Only a reader's query sets a result; a row is added at the end. *)
LEMMA OthersStand ==
  ASSUME LogInv, Len(bundle_logs') \in Nat, Len(bundle_logs) <= Len(bundle_logs'),
         \A n \in 1 .. Len(bundle_logs) : bundle_logs'[n] = bundle_logs[n],
         \A t \in Readers : progress'[t] = "done" =>
             progress[t] = "done" /\ result'[t] = result[t] /\ before'[t] = before[t]
  PROVE  SumOfWindow'
  <1> SUFFICES ASSUME NEW t \in Readers, progress'[t] = "done"
               PROVE  /\ result'[t].upto \in before'[t] .. Len(bundle_logs')
                      /\ (Overflows(Young(t)) \/ result[t].value = Total(Young(t)))'
    BY DEF SumOfWindow
  <1>1. QED
    BY SumStands

(* A call begins: it remembers how many rows there are. *)
LEMMA CallStep ==
  ASSUME LogInv, NEW t \in Threads, Call(t)
  PROVE  LogInv'
  <1>1. LogTypeOK /\ Exclusive /\ Relocking /\ Len(bundle_logs) \in Nat
    BY RowFacts DEF LogInv
  <1>2. LogTypeOK'
    BY <1>1 DEF Call, GoOn, LogTypeOK
  <1>3. Exclusive' /\ Relocking'
    BY <1>1 DEF Call, GoOn, LogTypeOK, Exclusive, Relocking
  <1>4. SumOfWindow'
    BY <1>1, OthersStand DEF Call, GoOn, LogTypeOK, Threads
  <1>5. QED
    BY <1>2, <1>3, <1>4 DEF LogInv

(* The mutex is free: a call goes in, or a second lock returns. *)
LEMMA LockStep ==
  ASSUME LogInv, NEW t \in Threads, Lock(t)
  PROVE  LogInv'
  <1>1. LogTypeOK /\ Exclusive /\ Relocking /\ Len(bundle_logs) \in Nat
    BY RowFacts DEF LogInv
  <1>2. LogTypeOK'
    BY <1>1 DEF Lock, GoOn, LogTypeOK
  <1>3. Exclusive' /\ Relocking'
    BY <1>1, LogAssumption DEF Lock, GoOn, LogTypeOK, Exclusive, Relocking, Threads
  <1>4. progress[t] = "relock" => t \notin Readers
    BY <1>1, LogAssumption DEF Relocking
  <1>5. SumOfWindow'
    BY <1>1, <1>4, OthersStand DEF Lock, GoOn, LogTypeOK, Threads
  <1>6. QED
    BY <1>2, <1>3, <1>5 DEF LogInv

(* log_bundle: the new row comes after those that were summed. *)
LEMMA InsertStep ==
  ASSUME LogInv, NEW t \in Threads, Insert(t)
  PROVE  LogInv'
  <1> DEFINE R == [net : NetProfits, at : 0 .. now]
  <1>1. LogTypeOK /\ Exclusive /\ Relocking /\ Len(bundle_logs) \in Nat
    BY RowFacts DEF LogInv
  <1>2. /\ bundle_logs' \in Seq(R)
        /\ Len(bundle_logs') \in Nat /\ Len(bundle_logs) <= Len(bundle_logs')
        /\ \A n \in 1 .. Len(bundle_logs) : bundle_logs'[n] = bundle_logs[n]
    <2>1. CASE UNCHANGED bundle_logs
      BY <1>1, <2>1 DEF LogTypeOK
    <2>2. CASE \E n \in NetProfits : bundle_logs' = Append(bundle_logs, [net |-> n, at |-> now])
      <3>1. PICK n \in NetProfits : bundle_logs' = Append(bundle_logs, [net |-> n, at |-> now])
        BY <2>2
      <3>2. bundle_logs \in Seq(R) /\ [net |-> n, at |-> now] \in R
        BY <1>1 DEF LogTypeOK
      <3> HIDE DEF R
      <3>3. QED
        BY <3>1, <3>2, AppendProperties
    <2>3. QED
      BY <2>1, <2>2 DEF Insert
  <1>3. LogTypeOK'
    BY <1>1, <1>2 DEF Insert, GoOn, LogTypeOK
  <1>4. Exclusive' /\ Relocking'
    BY <1>1, LogAssumption DEF Insert, GoOn, LogTypeOK, Exclusive, Relocking, Threads
  <1>5. t \notin Readers
    BY LogAssumption DEF Insert
  <1>6. SumOfWindow'
    BY <1>1, <1>2, <1>5, OthersStand DEF Insert, GoOn, LogTypeOK, Threads
  <1>7. QED
    BY <1>3, <1>4, <1>6 DEF LogInv

(* rolling_pnl: the query tests what the window leaves in. *)
LEMMA SelectStep ==
  ASSUME LogInv, NEW t \in Threads, Select(t)
  PROVE  LogInv'
  <1>1. /\ LogTypeOK /\ Exclusive /\ Relocking /\ SumOfWindow
        /\ Len(bundle_logs) \in Nat /\ DOMAIN bundle_logs = 1 .. Len(bundle_logs) /\ now \in Nat
        /\ \A n \in 1 .. Len(bundle_logs) : bundle_logs[n].at \in 0 .. now
    BY RowFacts DEF LogInv, LogTypeOK
  <1>2. /\ result' = [result EXCEPT ![t] = [value |-> Pnl(now), upto |-> Len(bundle_logs),
                                            at |-> now]]
        /\ DOMAIN result = Threads /\ UNCHANGED <<bundle_logs, now, before>>
    BY <1>1 DEF Select, LogTypeOK
  <1>3. result'[t] = [value |-> Pnl(now), upto |-> Len(bundle_logs), at |-> now]
    BY <1>2
  <1>4. LogTypeOK'
    BY <1>1, <1>2 DEF Select, GoOn, LogTypeOK
  <1>5. Exclusive' /\ Relocking'
    BY <1>1, LogAssumption DEF Select, GoOn, LogTypeOK, Exclusive, Relocking, Threads
  <1>6. Young(t)' = Recent(now)
    <2>1. Window \in Nat
      BY LogAssumption
    <2>2. \A n \in 1 .. Len(bundle_logs) :
             now - bundle_logs[n].at <= Window <=> bundle_logs[n].at >= now - Window
      BY <1>1, <2>1
    <2>3. QED
      BY <1>1, <1>2, <1>3, <2>2 DEF Young, Recent
  <1>7. (Overflows(Young(t)) \/ result[t].value = Total(Young(t)))'
    <2>1. Overflows(Young(t))' <=> Overflows(Recent(now))
      BY <1>6 DEF Overflows, Sums
    <2>2. Total(Young(t))' = Total(Recent(now))
      BY <1>6 DEF Total, Sums
    <2>3. QED
      BY <1>3, <2>1, <2>2 DEF Pnl
  <1>8. ASSUME NEW s \in Readers, progress'[s] = "done"
        PROVE  /\ result'[s].upto \in before'[s] .. Len(bundle_logs')
               /\ (Overflows(Young(s)) \/ result[s].value = Total(Young(s)))'
    <2>1. CASE s = t
      BY <1>1, <1>2, <1>3, <1>7, <2>1 DEF LogTypeOK
    <2>2. CASE s # t
      <3>1. /\ progress[s] = "done" /\ result'[s] = result[s] /\ before'[s] = before[s]
            /\ \A n \in 1 .. Len(bundle_logs) : bundle_logs'[n] = bundle_logs[n]
            /\ Len(bundle_logs') = Len(bundle_logs)
        BY <1>1, <1>2, <1>8, <2>2 DEF Select, GoOn, LogTypeOK, Threads
      <3>2. QED
        BY <1>1, <1>8, <3>1, SumStands
    <2>3. QED
      BY <2>1, <2>2
  <1>9. SumOfWindow'
    BY <1>8 DEF SumOfWindow
  <1>10. QED
    BY <1>4, <1>5, <1>9 DEF LogInv

(* stats_summary goes on to rolling_pnl inside the mutex. *)
LEMMA CountStep ==
  ASSUME LogInv, NEW t \in Threads, Count(t)
  PROVE  LogInv'
  <1>1. LogTypeOK /\ Exclusive /\ Relocking /\ Len(bundle_logs) \in Nat
    BY RowFacts DEF LogInv
  <1>2. LogTypeOK'
    BY <1>1 DEF Count, GoOn, LogTypeOK
  <1>3. Exclusive' /\ Relocking'
    BY <1>1 DEF Count, GoOn, LogTypeOK, Exclusive, Relocking
  <1>4. SumOfWindow'
    BY <1>1, OthersStand DEF Count, GoOn, LogTypeOK, Threads
  <1>5. QED
    BY <1>2, <1>3, <1>4 DEF LogInv

(* Time passes: sums are of the moment they were asked for. *)
LEMMA TickStep ==
  ASSUME LogInv, Tick
  PROVE  LogInv'
  <1>1. /\ LogTypeOK /\ Exclusive /\ Relocking /\ now \in Nat
        /\ Len(bundle_logs) \in Nat /\ DOMAIN bundle_logs = 1 .. Len(bundle_logs)
    BY RowFacts DEF LogInv, LogTypeOK
  <1>2. 0 .. now \subseteq 0 .. now' /\ now' \in Nat
    BY <1>1 DEF Tick
  <1>3. bundle_logs' \in Seq([net : NetProfits, at : 0 .. now'])
    <2> DEFINE R == [net : NetProfits, at : 0 .. now]
               S == [net : NetProfits, at : 0 .. now']
    <2>1. R \subseteq S /\ bundle_logs' = bundle_logs /\ bundle_logs \in Seq(R)
      BY <1>1, <1>2 DEF Tick, LogTypeOK
    <2> HIDE DEF R, S
    <2>2. \A n \in 1 .. Len(bundle_logs) : bundle_logs[n] \in S
      BY <2>1, ElementOfSeq
    <2>3. bundle_logs = [n \in 1 .. Len(bundle_logs) |-> bundle_logs[n]]
      BY <2>1, LenProperties
    <2>4. bundle_logs \in Seq(S)
      BY <1>1, <2>2, <2>3, SeqDef
    <2>5. QED
      BY <2>1, <2>4 DEF S
  <1>4. LogTypeOK'
    BY <1>1, <1>2, <1>3 DEF Tick, LogTypeOK
  <1>5. Exclusive' /\ Relocking'
    BY <1>1 DEF Tick, Exclusive, Relocking
  <1>6. SumOfWindow'
    BY <1>1, OthersStand DEF Tick
  <1>7. QED
    BY <1>4, <1>5, <1>6 DEF LogInv

(* The empty table. *)
LEMMA LogInitInv == LogInit => LogInv
  BY LogAssumption DEF LogInit, LogInv, LogTypeOK, Exclusive, Relocking, SumOfWindow, Unset, Threads

(* Every step keeps the invariant. *)
LEMMA LogStep == LogInv /\ [LogNext]_logVars => LogInv'
  <1> SUFFICES ASSUME LogInv, [LogNext]_logVars PROVE LogInv'
    OBVIOUS
  <1>1. ASSUME NEW t \in Threads, Call(t) PROVE LogInv'
    BY <1>1, CallStep
  <1>2. ASSUME NEW t \in Threads, Lock(t) PROVE LogInv'
    BY <1>2, LockStep
  <1>3. ASSUME NEW t \in Threads, Insert(t) PROVE LogInv'
    BY <1>3, InsertStep
  <1>4. ASSUME NEW t \in Threads, Select(t) PROVE LogInv'
    BY <1>4, SelectStep
  <1>5. ASSUME NEW t \in Threads, Count(t) PROVE LogInv'
    BY <1>5, CountStep
  <1>6. CASE Tick
    BY <1>6, TickStep
  <1>7. CASE UNCHANGED logVars
    <2>1. Len(bundle_logs) \in Nat
      BY RowFacts DEF LogInv
    <2>2. SumOfWindow'
      BY <1>7, <2>1, OthersStand DEF logVars
    <2>3. QED
      BY <1>7, <2>2 DEF logVars, LogInv, LogTypeOK, Exclusive, Relocking
  <1>8. QED
    BY <1>1, <1>2, <1>3, <1>4, <1>5, <1>6, <1>7 DEF LogNext, Step

LEMMA LogInvariance == LogSpec => []LogInv
  BY LogInitInv, LogStep, PTL DEF LogSpec

(* One thread at a time is inside the connection, and only stats_summary   *)
(* ever locks the mutex it already holds.                                  *)
THEOREM OneInside == LogSpec => [](LogTypeOK /\ Exclusive /\ Relocking)
  <1>1. LogInv => LogTypeOK /\ Exclusive /\ Relocking
    BY DEF LogInv
  <1>2. QED
    BY <1>1, LogInvariance, PTL

(* stats_summary never returns, whoever else calls what and when: whoever  *)
(* gets to its second lock holds the first one, for ever.                  *)
THEOREM StatsNeverReturn ==
  LogSpec => /\ [](\A t \in Reporters : progress[t] # "done")
             /\ [][\A t \in Reporters : progress[t] = "relock" =>
                       progress'[t] = "relock" /\ conn' = t]_logVars
  <1> DEFINE Unfinished == \A t \in Reporters : progress[t] # "done"
             Stuck == \A t \in Reporters : progress[t] = "relock" =>
                         progress'[t] = "relock" /\ conn' = t
  <1>1. LogInit => Unfinished
    BY DEF LogInit, Threads
  <1>2. ASSUME LogInv, LogNext, NEW t \in Reporters
        PROVE  /\ progress[t] # "done" => progress'[t] # "done"
               /\ progress[t] = "relock" => progress'[t] = "relock" /\ conn' = t
    <2>1. /\ t \in Threads /\ t \notin Loggers /\ t \notin Readers
          /\ Free \notin Threads /\ conn = t <=> progress[t] \in {"query", "relock"}
          /\ progress \in [Threads -> {"idle", "lock", "query", "relock", "done"}]
      BY <1>2, LogAssumption DEF LogInv, LogTypeOK, Exclusive, Threads
    <2>2. CASE Tick
      BY <2>1, <2>2 DEF Tick
    <2>3. ASSUME NEW s \in Threads, Call(s) \/ Step(s)
          PROVE  /\ progress[t] # "done" => progress'[t] # "done"
                 /\ progress[t] = "relock" => progress'[t] = "relock" /\ conn' = t
      <3>1. progress[s] \in {"query", "relock"} <=> conn = s
        BY <1>2 DEF LogInv, Exclusive
      <3>2. CASE Call(s)
        BY <2>1, <3>2 DEF Call, GoOn
      <3>3. CASE Lock(s)
        BY <2>1, <3>1, <3>3 DEF Lock, GoOn
      <3>4. CASE Insert(s)
        BY <2>1, <3>1, <3>4 DEF Insert, GoOn
      <3>5. CASE Select(s)
        BY <2>1, <3>1, <3>5 DEF Select, GoOn
      <3>6. CASE Count(s)
        BY <2>1, <3>1, <3>6 DEF Count, GoOn
      <3>7. QED
        BY <2>3, <3>2, <3>3, <3>4, <3>5, <3>6 DEF Step
    <2>4. QED
      BY <1>2, <2>2, <2>3 DEF LogNext
  <1>3. LogInv /\ Unfinished /\ [LogNext]_logVars => Unfinished'
    BY <1>2 DEF logVars
  <1>4. LogInv /\ [LogNext]_logVars => [Stuck]_logVars
    BY <1>2
  <1>5. QED
    BY <1>1, <1>3, <1>4, LogInvariance, PTL DEF LogSpec

(* What rolling_pnl answers, unless a sum overflows, is the sum over its   *)
(* window of all that was logged up to a moment inside the call, whatever  *)
(* other threads log meanwhile.                                            *)
THEOREM SumsAreOfWindows == LogSpec => []SumOfWindow
  <1>1. LogInv => SumOfWindow
    BY DEF LogInv
  <1>2. QED
    BY <1>1, LogInvariance, PTL

=============================================================================
