-------------------------- MODULE WalletPoolProofs --------------------------
(***************************************************************************)
(* Proofs about WalletPool for any number of wallets and calls.  The       *)
(* inductive invariant has one part per mechanism: the mutex, what the     *)
(* sync task remembers across its await, and the order of the nonces.      *)
(***************************************************************************)
EXTENDS WalletPool, TLAPS

Holding == {"load", "callback"}
Awaiting == {"query", "store"}

(* The mutex names the one call between lock and unlock. *)
MutexInv ==
    /\ \A t \in Tasks : pc[t] \in Holding => mutex[idx[t]] = t
    /\ \A w \in Wallets :
          mutex[w] # NoTask => idx[mutex[w]] = w /\ pc[mutex[w]] \in Holding

(* No call runs before the startup sync is over. *)
StartupInv ==
    ~started => /\ \A t \in Tasks : pc[t] = "new"
                /\ base = next_nonce
                /\ \A w \in Wallets : stores[w] = "none"

(* While the sync task awaits the node nothing else lowers next_nonce, and *)
(* a call that holds the lock loaded its nonce after the sync's read.      *)
AwaitInv ==
    syncPc \in Awaiting =>
        /\ current <= next_nonce[syncAt]
        /\ \A n \in current .. next_nonce[syncAt] - 1 :
              \E t \in IssuedBy(syncAt) : nonce[t] = n
        /\ \A t \in Tasks :
              (pc[t] = "callback" /\ idx[t] = syncAt) => nonce[t] = next_nonce[syncAt]

(* Unless rewound: given-out nonces are distinct and below next_nonce, and *)
(* the one being given out is above them all.                              *)
OrderInv ==
    \A w \in Wallets : stores[w] # "backward" =>
        /\ \A t \in IssuedBy(w) : nonce[t] < next_nonce[w]
        /\ \A t \in Tasks :
              (pc[t] = "callback" /\ idx[t] = w) =>
                  /\ nonce[t] <= next_nonce[w]
                  /\ \A u \in IssuedBy(w) : nonce[u] < nonce[t]

(* Until the first store of the background sync no nonce is skipped. *)
ContiguousInv ==
    \A w \in Wallets : stores[w] = "none" =>
        /\ base[w] <= next_nonce[w]
        /\ \A t \in IssuedBy(w) : nonce[t] \in base[w] .. next_nonce[w] - 1
        /\ \A n \in base[w] .. next_nonce[w] - 1 : \E t \in IssuedBy(w) : nonce[t] = n
        /\ \A t \in Tasks :
              (pc[t] = "callback" /\ idx[t] = w) => nonce[t] = next_nonce[w]

IInv ==
    /\ TypeOK
    /\ MutexInv
    /\ StartupInv
    /\ AwaitInv
    /\ OrderInv
    /\ UniqueUnlessBackward
    /\ ContiguousInv
    /\ NeverBelowApplied

-----------------------------------------------------------------------------
USE DEF poolVars, taskVars, syncVars, histVars

(* The round-robin index names a wallet. *)
LEMMA ModWallet == \A k \in Nat : k % NumWallets \in Wallets
  BY NumWalletsAssumption DEF Wallets

(* The pool is never empty. *)
LEMMA ZeroWallet == 0 \in Wallets
  BY NumWalletsAssumption DEF Wallets

(* The sync cursor stays inside the vector. *)
LEMMA AdvanceType ==
  ASSUME syncAt \in Wallets, started \in BOOLEAN, Advance
  PROVE  /\ syncAt' \in Wallets
         /\ syncPc' \in {"idle", "visit"}
         /\ started' \in BOOLEAN
         /\ ~started' => ~started
  <1>1. CASE syncAt + 1 < NumWallets
    BY <1>1, NumWalletsAssumption DEF Advance, Wallets
  <1>2. CASE ~(syncAt + 1 < NumWallets)
    BY <1>2, ZeroWallet DEF Advance
  <1>3. QED
    BY <1>1, <1>2

(* Every state of the specification has the types its variables are meant *)
(* to have.                                                               *)
LEMMA StepType ==
  ASSUME TypeOK, [Next]_vars
  PROVE  TypeOK'
  <1>1. ASSUME NEW t \in Tasks, Claim(t) PROVE TypeOK'
    BY <1>1, ModWallet DEF TypeOK, Claim, Goto, Issued
  <1>2. ASSUME NEW t \in Tasks, Lock(t) PROVE TypeOK'
    BY <1>2 DEF TypeOK, Lock, Goto, Issued
  <1>3. ASSUME NEW t \in Tasks, Load(t) PROVE TypeOK'
    BY <1>3 DEF TypeOK, Load, Goto, Issued
  <1>4. ASSUME NEW t \in Tasks, Commit(t) PROVE TypeOK'
    BY <1>4 DEF TypeOK, Commit, Goto, Issued
  <1>5. ASSUME NEW t \in Tasks, Refuse(t) PROVE TypeOK'
    BY <1>5 DEF TypeOK, Refuse, Goto, Issued
  <1>6. ASSUME NEW t \in Tasks, Land(t) PROVE TypeOK'
    BY <1>6 DEF TypeOK, Land, Goto, Issued
  <1>7. ASSUME NEW t \in Tasks, Expire(t) PROVE TypeOK'
    BY <1>7 DEF TypeOK, Expire, Goto, Issued
  <1>8. CASE SyncTick
    BY <1>8 DEF TypeOK, SyncTick
  <1>9. CASE SyncRead
    BY <1>9 DEF TypeOK, SyncRead
  <1>10. CASE SyncSkip
    BY <1>10, AdvanceType DEF TypeOK, SyncSkip
  <1>11. CASE NodeAnswers
    BY <1>11 DEF TypeOK, NodeAnswers
  <1>12. CASE NodeFails
    BY <1>12, AdvanceType DEF TypeOK, NodeFails
  <1>13. CASE SyncApply
    BY <1>13, AdvanceType DEF TypeOK, SyncApply, Worst
  <1>14. ASSUME NEW w \in Wallets, Foreign(w) PROVE TypeOK'
    BY <1>14 DEF TypeOK, Foreign
  <1>15. CASE UNCHANGED vars
    BY <1>15 DEF TypeOK, vars
  <1>16. QED
    BY <1>1, <1>2, <1>3, <1>4, <1>5, <1>6, <1>7, <1>8, <1>9, <1>10, <1>11,
       <1>12, <1>13, <1>14, <1>15 DEF Next, Call, Outcome, Sync

(* The mutex stays with the call between lock and unlock. *)
LEMMA StepMutex ==
  ASSUME TypeOK, MutexInv, [Next]_vars
  PROVE  MutexInv'
  <1>1. ASSUME NEW t \in Tasks, Claim(t) PROVE MutexInv'
    BY <1>1 DEF TypeOK, MutexInv, Holding, Issued, Claim, Goto
  <1>2. ASSUME NEW t \in Tasks, Lock(t) PROVE MutexInv'
    BY <1>2, NoTaskAssumption DEF TypeOK, MutexInv, Holding, Issued, Lock, Goto
  <1>3. ASSUME NEW t \in Tasks, Load(t) PROVE MutexInv'
    BY <1>3 DEF TypeOK, MutexInv, Holding, Issued, Load, Goto
  <1>4. ASSUME NEW t \in Tasks, Commit(t) PROVE MutexInv'
    BY <1>4, NoTaskAssumption DEF TypeOK, MutexInv, Holding, Issued, Commit, Goto
  <1>5. ASSUME NEW t \in Tasks, Refuse(t) PROVE MutexInv'
    BY <1>5, NoTaskAssumption DEF TypeOK, MutexInv, Holding, Issued, Refuse, Goto
  <1>6. ASSUME NEW t \in Tasks, Land(t) PROVE MutexInv'
    BY <1>6 DEF TypeOK, MutexInv, Holding, Issued, Land, Goto
  <1>7. ASSUME NEW t \in Tasks, Expire(t) PROVE MutexInv'
    BY <1>7 DEF TypeOK, MutexInv, Holding, Issued, Expire, Goto
  <1>8. CASE SyncTick
    BY <1>8 DEF TypeOK, MutexInv, Holding, Issued, SyncTick
  <1>9. CASE SyncRead
    BY <1>9 DEF TypeOK, MutexInv, Holding, Issued, SyncRead
  <1>10. CASE SyncSkip
    BY <1>10 DEF TypeOK, MutexInv, Holding, Issued, SyncSkip
  <1>11. CASE NodeAnswers
    BY <1>11 DEF TypeOK, MutexInv, Holding, Issued, NodeAnswers
  <1>12. CASE NodeFails
    BY <1>12 DEF TypeOK, MutexInv, Holding, Issued, NodeFails
  <1>13. CASE SyncApply
    BY <1>13 DEF TypeOK, MutexInv, Holding, Issued, SyncApply
  <1>14. ASSUME NEW w \in Wallets, Foreign(w) PROVE MutexInv'
    BY <1>14 DEF TypeOK, MutexInv, Holding, Issued, Foreign
  <1>15. CASE UNCHANGED vars
    BY <1>15 DEF TypeOK, MutexInv, Holding, Issued, vars
  <1>16. QED
    BY <1>1, <1>2, <1>3, <1>4, <1>5, <1>6, <1>7, <1>8, <1>9, <1>10, <1>11, <1>12, <1>13, <1>14, <1>15 DEF Next, Call, Outcome, Sync

(* Calls wait for the startup sync. *)
LEMMA StepStartup ==
  ASSUME TypeOK, StartupInv, [Next]_vars
  PROVE  StartupInv'
  <1>1. ASSUME NEW t \in Tasks, Claim(t) PROVE StartupInv'
    BY <1>1 DEF TypeOK, StartupInv, Issued, Claim, Goto
  <1>2. ASSUME NEW t \in Tasks, Lock(t) PROVE StartupInv'
    BY <1>2 DEF TypeOK, StartupInv, Issued, Lock, Goto
  <1>3. ASSUME NEW t \in Tasks, Load(t) PROVE StartupInv'
    BY <1>3 DEF TypeOK, StartupInv, Issued, Load, Goto
  <1>4. ASSUME NEW t \in Tasks, Commit(t) PROVE StartupInv'
    BY <1>4 DEF TypeOK, StartupInv, Issued, Commit, Goto
  <1>5. ASSUME NEW t \in Tasks, Refuse(t) PROVE StartupInv'
    BY <1>5 DEF TypeOK, StartupInv, Issued, Refuse, Goto
  <1>6. ASSUME NEW t \in Tasks, Land(t) PROVE StartupInv'
    BY <1>6 DEF TypeOK, StartupInv, Issued, Land, Goto
  <1>7. ASSUME NEW t \in Tasks, Expire(t) PROVE StartupInv'
    BY <1>7 DEF TypeOK, StartupInv, Issued, Expire, Goto
  <1>8. CASE SyncTick
    BY <1>8 DEF TypeOK, StartupInv, Issued, SyncTick
  <1>9. CASE SyncRead
    BY <1>9 DEF TypeOK, StartupInv, Issued, SyncRead
  <1>10. CASE SyncSkip
    BY <1>10 DEF TypeOK, StartupInv, Issued, SyncSkip, Advance
  <1>11. CASE NodeAnswers
    BY <1>11 DEF TypeOK, StartupInv, Issued, NodeAnswers
  <1>12. CASE NodeFails
    BY <1>12 DEF TypeOK, StartupInv, Issued, NodeFails, Advance
  <1>13. CASE SyncApply
    BY <1>13 DEF TypeOK, StartupInv, Issued, SyncApply, Advance
  <1>14. ASSUME NEW w \in Wallets, Foreign(w) PROVE StartupInv'
    BY <1>14 DEF TypeOK, StartupInv, Issued, Foreign
  <1>15. CASE UNCHANGED vars
    BY <1>15 DEF TypeOK, StartupInv, Issued, vars
  <1>16. QED
    BY <1>1, <1>2, <1>3, <1>4, <1>5, <1>6, <1>7, <1>8, <1>9, <1>10, <1>11, <1>12, <1>13, <1>14, <1>15 DEF Next, Call, Outcome, Sync

(* Across the await next_nonce only grows, one issued nonce at a time. *)
LEMMA StepAwait ==
  ASSUME TypeOK, MutexInv, AwaitInv, [Next]_vars
  PROVE  AwaitInv'
  <1>1. ASSUME NEW t \in Tasks, Claim(t) PROVE AwaitInv'
    BY <1>1 DEF TypeOK, MutexInv, AwaitInv, Holding, Awaiting, Issued, IssuedBy, Claim, Goto
  <1>2. ASSUME NEW t \in Tasks, Lock(t) PROVE AwaitInv'
    BY <1>2 DEF TypeOK, MutexInv, AwaitInv, Holding, Awaiting, Issued, IssuedBy, Lock, Goto
  <1>3. ASSUME NEW t \in Tasks, Load(t) PROVE AwaitInv'
    BY <1>3 DEF TypeOK, MutexInv, AwaitInv, Holding, Awaiting, Issued, IssuedBy, Load, Goto
  <1>4. ASSUME NEW t \in Tasks, Commit(t) PROVE AwaitInv'
    BY <1>4 DEF TypeOK, MutexInv, AwaitInv, Holding, Awaiting, Issued, IssuedBy, Commit, Goto
  <1>5. ASSUME NEW t \in Tasks, Refuse(t) PROVE AwaitInv'
    BY <1>5 DEF TypeOK, MutexInv, AwaitInv, Holding, Awaiting, Issued, IssuedBy, Refuse, Goto
  <1>6. ASSUME NEW t \in Tasks, Land(t) PROVE AwaitInv'
    BY <1>6 DEF TypeOK, MutexInv, AwaitInv, Holding, Awaiting, Issued, IssuedBy, Land, Goto
  <1>7. ASSUME NEW t \in Tasks, Expire(t) PROVE AwaitInv'
    BY <1>7 DEF TypeOK, MutexInv, AwaitInv, Holding, Awaiting, Issued, IssuedBy, Expire, Goto
  <1>8. CASE SyncTick
    BY <1>8 DEF TypeOK, MutexInv, AwaitInv, Holding, Awaiting, Issued, IssuedBy, SyncTick
  <1>9. CASE SyncRead
    <2>1. \A t \in Tasks : pc[t] = "callback" => idx[t] # syncAt
      BY <1>9, NoTaskAssumption DEF MutexInv, Holding, SyncRead
    <2>2. /\ current' = next_nonce'[syncAt']
          /\ next_nonce'[syncAt'] \in Nat
          /\ UNCHANGED <<pc, idx, nonce, syncAt>>
      BY <1>9 DEF TypeOK, SyncRead
    <2>3. QED
      BY <2>1, <2>2 DEF AwaitInv
  <1>10. CASE SyncSkip
    BY <1>10 DEF TypeOK, MutexInv, AwaitInv, Holding, Awaiting, Issued, IssuedBy, SyncSkip, Advance
  <1>11. CASE NodeAnswers
    BY <1>11 DEF TypeOK, MutexInv, AwaitInv, Holding, Awaiting, Issued, IssuedBy, NodeAnswers
  <1>12. CASE NodeFails
    BY <1>12 DEF TypeOK, MutexInv, AwaitInv, Holding, Awaiting, Issued, IssuedBy, NodeFails, Advance
  <1>13. CASE SyncApply
    BY <1>13 DEF TypeOK, MutexInv, AwaitInv, Holding, Awaiting, Issued, IssuedBy, SyncApply, Advance
  <1>14. ASSUME NEW w \in Wallets, Foreign(w) PROVE AwaitInv'
    BY <1>14 DEF TypeOK, MutexInv, AwaitInv, Holding, Awaiting, Issued, IssuedBy, Foreign
  <1>15. CASE UNCHANGED vars
    BY <1>15 DEF TypeOK, MutexInv, AwaitInv, Holding, Awaiting, Issued, IssuedBy, vars
  <1>16. QED
    BY <1>1, <1>2, <1>3, <1>4, <1>5, <1>6, <1>7, <1>8, <1>9, <1>10, <1>11, <1>12, <1>13, <1>14, <1>15 DEF Next, Call, Outcome, Sync

(* Unless rewound, nonces are handed out in increasing order. *)
LEMMA StepOrder ==
  ASSUME TypeOK, MutexInv, StartupInv, OrderInv, [Next]_vars
  PROVE  OrderInv'
  <1>1. ASSUME NEW t \in Tasks, Claim(t) PROVE OrderInv'
    BY <1>1 DEF TypeOK, MutexInv, OrderInv, Holding, Issued, IssuedBy, Claim, Goto
  <1>2. ASSUME NEW t \in Tasks, Lock(t) PROVE OrderInv'
    BY <1>2 DEF TypeOK, MutexInv, OrderInv, Holding, Issued, IssuedBy, Lock, Goto
  <1>3. ASSUME NEW t \in Tasks, Load(t) PROVE OrderInv'
    BY <1>3 DEF TypeOK, MutexInv, OrderInv, Holding, Issued, IssuedBy, Load, Goto
  <1>4. ASSUME NEW t \in Tasks, Commit(t) PROVE OrderInv'
    BY <1>4 DEF TypeOK, MutexInv, OrderInv, Holding, Issued, IssuedBy, Commit, Goto
  <1>5. ASSUME NEW t \in Tasks, Refuse(t) PROVE OrderInv'
    BY <1>5 DEF TypeOK, MutexInv, OrderInv, Holding, Issued, IssuedBy, Refuse, Goto
  <1>6. ASSUME NEW t \in Tasks, Land(t) PROVE OrderInv'
    BY <1>6 DEF TypeOK, MutexInv, OrderInv, Holding, Issued, IssuedBy, Land, Goto
  <1>7. ASSUME NEW t \in Tasks, Expire(t) PROVE OrderInv'
    BY <1>7 DEF TypeOK, MutexInv, OrderInv, Holding, Issued, IssuedBy, Expire, Goto
  <1>8. CASE SyncTick
    BY <1>8 DEF TypeOK, MutexInv, OrderInv, Holding, Issued, IssuedBy, SyncTick
  <1>9. CASE SyncRead
    BY <1>9 DEF TypeOK, MutexInv, OrderInv, Holding, Issued, IssuedBy, SyncRead
  <1>10. CASE SyncSkip
    BY <1>10 DEF TypeOK, MutexInv, OrderInv, Holding, Issued, IssuedBy, SyncSkip
  <1>11. CASE NodeAnswers
    BY <1>11 DEF TypeOK, MutexInv, OrderInv, Holding, Issued, IssuedBy, NodeAnswers
  <1>12. CASE NodeFails
    BY <1>12 DEF TypeOK, MutexInv, OrderInv, Holding, Issued, IssuedBy, NodeFails
  <1>13. CASE SyncApply
    <2>1. UNCHANGED <<pc, idx, nonce>>
      BY <1>13 DEF SyncApply
    <2>2. CASE ~started
      BY <2>1, <2>2 DEF StartupInv, OrderInv, Issued, IssuedBy
    <2>3. CASE started
      <3> SUFFICES ASSUME NEW w \in Wallets, stores'[w] # "backward"
                   PROVE  /\ stores[w] # "backward"
                          /\ next_nonce[w] \in Nat
                          /\ next_nonce'[w] \in Nat
                          /\ next_nonce[w] <= next_nonce'[w]
        BY <2>1 DEF TypeOK, OrderInv, IssuedBy
      <3> QED
        BY <1>13, <2>3 DEF TypeOK, SyncApply, Worst
    <2>4. QED
      BY <2>2, <2>3 DEF TypeOK
  <1>14. ASSUME NEW w \in Wallets, Foreign(w) PROVE OrderInv'
    BY <1>14 DEF TypeOK, MutexInv, OrderInv, Holding, Issued, IssuedBy, Foreign
  <1>15. CASE UNCHANGED vars
    BY <1>15 DEF TypeOK, MutexInv, OrderInv, Holding, Issued, IssuedBy, vars
  <1>16. QED
    BY <1>1, <1>2, <1>3, <1>4, <1>5, <1>6, <1>7, <1>8, <1>9, <1>10, <1>11, <1>12, <1>13, <1>14, <1>15 DEF Next, Call, Outcome, Sync

(* Unless rewound, a nonce is handed out once. *)
LEMMA StepUnique ==
  ASSUME TypeOK, OrderInv, UniqueUnlessBackward, [Next]_vars
  PROVE  UniqueUnlessBackward'
  <1>1. ASSUME NEW t \in Tasks, Claim(t) PROVE UniqueUnlessBackward'
    BY <1>1 DEF TypeOK, OrderInv, UniqueUnlessBackward, Issued, IssuedBy, Claim, Goto
  <1>2. ASSUME NEW t \in Tasks, Lock(t) PROVE UniqueUnlessBackward'
    BY <1>2 DEF TypeOK, OrderInv, UniqueUnlessBackward, Issued, IssuedBy, Lock, Goto
  <1>3. ASSUME NEW t \in Tasks, Load(t) PROVE UniqueUnlessBackward'
    BY <1>3 DEF TypeOK, OrderInv, UniqueUnlessBackward, Issued, IssuedBy, Load, Goto
  <1>4. ASSUME NEW t \in Tasks, Commit(t) PROVE UniqueUnlessBackward'
    BY <1>4 DEF TypeOK, OrderInv, UniqueUnlessBackward, Issued, IssuedBy, Commit, Goto
  <1>5. ASSUME NEW t \in Tasks, Refuse(t) PROVE UniqueUnlessBackward'
    BY <1>5 DEF TypeOK, OrderInv, UniqueUnlessBackward, Issued, IssuedBy, Refuse, Goto
  <1>6. ASSUME NEW t \in Tasks, Land(t) PROVE UniqueUnlessBackward'
    BY <1>6 DEF TypeOK, OrderInv, UniqueUnlessBackward, Issued, IssuedBy, Land, Goto
  <1>7. ASSUME NEW t \in Tasks, Expire(t) PROVE UniqueUnlessBackward'
    BY <1>7 DEF TypeOK, OrderInv, UniqueUnlessBackward, Issued, IssuedBy, Expire, Goto
  <1>8. CASE SyncTick
    BY <1>8 DEF TypeOK, OrderInv, UniqueUnlessBackward, Issued, IssuedBy, SyncTick
  <1>9. CASE SyncRead
    BY <1>9 DEF TypeOK, OrderInv, UniqueUnlessBackward, Issued, IssuedBy, SyncRead
  <1>10. CASE SyncSkip
    BY <1>10 DEF TypeOK, OrderInv, UniqueUnlessBackward, Issued, IssuedBy, SyncSkip
  <1>11. CASE NodeAnswers
    BY <1>11 DEF TypeOK, OrderInv, UniqueUnlessBackward, Issued, IssuedBy, NodeAnswers
  <1>12. CASE NodeFails
    BY <1>12 DEF TypeOK, OrderInv, UniqueUnlessBackward, Issued, IssuedBy, NodeFails
  <1>13. CASE SyncApply
    BY <1>13 DEF TypeOK, OrderInv, UniqueUnlessBackward, Issued, IssuedBy, SyncApply, Worst
  <1>14. ASSUME NEW w \in Wallets, Foreign(w) PROVE UniqueUnlessBackward'
    BY <1>14 DEF TypeOK, OrderInv, UniqueUnlessBackward, Issued, IssuedBy, Foreign
  <1>15. CASE UNCHANGED vars
    BY <1>15 DEF TypeOK, OrderInv, UniqueUnlessBackward, Issued, IssuedBy, vars
  <1>16. QED
    BY <1>1, <1>2, <1>3, <1>4, <1>5, <1>6, <1>7, <1>8, <1>9, <1>10, <1>11, <1>12, <1>13, <1>14, <1>15 DEF Next, Call, Outcome, Sync

(* Until the background sync stores, no nonce is skipped. *)
LEMMA StepContiguous ==
  ASSUME TypeOK, MutexInv, StartupInv, ContiguousInv, [Next]_vars
  PROVE  ContiguousInv'
  <1>1. ASSUME NEW t \in Tasks, Claim(t) PROVE ContiguousInv'
    BY <1>1 DEF TypeOK, MutexInv, StartupInv, ContiguousInv, Holding, Issued, IssuedBy, Claim, Goto
  <1>2. ASSUME NEW t \in Tasks, Lock(t) PROVE ContiguousInv'
    BY <1>2 DEF TypeOK, MutexInv, StartupInv, ContiguousInv, Holding, Issued, IssuedBy, Lock, Goto
  <1>3. ASSUME NEW t \in Tasks, Load(t) PROVE ContiguousInv'
    BY <1>3 DEF TypeOK, MutexInv, StartupInv, ContiguousInv, Holding, Issued, IssuedBy, Load, Goto
  <1>4. ASSUME NEW t \in Tasks, Commit(t) PROVE ContiguousInv'
    BY <1>4 DEF TypeOK, MutexInv, StartupInv, ContiguousInv, Holding, Issued, IssuedBy, Commit, Goto
  <1>5. ASSUME NEW t \in Tasks, Refuse(t) PROVE ContiguousInv'
    BY <1>5 DEF TypeOK, MutexInv, StartupInv, ContiguousInv, Holding, Issued, IssuedBy, Refuse, Goto
  <1>6. ASSUME NEW t \in Tasks, Land(t) PROVE ContiguousInv'
    BY <1>6 DEF TypeOK, MutexInv, StartupInv, ContiguousInv, Holding, Issued, IssuedBy, Land, Goto
  <1>7. ASSUME NEW t \in Tasks, Expire(t) PROVE ContiguousInv'
    BY <1>7 DEF TypeOK, MutexInv, StartupInv, ContiguousInv, Holding, Issued, IssuedBy, Expire, Goto
  <1>8. CASE SyncTick
    BY <1>8 DEF TypeOK, MutexInv, StartupInv, ContiguousInv, Holding, Issued, IssuedBy, SyncTick
  <1>9. CASE SyncRead
    BY <1>9 DEF TypeOK, MutexInv, StartupInv, ContiguousInv, Holding, Issued, IssuedBy, SyncRead
  <1>10. CASE SyncSkip
    BY <1>10 DEF TypeOK, MutexInv, StartupInv, ContiguousInv, Holding, Issued, IssuedBy, SyncSkip
  <1>11. CASE NodeAnswers
    BY <1>11 DEF TypeOK, MutexInv, StartupInv, ContiguousInv, Holding, Issued, IssuedBy, NodeAnswers
  <1>12. CASE NodeFails
    BY <1>12 DEF TypeOK, MutexInv, StartupInv, ContiguousInv, Holding, Issued, IssuedBy, NodeFails
  <1>13. CASE SyncApply
    <2>1. UNCHANGED <<pc, idx, nonce>>
      BY <1>13 DEF SyncApply
    <2>2. CASE ~started
      <3>1. /\ base' = next_nonce'
            /\ next_nonce' \in [Wallets -> Nat]
        BY <1>13, <2>2 DEF TypeOK, StartupInv, SyncApply
      <3>2. \A t \in Tasks : pc'[t] = "new"
        BY <2>1, <2>2 DEF StartupInv
      <3>3. QED
        BY <3>1, <3>2 DEF ContiguousInv, Issued, IssuedBy
    <2>3. CASE started
      <3>1. \A w \in Wallets : stores'[w] = "none" =>
               /\ stores[w] = "none"
               /\ next_nonce'[w] = next_nonce[w]
               /\ base'[w] = base[w]
        BY <1>13, <2>3 DEF TypeOK, SyncApply, Worst
      <3>2. QED
        BY <2>1, <3>1 DEF ContiguousInv, IssuedBy
    <2>4. QED
      BY <2>2, <2>3 DEF TypeOK
  <1>14. ASSUME NEW w \in Wallets, Foreign(w) PROVE ContiguousInv'
    BY <1>14 DEF TypeOK, MutexInv, StartupInv, ContiguousInv, Holding, Issued, IssuedBy, Foreign
  <1>15. CASE UNCHANGED vars
    BY <1>15 DEF TypeOK, MutexInv, StartupInv, ContiguousInv, Holding, Issued, IssuedBy, vars
  <1>16. QED
    BY <1>1, <1>2, <1>3, <1>4, <1>5, <1>6, <1>7, <1>8, <1>9, <1>10, <1>11, <1>12, <1>13, <1>14, <1>15 DEF Next, Call, Outcome, Sync

(* The last count applied is never undercut. *)
LEMMA StepApplied ==
  ASSUME TypeOK, AwaitInv, NeverBelowApplied, [Next]_vars
  PROVE  NeverBelowApplied'
  <1>1. ASSUME NEW t \in Tasks, Claim(t) PROVE NeverBelowApplied'
    BY <1>1 DEF TypeOK, AwaitInv, NeverBelowApplied, Awaiting, Claim, Goto
  <1>2. ASSUME NEW t \in Tasks, Lock(t) PROVE NeverBelowApplied'
    BY <1>2 DEF TypeOK, AwaitInv, NeverBelowApplied, Awaiting, Lock, Goto
  <1>3. ASSUME NEW t \in Tasks, Load(t) PROVE NeverBelowApplied'
    BY <1>3 DEF TypeOK, AwaitInv, NeverBelowApplied, Awaiting, Load, Goto
  <1>4. ASSUME NEW t \in Tasks, Commit(t) PROVE NeverBelowApplied'
    BY <1>4 DEF TypeOK, AwaitInv, NeverBelowApplied, Awaiting, Commit, Goto
  <1>5. ASSUME NEW t \in Tasks, Refuse(t) PROVE NeverBelowApplied'
    BY <1>5 DEF TypeOK, AwaitInv, NeverBelowApplied, Awaiting, Refuse, Goto
  <1>6. ASSUME NEW t \in Tasks, Land(t) PROVE NeverBelowApplied'
    BY <1>6 DEF TypeOK, AwaitInv, NeverBelowApplied, Awaiting, Land, Goto
  <1>7. ASSUME NEW t \in Tasks, Expire(t) PROVE NeverBelowApplied'
    BY <1>7 DEF TypeOK, AwaitInv, NeverBelowApplied, Awaiting, Expire, Goto
  <1>8. CASE SyncTick
    BY <1>8 DEF TypeOK, AwaitInv, NeverBelowApplied, Awaiting, SyncTick
  <1>9. CASE SyncRead
    BY <1>9 DEF TypeOK, AwaitInv, NeverBelowApplied, Awaiting, SyncRead
  <1>10. CASE SyncSkip
    BY <1>10 DEF TypeOK, AwaitInv, NeverBelowApplied, Awaiting, SyncSkip
  <1>11. CASE NodeAnswers
    BY <1>11 DEF TypeOK, AwaitInv, NeverBelowApplied, Awaiting, NodeAnswers
  <1>12. CASE NodeFails
    BY <1>12 DEF TypeOK, AwaitInv, NeverBelowApplied, Awaiting, NodeFails
  <1>13. CASE SyncApply
    BY <1>13 DEF TypeOK, AwaitInv, NeverBelowApplied, Awaiting, SyncApply
  <1>14. ASSUME NEW w \in Wallets, Foreign(w) PROVE NeverBelowApplied'
    BY <1>14 DEF TypeOK, AwaitInv, NeverBelowApplied, Awaiting, Foreign
  <1>15. CASE UNCHANGED vars
    BY <1>15 DEF TypeOK, AwaitInv, NeverBelowApplied, Awaiting, vars
  <1>16. QED
    BY <1>1, <1>2, <1>3, <1>4, <1>5, <1>6, <1>7, <1>8, <1>9, <1>10, <1>11, <1>12, <1>13, <1>14, <1>15 DEF Next, Call, Outcome, Sync

-----------------------------------------------------------------------------
(* The pool starts with the counts the node reported. *)
LEMMA InitInv == Init => IInv
  <1> SUFFICES ASSUME Init PROVE IInv
    OBVIOUS
  <1>1. TypeOK
    BY ZeroWallet, StartCountsAssumption DEF Init, TypeOK
  <1>2. MutexInv /\ StartupInv /\ AwaitInv /\ OrderInv
    BY ZeroWallet DEF Init, MutexInv, StartupInv, AwaitInv, OrderInv,
       Holding, Awaiting, Issued, IssuedBy
  <1>3. UniqueUnlessBackward /\ ContiguousInv /\ NeverBelowApplied
    BY DEF Init, UniqueUnlessBackward, ContiguousInv, NeverBelowApplied,
       Issued, IssuedBy
  <1>4. QED
    BY <1>1, <1>2, <1>3 DEF IInv

(* Every action keeps the invariant. *)
LEMMA StepInv == IInv /\ [Next]_vars => IInv'
  BY StepType, StepMutex, StepStartup, StepAwait, StepOrder,
     StepUnique, StepContiguous, StepApplied DEF IInv

(* The invariant holds in every reachable state. *)
LEMMA Invariance == Spec => []IInv
  BY InitInv, StepInv, PTL DEF Spec

(* The types of all variables, for any number of wallets and calls. *)
THEOREM TypeCorrect == Spec => []TypeOK
  <1>1. IInv => TypeOK
    BY DEF IInv
  <1>2. QED
    BY <1>1, Invariance, PTL

(* The mutex and fetch_add of execute_with_wallet never give one nonce of  *)
(* a wallet to two calls, unless the background sync stored a count below  *)
(* next_nonce.                                                             *)
THEOREM UniqueNonces == Spec => []UniqueUnlessBackward
  <1>1. IInv => UniqueUnlessBackward
    BY DEF IInv
  <1>2. QED
    BY <1>1, Invariance, PTL

(* Until the background sync stores a count, the nonces given out are the  *)
(* startup count and its successors, with none left out: a refused         *)
(* callback gives its nonce back.                                          *)
THEOREM ContiguousNonces == Spec => []ContiguousUnlessSynced
  <1>1. IInv => ContiguousUnlessSynced
    BY DEF IInv, TypeOK, ContiguousInv, ContiguousUnlessSynced, IssuedBy
  <1>2. QED
    BY <1>1, Invariance, PTL

(* Whatever the interleaving of calls and sync, next_nonce never falls     *)
(* below the last transaction count the sync was told.                     *)
THEOREM CountsKept == Spec => []NeverBelowApplied
  <1>1. IInv => NeverBelowApplied
    BY DEF IInv
  <1>2. QED
    BY <1>1, Invariance, PTL

-----------------------------------------------------------------------------
(* The only step that lowers a next_nonce is a store of the sync task, and *)
(* it goes back over at least two nonces that calls were given while the   *)
(* node was being asked.                                                   *)
THEOREM RewindsExplained == Spec => BackwardOnlyOverAwaitedCalls
  <1>1. IInv /\ [Next]_vars => [RewindsAwaitedCalls]_vars
    <2> SUFFICES ASSUME IInv, Next, NEW w \in Wallets,
                        next_nonce'[w] < next_nonce[w]
                 PROVE  /\ w = syncAt
                        /\ next_nonce[w] - current >= 2
                        /\ \A n \in current .. next_nonce[w] - 1 :
                              \E t \in IssuedBy(w) : nonce[t] = n
      BY DEF RewindsAwaitedCalls
    <2> USE DEF IInv, TypeOK
    <2>1. CASE \E t \in Tasks : Call(t) \/ Outcome(t)
      BY <2>1 DEF Call, Claim, Lock, Load, Commit, Refuse, Outcome, Land, Expire
    <2>2. CASE \E v \in Wallets : Foreign(v)
      BY <2>2 DEF Foreign
    <2>3. CASE Sync
      <3>1. SyncApply /\ reply > current /\ w = syncAt /\ next_nonce'[w] = reply
        BY <2>3 DEF Sync, SyncTick, SyncRead, SyncSkip, NodeAnswers, NodeFails,
           SyncApply
      <3>2. syncPc \in Awaiting
        BY <3>1 DEF SyncApply, Awaiting
      <3>3. QED
        BY <3>1, <3>2 DEF AwaitInv
    <2>4. QED
      BY <2>1, <2>2, <2>3 DEF Next
  <1>2. QED
    BY <1>1, Invariance, PTL DEF Spec, BackwardOnlyOverAwaitedCalls

(* The lease function and the void set of the refinement mapping. *)
LeaseOf(t) ==
    IF pc[t] \in Issued
    THEN [granted |-> TRUE, wallet |-> idx[t], nonce |-> nonce[t]]
    ELSE [granted |-> FALSE]
Void == {w \in Wallets : stores[w] = "backward"}

(* Releasing the lock with the nonce consumed is the grant of a lease. *)
LEMMA CommitGrants ==
  ASSUME IInv, NEW t \in Tasks, Commit(t)
  PROVE  Allocator!Grant(t)
  <1>1. /\ pc[t] = "callback"
        /\ pc' = [pc EXCEPT ![t] = "issued"]
        /\ UNCHANGED <<idx, nonce, stores>>
    BY DEF Commit, Goto
  <1>2. LeaseOf(t) = [granted |-> FALSE]
    BY <1>1 DEF LeaseOf, Issued
  <1>3. LeaseOf(t)' = [granted |-> TRUE, wallet |-> idx[t], nonce |-> nonce[t]]
    BY <1>1 DEF LeaseOf, Issued, IInv, TypeOK
  <1>4. \A u \in Tasks : u # t => LeaseOf(u)' = LeaseOf(u)
    BY <1>1 DEF LeaseOf, IInv, TypeOK
  <1>5. idx[t] \in Wallets /\ nonce[t] \in Nat
    BY DEF IInv, TypeOK
  <1>6. \A u \in Tasks :
          (LeaseOf(u).granted /\ LeaseOf(u).wallet = idx[t])
             => (LeaseOf(u).nonce < nonce[t] \/ idx[t] \in Void)
    BY <1>1, <1>5 DEF LeaseOf, Void, IInv, OrderInv, IssuedBy
  <1>7. Void' = Void
    BY <1>1 DEF Void
  <1>8. [u \in Tasks |-> LeaseOf(u)]'
          = [[u \in Tasks |-> LeaseOf(u)] EXCEPT ![t] = LeaseOf(t)']
    BY <1>4
  <1>9. QED
    BY <1>2, <1>3, <1>5, <1>6, <1>7, <1>8
       DEF Allocator!Grant, Allocator!NoLease, LeaseOf, Void

(* The pool implements the allocator: every call that returns Ok is one    *)
(* grant in increasing order, a backward store is the rewind that voids    *)
(* the promise, and every other step is invisible.                         *)
THEOREM PoolImplementsAllocator == Spec => Allocates
  <1>1. Init => Allocator!Init
    BY DEF Init, Issued, Allocator!Init, Allocator!NoLease
  <1>2. IInv /\ [Next]_vars =>
          [Allocator!Next]_<<[t \in Tasks |-> LeaseOf(t)], Void>>
    <2> SUFFICES ASSUME IInv, [Next]_vars
                 PROVE  \/ Allocator!Next
                        \/ UNCHANGED <<[t \in Tasks |-> LeaseOf(t)], Void>>
      OBVIOUS
    <2>1. ASSUME NEW t \in Tasks, Commit(t) PROVE Allocator!Next
      BY <2>1, CommitGrants DEF Allocator!Next
    <2>2. CASE SyncApply
      <3>1. UNCHANGED <<pc, idx, nonce>>
        BY <2>2 DEF SyncApply
      <3>2. Void' = Void \/ Void' = Void \cup {syncAt}
        BY <2>2 DEF IInv, TypeOK, SyncApply, Void, Worst
      <3>3. QED
        BY <3>1, <3>2
           DEF IInv, TypeOK, Void, LeaseOf, Allocator!Next, Allocator!Rewind
    <2>3. ASSUME NEW t \in Tasks,
                 \/ Claim(t) \/ Lock(t) \/ Load(t) \/ Refuse(t) \/ Outcome(t)
          PROVE  UNCHANGED <<[u \in Tasks |-> LeaseOf(u)], Void>>
      <3>1. /\ UNCHANGED stores
            /\ \A u \in Tasks : LeaseOf(u)' = LeaseOf(u)
        BY <2>3 DEF IInv, TypeOK, LeaseOf, Issued, Claim, Lock, Load, Refuse,
           Outcome, Land, Expire, Goto
      <3>2. QED
        BY <3>1 DEF Void
    <2>4. CASE UNCHANGED <<pc, idx, nonce, stores>>
      BY <2>4 DEF LeaseOf, Void
    <2>5. ASSUME NEW w \in Wallets, Foreign(w)
          PROVE  UNCHANGED <<pc, idx, nonce, stores>>
      BY <2>5 DEF Foreign
    <2>6. CASE Sync
      BY <2>2, <2>4, <2>6 DEF Sync, SyncTick, SyncRead, SyncSkip, NodeAnswers,
         NodeFails
    <2>7. CASE UNCHANGED vars
      BY <2>4, <2>7 DEF vars
    <2>8. QED
      BY <2>1, <2>3, <2>4, <2>5, <2>6, <2>7 DEF Next, Call
  <1>3. QED
    BY <1>1, <1>2, Invariance, PTL
       DEF Spec, Allocates, Allocator!Spec, LeaseOf, Void

=============================================================================
