----------------------------- MODULE WalletPool -----------------------------
(***************************************************************************)
(* The nonce allocator of src/executor/wallet.rs: a vector of wallets,     *)
(* each with a mutex and an atomic next_nonce, a shared round-robin        *)
(* counter, and the sync_nonces task that main.rs runs once at startup and *)
(* then every 30 s.  The chain is external: it counts the transactions     *)
(* mined for each wallet.                                                  *)
(*                                                                         *)
(* A task is one call of execute_with_wallet.  It stays in pc "issued"     *)
(* while its signed bundle may still land; a bundle names one target       *)
(* block, so in the end it lands or expires: the call is "settled".        *)
(***************************************************************************)
EXTENDS Integers

CONSTANTS
    NumWallets,     \* private keys in the configuration
    Tasks,          \* calls of execute_with_wallet
    NoTask,         \* "the mutex is free"
    StartCounts,    \* transaction counts the chain may hold at startup
    MinedWallets,   \* bound: transactions of other wallets are not mined
    MaxCount        \* bound: no transaction is mined beyond this count

ASSUME NumWalletsAssumption == NumWallets \in Nat \ {0}
ASSUME NoTaskAssumption == NoTask \notin Tasks
ASSUME StartCountsAssumption == StartCounts \subseteq Nat

VARIABLES
    \* WalletPool and ManagedWallet
    current_index, mutex, next_nonce,
    \* the calls of execute_with_wallet
    pc, idx, nonce,
    \* the one sync_nonces call in progress
    started, syncPc, syncAt, current, reply,
    \* external: transactions mined for each wallet
    chain,
    \* history: next_nonce when startup ended, the last count applied, and
    \* the worst store of the background sync so far
    base, applied, stores

poolVars == <<current_index, mutex, next_nonce>>
taskVars == <<pc, idx, nonce>>
syncVars == <<started, syncPc, syncAt, current, reply>>
histVars == <<base, applied, stores>>
vars == <<poolVars, taskVars, syncVars, chain, histVars>>

Wallets == 0 .. NumWallets - 1
Issued == {"issued", "settled"}

-----------------------------------------------------------------------------
Init ==
    /\ current_index = 0
    /\ mutex = [w \in Wallets |-> NoTask]
    /\ next_nonce = [w \in Wallets |-> 0]
    /\ pc = [t \in Tasks |-> "new"]
    /\ idx = [t \in Tasks |-> 0]
    /\ nonce = [t \in Tasks |-> 0]
    /\ started = FALSE
    /\ syncPc = "visit"
    /\ syncAt = 0
    /\ current = 0
    /\ reply = 0
    /\ chain \in [Wallets -> StartCounts]
    /\ base = [w \in Wallets |-> 0]
    /\ applied = [w \in Wallets |-> 0]
    /\ stores = [w \in Wallets |-> "none"]

-----------------------------------------------------------------------------
(* execute_with_wallet *)

Goto(t, label) == pc' = [pc EXCEPT ![t] = label]

(* Mutant of Claim: the index is not reduced modulo the wallet count. *)
ClaimUnreduced(t) ==
    /\ started
    /\ pc[t] = "new"
    /\ idx' = [idx EXCEPT ![t] = current_index]
    /\ current_index' = current_index + 1
    /\ Goto(t, "lock")
    /\ UNCHANGED <<mutex, next_nonce, nonce, syncVars, chain, histVars>>

(* current_index.fetch_add(1) % wallets.len() *)
Claim(t) ==
    /\ started
    /\ pc[t] = "new"
    /\ idx' = [idx EXCEPT ![t] = current_index % NumWallets]
    /\ current_index' = current_index + 1
    /\ Goto(t, "lock")
    /\ UNCHANGED <<mutex, next_nonce, nonce, syncVars, chain, histVars>>

(* Mutant of Lock: the mutex is not waited for. *)
LockUnguarded(t) ==
    /\ pc[t] = "lock"
    /\ mutex' = [mutex EXCEPT ![idx[t]] = t]
    /\ Goto(t, "load")
    /\ UNCHANGED <<current_index, next_nonce, idx, nonce, syncVars, chain, histVars>>

Lock(t) ==
    /\ pc[t] = "lock"
    /\ mutex[idx[t]] = NoTask
    /\ mutex' = [mutex EXCEPT ![idx[t]] = t]
    /\ Goto(t, "load")
    /\ UNCHANGED <<current_index, next_nonce, idx, nonce, syncVars, chain, histVars>>

Load(t) ==
    /\ pc[t] = "load"
    /\ nonce' = [nonce EXCEPT ![t] = next_nonce[idx[t]]]
    /\ Goto(t, "callback")
    /\ UNCHANGED <<poolVars, idx, syncVars, chain, histVars>>

(* Mutant of Commit: the loaded nonce plus one is stored. *)
CommitStale(t) ==
    /\ pc[t] = "callback"
    /\ next_nonce' = [next_nonce EXCEPT ![idx[t]] = nonce[t] + 1]
    /\ mutex' = [mutex EXCEPT ![idx[t]] = NoTask]
    /\ Goto(t, "issued")
    /\ UNCHANGED <<current_index, idx, nonce, syncVars, chain, histVars>>

(* The callback returned Ok: fetch_add, then the guard is dropped. *)
Commit(t) ==
    /\ pc[t] = "callback"
    /\ next_nonce' = [next_nonce EXCEPT ![idx[t]] = @ + 1]
    /\ mutex' = [mutex EXCEPT ![idx[t]] = NoTask]
    /\ Goto(t, "issued")
    /\ UNCHANGED <<current_index, idx, nonce, syncVars, chain, histVars>>

(* Mutants of Refuse: the nonce is consumed; the guard is kept. *)
RefuseConsumes(t) ==
    /\ pc[t] = "callback"
    /\ next_nonce' = [next_nonce EXCEPT ![idx[t]] = @ + 1]
    /\ mutex' = [mutex EXCEPT ![idx[t]] = NoTask]
    /\ Goto(t, "failed")
    /\ UNCHANGED <<current_index, idx, nonce, syncVars, chain, histVars>>
RefuseLocked(t) ==
    /\ pc[t] = "callback"
    /\ Goto(t, "failed")
    /\ UNCHANGED <<poolVars, idx, nonce, syncVars, chain, histVars>>

(* The callback returned Err: the nonce stays available. *)
Refuse(t) ==
    /\ pc[t] = "callback"
    /\ mutex' = [mutex EXCEPT ![idx[t]] = NoTask]
    /\ Goto(t, "failed")
    /\ UNCHANGED <<current_index, next_nonce, idx, nonce, syncVars, chain, histVars>>

-----------------------------------------------------------------------------
(* sync_nonces: the wallets in order, one provider call each. *)

(* On to the next wallet, or out of the loop: the first call ends startup. *)
Advance ==
    IF syncAt + 1 < NumWallets
    THEN /\ syncAt' = syncAt + 1
         /\ syncPc' = "visit"
         /\ UNCHANGED started
    ELSE /\ syncAt' = 0
         /\ syncPc' = "idle"
         /\ started' = TRUE

SyncTick ==
    /\ syncPc = "idle"
    /\ syncPc' = "visit"
    /\ UNCHANGED <<poolVars, taskVars, started, syncAt, current, reply, chain, histVars>>

(* Mutant of SyncRead: next_nonce is read without try_lock. *)
SyncReadUnlocked ==
    /\ syncPc = "visit"
    /\ current' = next_nonce[syncAt]
    /\ syncPc' = "query"
    /\ UNCHANGED <<poolVars, taskVars, started, syncAt, reply, chain, histVars>>

(* try_lock succeeds: next_nonce is read, and the lock is dropped again *)
(* before the await.                                                    *)
SyncRead ==
    /\ syncPc = "visit"
    /\ mutex[syncAt] = NoTask
    /\ current' = next_nonce[syncAt]
    /\ syncPc' = "query"
    /\ UNCHANGED <<poolVars, taskVars, started, syncAt, reply, chain, histVars>>

(* try_lock fails: this wallet waits for the next sync. *)
SyncSkip ==
    /\ syncPc = "visit"
    /\ mutex[syncAt] # NoTask
    /\ Advance
    /\ UNCHANGED <<poolVars, taskVars, current, reply, chain, histVars>>

(* The node reads the transaction count at some moment of the await. *)
NodeAnswers ==
    /\ syncPc = "query"
    /\ reply' = chain[syncAt]
    /\ syncPc' = "store"
    /\ UNCHANGED <<poolVars, taskVars, started, syncAt, current, chain, histVars>>

NodeFails ==
    /\ syncPc = "query"
    /\ Advance
    /\ current' = 0            \* the local goes out of scope
    /\ UNCHANGED <<poolVars, taskVars, reply, chain, histVars>>

(* What a store of the background sync leaves in the history. *)
Worst(w) ==
    IF reply < next_nonce[w] THEN "backward"
    ELSE IF stores[w] = "backward" THEN "backward" ELSE "forward"

(* Mutant of SyncApply: a lag of one is not repaired. *)
SyncApplyLate ==
    /\ syncPc = "store"
    /\ next_nonce' = IF reply > current + 1 THEN [next_nonce EXCEPT ![syncAt] = reply]
                     ELSE next_nonce
    /\ Advance
    /\ current' = 0 /\ reply' = 0
    /\ UNCHANGED <<current_index, mutex, taskVars, chain, histVars>>

(* if nonce > current { next_nonce.store(nonce) }, without the lock *)
SyncApply ==
    /\ syncPc = "store"
    /\ applied' = [applied EXCEPT ![syncAt] = reply]
    /\ IF reply > current
       THEN /\ next_nonce' = [next_nonce EXCEPT ![syncAt] = reply]
            /\ IF started
               THEN /\ stores' = [stores EXCEPT ![syncAt] = Worst(syncAt)]
                    /\ UNCHANGED base
               ELSE /\ base' = [base EXCEPT ![syncAt] = reply]
                    /\ UNCHANGED stores
       ELSE UNCHANGED <<next_nonce, stores, base>>
    /\ Advance
    /\ current' = 0 /\ reply' = 0
    /\ UNCHANGED <<current_index, mutex, taskVars, chain>>

-----------------------------------------------------------------------------
(* External: the chain and the relays. *)

(* A bundle can only be mined when its nonce is the account's next one. *)
Land(t) ==
    /\ pc[t] = "issued"
    /\ nonce[t] = chain[idx[t]]
    /\ idx[t] \in MinedWallets /\ chain[idx[t]] < MaxCount
    /\ chain' = [chain EXCEPT ![idx[t]] = @ + 1]
    /\ Goto(t, "settled")
    /\ UNCHANGED <<poolVars, idx, nonce, syncVars, histVars>>

(* Never submitted (dry run, signing error), refused, or too late. *)
Expire(t) ==
    /\ pc[t] = "issued"
    /\ Goto(t, "settled")
    /\ UNCHANGED <<poolVars, idx, nonce, syncVars, chain, histVars>>

(* The key is also used outside the bot. *)
Foreign(w) ==
    /\ w \in MinedWallets /\ chain[w] < MaxCount
    /\ chain' = [chain EXCEPT ![w] = @ + 1]
    /\ UNCHANGED <<poolVars, taskVars, syncVars, histVars>>

-----------------------------------------------------------------------------
Call(t) == Claim(t) \/ Lock(t) \/ Load(t) \/ Commit(t) \/ Refuse(t)
Sync == SyncTick \/ SyncRead \/ SyncSkip \/ NodeAnswers \/ NodeFails \/ SyncApply
Outcome(t) == Land(t) \/ Expire(t)

Next ==
    \/ \E t \in Tasks : Call(t) \/ Outcome(t)
    \/ Sync
    \/ \E w \in Wallets : Foreign(w)

Spec == Init /\ [][Next]_vars

(* A call that has begun runs on (no await inside it), the sync task is    *)
(* scheduled by tokio, and the node answers for every wallet now and then. *)
(* Nothing says that opportunities arrive, that bundles land or that       *)
(* nobody else uses the keys.                                              *)
Fairness ==
    /\ \A t \in Tasks : WF_vars(Lock(t) \/ Load(t) \/ Commit(t) \/ Refuse(t))
    /\ \A t \in Tasks : WF_vars(Outcome(t))
    /\ WF_vars(Sync)
    /\ \A w \in Wallets : SF_vars(syncAt = w /\ NodeAnswers)

FairSpec == Spec /\ Fairness

-----------------------------------------------------------------------------
(* Properties *)

(* The types of all variables. *)
TypeOK ==
    /\ current_index \in Nat
    /\ mutex \in [Wallets -> Tasks \cup {NoTask}]
    /\ next_nonce \in [Wallets -> Nat]
    /\ pc \in [Tasks -> {"new", "lock", "load", "callback", "failed"} \cup Issued]
    /\ idx \in [Tasks -> Wallets]
    /\ nonce \in [Tasks -> Nat]
    /\ started \in BOOLEAN
    /\ syncPc \in {"idle", "visit", "query", "store"}
    /\ syncAt \in Wallets
    /\ current \in Nat
    /\ reply \in Nat
    /\ chain \in [Wallets -> Nat]
    /\ base \in [Wallets -> Nat]
    /\ applied \in [Wallets -> Nat]
    /\ stores \in [Wallets -> {"none", "forward", "backward"}]

IssuedBy(w) == {t \in Tasks : pc[t] \in Issued /\ idx[t] = w}

(* No two calls are given the same nonce of one wallet as long as the      *)
(* background sync has never stored a count below next_nonce: the mutex    *)
(* and fetch_add of execute_with_wallet are enough among the calls.        *)
UniqueUnlessBackward ==
    \A w \in Wallets :
        stores[w] # "backward" =>
            \A t, u \in IssuedBy(w) : nonce[t] = nonce[u] => t = u

(* Until the background sync stores anything, the nonces given out are     *)
(* exactly those from the startup count up to next_nonce: no call skips    *)
(* one, and a refused callback gives its nonce back.                       *)
ContiguousUnlessSynced ==
    \A w \in Wallets :
        stores[w] = "none" =>
            {nonce[t] : t \in IssuedBy(w)} = base[w] .. next_nonce[w] - 1

(* The count the chain last reported is never lost: whatever calls run     *)
(* between the read, the reply and the store, next_nonce stays above it.   *)
NeverBelowApplied == \A w \in Wallets : next_nonce[w] >= applied[w]

(* A store goes backwards only over nonces that were given out while the   *)
(* provider was being asked, at least two of them.                         *)
RewindsAwaitedCalls ==
    \A w \in Wallets :
        next_nonce'[w] < next_nonce[w] =>
            /\ w = syncAt
            /\ next_nonce[w] - current >= 2
            /\ \A n \in current .. next_nonce[w] - 1 :
                  \E t \in IssuedBy(w) : nonce[t] = n

BackwardOnlyOverAwaitedCalls == [][RewindsAwaitedCalls]_vars

(* Every call that took a wallet index gets its nonce or its error back:   *)
(* the mutexes never keep a call waiting for good.                         *)
CallsReturn ==
    (\E t \in Tasks : pc[t] = "lock")
        ~> (\A t \in Tasks : pc[t] \in Issued \cup {"failed", "new"})

(* A wallet that the chain has overtaken catches up, as long as the node   *)
(* answers infinitely often.                                               *)
LaggardsCatchUp ==
    \A w \in Wallets : chain[w] > next_nonce[w] ~> next_nonce[w] >= chain[w]

(* What the pool promises the executor: see NonceAllocator.  The lease is  *)
(* granted when the lock is released; a backward store voids the wallet.   *)
Allocator ==
    INSTANCE NonceAllocator WITH
        lease <- [t \in Tasks |->
                    IF pc[t] \in Issued
                    THEN [granted |-> TRUE, wallet |-> idx[t], nonce |-> nonce[t]]
                    ELSE [granted |-> FALSE]],
        void <- {w \in Wallets : stores[w] = "backward"}

(* The pool implements the allocator. *)
Allocates == Allocator!Spec

-----------------------------------------------------------------------------
(* Claims of the documentation.  TLC refutes them: see the README. *)

(* security.md: "Per-wallet Mutex prevents race conditions."  No nonce of  *)
(* a wallet is given out twice.                                            *)
NoncesUnique ==
    \A w \in Wallets : \A t, u \in IssuedBy(w) : nonce[t] = nonce[u] => t = u

(* A wedged wallet: the chain waits for a nonce that was given out and     *)
(* whose bundle is gone, so none of the later ones can be mined.           *)
Wedged(w) ==
    /\ chain[w] < next_nonce[w]
    /\ ~ \E t \in Tasks :
            /\ idx[t] = w
            /\ pc[t] \in {"callback", "issued"}
            /\ nonce[t] = chain[w]

(* troubleshooting.md: after a skipped nonce "wait for the auto-sync". *)
GapsHeal == \A w \in Wallets : Wedged(w) ~> ~Wedged(w)

=============================================================================
