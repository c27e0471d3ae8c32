--------------------------- MODULE NonceAllocator ---------------------------
(***************************************************************************)
(* What the executor needs from its wallet pool, with no lock, counter or  *)
(* background task in sight: every request that is served is served once,  *)
(* with a wallet and a nonce above every nonce that wallet gave out        *)
(* before, so that two bundles signed by one wallet can both be mined.     *)
(* The promise is void for a wallet whose counter somebody rewinds.        *)
(***************************************************************************)
EXTENDS Naturals

CONSTANTS
    Wallets,    \* the executor wallets
    Tasks       \* the requests for a nonce

VARIABLES
    lease,      \* lease[t]: what request t was given, or NoLease
    void        \* the wallets whose counter was rewound

NoLease == [granted |-> FALSE]

Init ==
    /\ lease = [t \in Tasks |-> NoLease]
    /\ void = {}

(* The nonces of one wallet are handed out in increasing order.  The new   *)
(* lease is described, not chosen, so that TLC never enumerates Nat.       *)
Grant(t) ==
    LET new == lease'[t]
    IN  /\ lease[t] = NoLease
        /\ lease' = [lease EXCEPT ![t] = new]
        /\ new.granted
        /\ new = [granted |-> TRUE, wallet |-> new.wallet, nonce |-> new.nonce]
        /\ new.wallet \in Wallets
        /\ new.nonce \in Nat
        /\ \A u \in Tasks :
              (lease[u].granted /\ lease[u].wallet = new.wallet)
                  => (lease[u].nonce < new.nonce \/ new.wallet \in void)
        /\ UNCHANGED void

Rewind(w) ==
    /\ void' = void \cup {w}
    /\ UNCHANGED lease

Next == (\E t \in Tasks : Grant(t)) \/ (\E w \in Wallets : Rewind(w))

Spec == Init /\ [][Next]_<<lease, void>>

=============================================================================
