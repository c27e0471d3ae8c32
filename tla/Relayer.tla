------------------------------- MODULE Relayer -------------------------------
(***************************************************************************)
(* FlashbotsRelayer of src/executor/relayer.rs: one call of                *)
(* submit_with_escalation.  Each attempt posts the bundle to every relay   *)
(* in parallel, waits for all the answers, and unless some relay accepted  *)
(* sleeps, signs the bundle again with a higher miner reward and tries     *)
(* once more.  A bundle version is named by its attempt; all of them carry *)
(* the same nonce and the same target block (process_opportunity captures  *)
(* both in the rebuild callback), so at most one can be mined.             *)
(*                                                                         *)
(* External: the network, which may lose an answer or deliver a request    *)
(* after the client gave up, the relays, and the chain.                    *)
(***************************************************************************)
EXTENDS BidMath

CONSTANTS
    Relays,         \* RELAYS
    MaxAttempts,    \* MAX_ESCALATION_ATTEMPTS
    Openings,       \* miner rewards of the bundles passed in
    Target,         \* the block the bundle is meant for
    MaxHead         \* bound: the chain is followed up to this block

ASSUME MaxAttemptsAssumption == MaxAttempts \in Nat \ {0}
ASSUME OpeningsAssumption == Openings \subseteq Nat
ASSUME TargetAssumption == Target \in Nat \ {0} /\ MaxHead \in Nat

VARIABLES
    pc, attempt, original_reward, miner_reward, version,
    accepted,   \* all_results: the "Included" entries, all that is asked of it
    call,       \* call[r]: the submit_to_relay task of this attempt
    wire,       \* wire[r]: versions on their way to relay r
    held,       \* held[r]: versions relay r took
    head,       \* the latest block
    landed      \* the version mined in the target block, or NoVersion

relayerVars == <<pc, attempt, original_reward, miner_reward, version, accepted>>
worldVars == <<wire, held, head, landed>>
vars == <<relayerVars, call, worldVars>>

Attempts == 0 .. MaxAttempts - 1
NoVersion == -1
Closed == {"Included", "SimulationFailed", "RelayError"}

-----------------------------------------------------------------------------
Init ==
    /\ pc = "submit"
    /\ attempt = 0
    /\ original_reward \in Openings
    /\ miner_reward = original_reward
    /\ version = 0
    /\ accepted = {}
    /\ call = [r \in Relays |-> "idle"]
    /\ wire = [r \in Relays |-> {}]
    /\ held = [r \in Relays |-> {}]
    /\ head = Target - 1
    /\ landed = NoVersion

-----------------------------------------------------------------------------
(* submit_bundle: one spawned task per relay. *)
Submit ==
    /\ pc = "submit"
    /\ call' = [r \in Relays |-> "sent"]
    /\ wire' = [r \in Relays |-> wire[r] \cup {version}]
    /\ pc' = "posting"
    /\ UNCHANGED <<attempt, original_reward, miner_reward, version, accepted,
                   held, head, landed>>

(* Mutants of NextAttempt: success is not looked at; the loop never ends.  *)
NextRegardless(ok) ==
    IF attempt + 1 = MaxAttempts
    THEN pc' = "done" /\ miner_reward' = original_reward /\ UNCHANGED attempt
    ELSE pc' = "rebuild" /\ attempt' = attempt + 1 /\ UNCHANGED miner_reward
NextForever(ok) ==
    IF ok
    THEN pc' = "done" /\ miner_reward' = original_reward /\ UNCHANGED attempt
    ELSE pc' = "rebuild" /\ attempt' = (attempt + 1) % MaxAttempts /\ UNCHANGED miner_reward

(* On to the next attempt after the 500 ms sleep; the last one sleeps too. *)
NextAttempt(ok) ==
    IF ok \/ attempt + 1 = MaxAttempts
    THEN /\ pc' = "done"
         /\ miner_reward' = original_reward
         /\ UNCHANGED attempt
    ELSE /\ pc' = "rebuild"
         /\ attempt' = attempt + 1
         /\ UNCHANGED miner_reward

(* The auth header cannot be signed: nothing is posted, one "Aborted" entry. *)
Abort ==
    /\ pc = "submit"
    /\ NextAttempt(FALSE)
    /\ UNCHANGED <<original_reward, version, accepted, call, worldVars>>

(* submit_to_relay: the answer arrives, or the request fails: connection,  *)
(* HTTP status, unreadable body, the 5 s timeout, or a panic of the task,  *)
(* which leaves no entry in the results.                                   *)
Reply(r) ==
    /\ \/ call[r] = "taken" /\ call' = [call EXCEPT ![r] = "Included"]
       \/ call[r] = "refused" /\ call' = [call EXCEPT ![r] = "SimulationFailed"]
    /\ UNCHANGED <<relayerVars, worldVars>>

Fail(r) ==
    /\ call[r] \in {"sent", "taken", "refused"}
    /\ call' = [call EXCEPT ![r] = "RelayError"]
    /\ UNCHANGED <<relayerVars, worldVars>>

(* Mutant of Join: the first answer ends the wait. *)
JoinFirst ==
    /\ pc = "posting"
    /\ \E r \in Relays : call[r] \in Closed
    /\ accepted' = accepted \cup
          {[attempt |-> attempt, relay |-> r] : r \in {q \in Relays : call[q] = "Included"}}
    /\ NextAttempt(\E r \in Relays : call[r] = "Included")
    /\ UNCHANGED <<original_reward, version, call, worldVars>>

(* Every handle is awaited before any result is looked at. *)
Join ==
    /\ pc = "posting"
    /\ \A r \in Relays : call[r] \in Closed
    /\ accepted' = accepted \cup
          {[attempt |-> attempt, relay |-> r] : r \in {q \in Relays : call[q] = "Included"}}
    /\ NextAttempt(\E r \in Relays : call[r] = "Included")
    /\ UNCHANGED <<original_reward, version, call, worldVars>>

(* The rebuild callback signs the same nonce and block with the new reward. *)
Rebuild ==
    /\ pc = "rebuild"
    /\ miner_reward' = EscalatedReward(original_reward, attempt)
    /\ version' = attempt
    /\ pc' = "submit"
    /\ UNCHANGED <<attempt, original_reward, accepted, call, worldVars>>

RebuildFails ==
    /\ pc = "rebuild"
    /\ pc' = "done"
    /\ miner_reward' = original_reward
    /\ UNCHANGED <<attempt, original_reward, version, accepted, call, worldVars>>

-----------------------------------------------------------------------------
(* External: the relays and the chain. *)

(* What the client's pending call becomes when relay r handles version v. *)
Handled(r, v, fate) ==
    call' = IF v = version /\ call[r] = "sent"
            THEN [call EXCEPT ![r] = fate] ELSE call

Take(r) ==
    /\ \E v \in wire[r] :
          /\ wire' = [wire EXCEPT ![r] = @ \ {v}]
          /\ held' = [held EXCEPT ![r] = @ \cup {v}]
          /\ Handled(r, v, "taken")
    /\ UNCHANGED <<relayerVars, head, landed>>

Turn(r) ==
    /\ \E v \in wire[r] :
          /\ wire' = [wire EXCEPT ![r] = @ \ {v}]
          /\ Handled(r, v, "refused")
    /\ UNCHANGED <<relayerVars, held, head, landed>>

(* A block is produced; the target block may hold a version some relay has. *)
Block ==
    /\ head < MaxHead
    /\ head' = head + 1
    /\ \/ UNCHANGED landed
       \/ /\ head' = Target
          /\ \E r \in Relays : landed' \in held[r]
    /\ UNCHANGED <<relayerVars, call, wire, held>>

-----------------------------------------------------------------------------
Bot == Submit \/ Abort \/ Join \/ Rebuild \/ RebuildFails
Client(r) == Reply(r) \/ Fail(r)
World == (\E r \in Relays : Take(r) \/ Turn(r)) \/ Block

Next == Bot \/ (\E r \in Relays : Client(r)) \/ World

Spec == Init /\ [][Next]_vars

(* tokio runs the tasks and reqwest ends every call (timeout 5 s).  The    *)
(* relays, the network and the chain owe nothing.                          *)
FairSpec == Spec /\ WF_vars(Bot) /\ \A r \in Relays : WF_vars(Client(r))

-----------------------------------------------------------------------------
(* Properties *)

(* The types of all variables. *)
TypeOK ==
    /\ pc \in {"submit", "posting", "rebuild", "done"}
    /\ attempt \in Attempts
    /\ original_reward \in Nat
    /\ miner_reward \in Nat
    /\ version \in Attempts
    /\ accepted \subseteq [attempt : Attempts, relay : Relays]
    /\ call \in [Relays -> {"idle", "sent", "taken", "refused"} \cup Closed]
    /\ wire \in [Relays -> SUBSET Attempts]
    /\ held \in [Relays -> SUBSET Attempts]
    /\ head \in Nat
    /\ landed \in Attempts \cup {NoVersion}

(* The bot never bids against itself knowingly: once a relay's acceptance  *)
(* of version k is in the results, no relay was or will be sent a later    *)
(* version, and the relay that said so really has version k.               *)
AcceptanceEndsBidding ==
    \A x \in accepted :
        /\ x.attempt \in held[x.relay]
        /\ \A r \in Relays : \A k \in wire[r] \cup held[r] : k <= x.attempt

(* A bid is raised only when every call of the previous attempt is over    *)
(* and none of them reported success: no answer can still come in.         *)
RaisedOverRefusals ==
    [][version' # version =>
          \A r \in Relays : call[r] \in (Closed \ {"Included"}) \cup {"idle"}]_vars

(* Every posted bid lies between the opening bid and MaxAttempts - 1       *)
(* increments of it: increments are of the original, they do not compound. *)
BidsBounded ==
    /\ miner_reward >= original_reward
    /\ miner_reward * 10000
          <= original_reward * (10000 + IncrementBps * (MaxAttempts - 1))

(* submit_with_escalation returns. *)
Terminates == <>(pc = "done")

-----------------------------------------------------------------------------
(* Claims of the documentation.  TLC refutes them: see the README. *)

(* flashbots.md: the reward is escalated "in subsequent blocks".  A bundle *)
(* signed again is posted while its block can still be produced.           *)
EscalatesForBlocksAhead == (pc = "posting" /\ version > 0) => head < Target

(* EXECUTION_PIPELINE.md: the bot waits for the target block and logs the  *)
(* result.  What submit_with_escalation returns is the result it logs.     *)
ResultIsInclusion ==
    (pc = "done" /\ accepted # {}) => (head >= Target /\ landed # NoVersion)

=============================================================================
