--------------------------- MODULE MempoolScanner ---------------------------
(***************************************************************************)
(* The MempoolScanner and DedupeCache of src/scanner/mempool.rs: one task  *)
(* per RPC endpoint that connects, subscribes and runs every announced     *)
(* transaction through the shared cache, the decoder and the bounded       *)
(* opportunity channel; the main loop is the consumer.  Time passes in     *)
(* Tick; sleeps end at any time, their length is only recorded.            *)
(*                                                                         *)
(* External: the nodes, which may refuse, drop or repeat; the decoder, a   *)
(* pure function that says which hashes are actionable swaps (Swaps), and  *)
(* that panics on some (Oversized).  A release build aborts on a panic.    *)
(***************************************************************************)
EXTENDS Integers, Sequences, FiniteSets

CONSTANTS
    Endpoints,      \* ws_urls
    Hashes,         \* pending transactions
    Swaps,          \* those that decode to an actionable opportunity
    Oversized,      \* those whose numbers the decoder cannot convert
    Window,         \* window of the DedupeCache (60 s)
    MaxSize,        \* max_size of the DedupeCache (150,000)
    QueueSize,      \* capacity of the opportunity channel (1024)
    MaxDelay,       \* longest reconnection delay (60 s)
    MaxNow          \* bound: time stops here

ASSUME ScannerAssumption ==
    /\ IsFiniteSet(Endpoints)
    /\ Swaps \subseteq Hashes
    /\ Oversized \subseteq Hashes \ Swaps
    /\ Window \in Nat \ {0}
    /\ MaxSize \in Nat
    /\ QueueSize \in Nat \ {0}
    /\ MaxDelay \in Nat \ {0}
    /\ MaxNow \in Nat

VARIABLES
    alive,        \* no task has panicked
    now,
    cache,          \* cache[h]: when h was inserted, or Absent
    pc, tx, retry_delay,
    queue,
    \* history: the last admission of a hash, how often it was admitted,
    \* forwarded, and lost to a full channel
    admitted, admissions, forwards, losses

taskVars == <<pc, tx, retry_delay>>
flowVars == <<queue, forwards, losses>>
vars == <<alive, now, cache, taskVars, flowVars, admitted, admissions>>

Absent == -1
Cached == {h \in Hashes : cache[h] # Absent}
Goto(e, label) == pc' = [pc EXCEPT ![e] = label]

-----------------------------------------------------------------------------
Init ==
    /\ alive = TRUE
    /\ now = 0
    /\ cache = [h \in Hashes |-> Absent]
    /\ pc = [e \in Endpoints |-> "connect"]
    /\ tx \in [Endpoints -> Hashes]     \* not read before it is written
    /\ \A e, f \in Endpoints : tx[e] = tx[f]
    /\ retry_delay = [e \in Endpoints |-> 1]
    /\ queue = <<>>
    /\ admitted = [h \in Hashes |-> Absent]
    /\ admissions = [h \in Hashes |-> 0]
    /\ forwards = [h \in Hashes |-> 0]
    /\ losses = [h \in Hashes |-> 0]

-----------------------------------------------------------------------------
(* subscribe_and_process: the connection *)

Connected(e) ==
    /\ alive
    /\ pc[e] = "connect"
    /\ retry_delay' = [retry_delay EXCEPT ![e] = 1]
    /\ Goto(e, "subscribe")
    /\ UNCHANGED <<alive, now, cache, tx, flowVars, admitted, admissions>>

Doubled(d) == IF 2 * d < MaxDelay THEN 2 * d ELSE MaxDelay

(* Sleep for retry_delay, then double it. *)
ConnectFails(e) ==
    /\ alive
    /\ pc[e] = "connect"
    /\ retry_delay' = [retry_delay EXCEPT ![e] = Doubled(@)]
    /\ Goto(e, "sleep")
    /\ UNCHANGED <<alive, now, cache, tx, flowVars, admitted, admissions>>

Subscribe(e) ==
    /\ alive
    /\ pc[e] = "subscribe"
    /\ \E next \in {"stream", "sleep"} : Goto(e, next)
    /\ UNCHANGED <<alive, now, cache, tx, retry_delay, flowVars, admitted, admissions>>

StreamEnds(e) ==
    /\ alive
    /\ pc[e] = "stream"
    /\ Goto(e, "sleep")
    /\ UNCHANGED <<alive, now, cache, tx, retry_delay, flowVars, admitted, admissions>>

(* Mutant of Wake: the loop is left instead of continued. *)
WakeOut(e) ==
    /\ alive
    /\ pc[e] = "sleep"
    /\ UNCHANGED vars

Wake(e) ==
    /\ alive
    /\ pc[e] = "sleep"
    /\ Goto(e, "connect")
    /\ UNCHANGED <<alive, now, cache, tx, retry_delay, flowVars, admitted, admissions>>

-----------------------------------------------------------------------------
(* subscribe_and_process: one announced transaction *)

Announce(e) ==
    /\ alive
    /\ pc[e] = "stream"
    /\ tx' \in {[tx EXCEPT ![e] = h] : h \in Hashes}
    /\ Goto(e, "check")
    /\ UNCHANGED <<alive, now, cache, retry_delay, flowVars, admitted, admissions>>

IsDuplicate(h) == cache[h] # Absent /\ now - cache[h] < Window

(* Mutant of CheckAndInsert: a duplicate is refreshed and passed on. *)
CheckPassesOn(e) ==
    /\ alive
    /\ pc[e] = "check"
    /\ IF IsDuplicate(tx[e])
       THEN Goto(e, "send") /\ UNCHANGED <<cache, admitted, admissions>>
       ELSE /\ cache' = [cache EXCEPT ![tx[e]] = now]
            /\ admitted' = [admitted EXCEPT ![tx[e]] = now]
            /\ admissions' = [admissions EXCEPT ![tx[e]] = @ + 1]
            /\ Goto(e, "size")
    /\ UNCHANGED <<alive, now, tx, retry_delay, flowVars>>

(* check_and_insert up to the release of the entry *)
CheckAndInsert(e) ==
    /\ alive
    /\ pc[e] = "check"
    /\ IF IsDuplicate(tx[e])
       THEN Goto(e, "stream") /\ UNCHANGED <<cache, admitted, admissions>>
       ELSE /\ cache' = [cache EXCEPT ![tx[e]] = now]
            /\ admitted' = [admitted EXCEPT ![tx[e]] = now]
            /\ admissions' = [admissions EXCEPT ![tx[e]] = @ + 1]
            /\ Goto(e, "size")
    /\ UNCHANGED <<alive, now, tx, retry_delay, flowVars>>

(* Mutant of Evicted: the oldest entries go, expired or not. *)
EvictedOldest == {h \in Cached : \A g \in Cached : cache[h] <= cache[g]}

(* What evict_oldest_batch removes: entries not younger than the window. *)
Evicted == {h \in Cached : cache[h] <= now - Window}

(* check_and_insert, the rest: evict when there are more than max_size *)
CheckSize(e) ==
    /\ alive
    /\ pc[e] = "size"
    /\ cache' = IF Cardinality(Cached) > MaxSize
                THEN [h \in Hashes |-> IF h \in Evicted THEN Absent ELSE cache[h]]
                ELSE cache
    /\ Goto(e, "send")
    /\ UNCHANGED <<alive, now, tx, retry_delay, flowVars, admitted, admissions>>

(* decode, and try_send of what is actionable: dropped when full *)
Send(e) ==
    /\ alive
    /\ pc[e] = "send"
    /\ tx[e] \notin Oversized
    /\ IF tx[e] \notin Swaps THEN UNCHANGED flowVars
       ELSE IF Len(queue) < QueueSize
       THEN /\ queue' = Append(queue, tx[e])
            /\ forwards' = [forwards EXCEPT ![tx[e]] = @ + 1]
            /\ UNCHANGED losses
       ELSE /\ losses' = [losses EXCEPT ![tx[e]] = @ + 1]
            /\ UNCHANGED <<queue, forwards>>
    /\ Goto(e, "stream")
    /\ UNCHANGED <<alive, now, cache, tx, retry_delay, admitted, admissions>>

(* decode converts a number to a narrower integer and panics. *)
SendPanics(e) ==
    /\ alive
    /\ pc[e] = "send"
    /\ tx[e] \in Oversized
    /\ alive' = FALSE
    /\ UNCHANGED <<now, cache, taskVars, flowVars, admitted, admissions>>

-----------------------------------------------------------------------------
(* The main loop takes an opportunity. *)
Recv ==
    /\ alive
    /\ queue # <<>>
    /\ queue' = Tail(queue)
    /\ UNCHANGED <<alive, now, cache, taskVars, forwards, losses, admitted, admissions>>

Tick ==
    /\ alive
    /\ now < MaxNow
    /\ now' = now + 1
    /\ UNCHANGED <<alive, cache, taskVars, flowVars, admitted, admissions>>

(* A process that has ended stays so. *)
Aborted == ~alive /\ UNCHANGED vars

Link(e) == Connected(e) \/ ConnectFails(e) \/ Subscribe(e) \/ StreamEnds(e) \/ Wake(e)
Scan(e) == CheckAndInsert(e) \/ CheckSize(e) \/ Send(e) \/ SendPanics(e)

Next ==
    \/ \E e \in Endpoints : Link(e) \/ Announce(e) \/ Scan(e)
    \/ Recv \/ Tick \/ Aborted

Spec == Init /\ [][Next]_vars

(* tokio runs the tasks and ends the sleeps; a node that is tried again    *)
(* and again takes the connection and the subscription now and then.       *)
FairSpec ==
    /\ Spec
    /\ \A e \in Endpoints :
          /\ WF_vars(Scan(e))
          /\ WF_vars(Wake(e))
          /\ WF_vars(Connected(e) \/ ConnectFails(e))
          /\ WF_vars(Subscribe(e))
          /\ SF_vars(Connected(e))
          /\ SF_vars(Subscribe(e) /\ pc'[e] = "stream")

-----------------------------------------------------------------------------
(* Properties *)

(* The types of all variables. *)
TypeOK ==
    /\ alive \in BOOLEAN
    /\ now \in 0 .. MaxNow
    /\ cache \in [Hashes -> 0 .. now \cup {Absent}]
    /\ pc \in [Endpoints ->
                  {"connect", "subscribe", "stream", "check", "size", "send", "sleep"}]
    /\ tx \in [Endpoints -> Hashes]
    /\ retry_delay \in [Endpoints -> 1 .. MaxDelay]
    /\ queue \in Seq(Swaps) /\ Len(queue) <= QueueSize
    /\ admitted \in [Hashes -> 0 .. now \cup {Absent}]
    /\ admissions \in [Hashes -> Nat]
    /\ forwards \in [Hashes -> Nat]
    /\ losses \in [Hashes -> Nat]

(* Whichever endpoints announce it, and however often the cache overflows  *)
(* and is swept, a hash is admitted again only a whole window later.       *)
NoEarlyRepeat ==
    [][\A h \in Hashes :
          admissions'[h] # admissions[h] =>
              admitted[h] = Absent \/ now - admitted[h] >= Window]_vars

(* Every admission of a swap is forwarded once or lost once to a full      *)
(* channel, unless an endpoint task is still at it.                        *)
OneForwardPerAdmission ==
    \A h \in Swaps :
        admissions[h] = forwards[h] + losses[h]
            + Cardinality({e \in Endpoints : tx[e] = h /\ pc[e] \in {"size", "send"}})

(* An endpoint that lost its node subscribes again, unless a panic of some *)
(* endpoint's task ends the process.                                       *)
Resubscribes == \A e \in Endpoints : pc[e] = "sleep" ~> (pc[e] = "stream" \/ ~alive)

=============================================================================
