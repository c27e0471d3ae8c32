-------------------------------- MODULE Feeds --------------------------------
(***************************************************************************)
(* The two feeds of the opportunity channel.  The MevShareScanner of       *)
(* src/scanner/mev_share.rs reads the relay's event stream chunk by chunk, *)
(* cuts off whole events and sends the hints to a forwarder of             *)
(* src/main.rs, which puts them into the channel.  The mempool scanner     *)
(* decodes the pending transactions its cache admits (MempoolScanner has   *)
(* the cache and the endpoints) and puts those that call for action there. *)
(* Channels drop what does not fit.                                        *)
(*                                                                         *)
(* The text of an event is two pieces and two newlines; a chunk may end    *)
(* anywhere.  A character split between chunks is garbled, but the fields  *)
(* read from a hint are hexadecimal.                                       *)
(*                                                                         *)
(* External: the relay, which does not repeat what was sent while nobody   *)
(* listened; the callers whose transactions are announced.                 *)
(***************************************************************************)
EXTENDS SwapDecoder

CONSTANTS
    Calls,          \* calls that pending transactions make
    NoCall,
    Actionable,     \* the events that parse to an actionable hint
    MevQueueSize,   \* capacity of the hint channel (256)
    ChannelSize,    \* capacity of the opportunity channel (1024)
    MaxEvents       \* bound: the relay sends no more events

ASSUME FeedsAssumption ==
    /\ Calls \subseteq [selector : STRING, amount : 0 .. U256 - 1, limit : 0 .. U256 - 1,
                         path : Seq(Nat)]
    /\ \A call \in Calls : 256 + 32 * Len(call.path) < Usize
    /\ NoCall \notin Calls
    /\ Actionable \subseteq 1 .. MaxEvents
    /\ MevQueueSize \in Nat \ {0} /\ ChannelSize \in Nat \ {0}
    /\ MaxEvents \in Nat

VARIABLES
    running,            \* no task has panicked: a release build aborts then
    sent, wire,         \* events sent so far; what the connection still holds
    sse, buffer,         \* of the scanner's task
    mev_queue,
    forwarding,         \* the hint in the forwarder's hands
    pending,            \* the call the mempool scanner is at
    opportunities,
    read, lost, taken   \* history: events wholly read, hints dropped, hints received

streamVars == <<sent, wire, read>>
scannerVars == <<sse, buffer>>
feedsVars == <<running, streamVars, scannerVars, mev_queue, forwarding, pending, opportunities, lost, taken>>

FromHint(event) == [hint |-> event]     \* with fixed amounts, actionable
IsHint(opportunity) == "hint" \in DOMAIN opportunity
Pieces(event) == [n \in 1 .. 4 |-> [event |-> event, piece |-> n]]
Newline(unit) == unit.piece > 2

-----------------------------------------------------------------------------
FeedsInit ==
    /\ running = TRUE
    /\ sent = 0 /\ wire = <<>>
    /\ sse = "connect" /\ buffer = <<>>
    /\ mev_queue = <<>> /\ forwarding = <<>> /\ pending = NoCall /\ opportunities = <<>>
    /\ read = {} /\ lost = {} /\ taken = <<>>

-----------------------------------------------------------------------------
(* run_sse_stream: the connection *)

(* Mutant of Connect: the buffer outlives the connection. *)
ConnectBuffered ==
    /\ running
    /\ sse = "connect"
    /\ sse' = "stream"
    /\ UNCHANGED <<running, streamVars, buffer, mev_queue, forwarding, pending, opportunities, lost, taken>>

Connect ==
    /\ running
    /\ sse = "connect"
    /\ sse' = "stream"
    /\ buffer' = <<>>
    /\ UNCHANGED <<running, streamVars, mev_queue, forwarding, pending, opportunities, lost, taken>>

SseFails ==
    /\ running
    /\ sse = "connect"
    /\ sse' = "sleep"
    /\ UNCHANGED <<running, streamVars, buffer, mev_queue, forwarding, pending, opportunities, lost, taken>>

(* Mutant of Reconnect: a lost stream is not tried again. *)
GiveUp == running /\ sse = "sleep" /\ UNCHANGED feedsVars

(* Five seconds after an error or the end of the stream *)
Reconnect ==
    /\ running
    /\ sse = "sleep"
    /\ sse' = "connect"
    /\ UNCHANGED <<running, streamVars, buffer, mev_queue, forwarding, pending, opportunities, lost, taken>>

-----------------------------------------------------------------------------
(* run_sse_stream: the events *)

(* Where the first blank line of the buffer begins, or 0. *)
Separator ==
    LET at == {n \in 1 .. Len(buffer) - 1 : Newline(buffer[n]) /\ Newline(buffer[n + 1])}
    IN  IF at = {} THEN 0 ELSE Min(at)

(* A chunk arrives once every whole event has been cut off. *)
ReadChunk ==
    /\ running
    /\ sse = "stream" /\ Separator = 0
    /\ \E n \in 1 .. Len(wire) :
          /\ buffer' = buffer \o SubSeq(wire, 1, n)
          /\ wire' = SubSeq(wire, n + 1, Len(wire))
          /\ read' = read \cup {unit.event : unit \in {u \in Range(SubSeq(wire, 1, n)) : u.piece = 4}}
    /\ UNCHANGED <<running, sent, sse, mev_queue, forwarding, pending, opportunities, lost, taken>>

(* extract_sse_data, parse_hint, is_actionable: text put together from     *)
(* parts of two events does not parse.                                     *)
Hint(text) ==
    IF Len(text) = 2 /\ text[1].event = text[2].event /\ text[1].event \in Actionable
    THEN <<text[1].event>> ELSE <<>>

(* try_send of at most one hint into a queue of a given size *)
Fits(queue, hint, size) == hint = <<>> \/ Len(queue) < size

CutEvent ==
    /\ running
    /\ sse = "stream" /\ Separator # 0
    /\ LET hint == Hint(SubSeq(buffer, 1, Separator - 1))
       IN  IF Fits(mev_queue, hint, MevQueueSize)
           THEN mev_queue' = mev_queue \o hint /\ UNCHANGED lost
           ELSE lost' = lost \cup Range(hint) /\ UNCHANGED mev_queue
    /\ buffer' = SubSeq(buffer, Separator + 2, Len(buffer))
    /\ UNCHANGED <<running, streamVars, sse, forwarding, pending, opportunities, taken>>

-----------------------------------------------------------------------------
(* The forwarder and the main loop *)

ForwarderTakes ==
    /\ running
    /\ forwarding = <<>> /\ mev_queue # <<>>
    /\ forwarding' = <<Head(mev_queue)>>
    /\ mev_queue' = Tail(mev_queue)
    /\ UNCHANGED <<running, streamVars, scannerVars, pending, opportunities, lost, taken>>

(* Mutant of Forward: the hint is kept back while the channel is full. *)
ForwardWaits ==
    /\ running
    /\ forwarding # <<>>
    /\ Fits(opportunities, forwarding, ChannelSize)
    /\ opportunities' = Append(opportunities, FromHint(forwarding[1]))
    /\ forwarding' = <<>>
    /\ UNCHANGED <<running, streamVars, scannerVars, mev_queue, pending, lost, taken>>

(* An actionable hint has an address and calldata: its logs are not read. *)
Forward ==
    /\ running
    /\ forwarding # <<>>
    /\ IF Fits(opportunities, forwarding, ChannelSize)
       THEN opportunities' = Append(opportunities, FromHint(forwarding[1])) /\ UNCHANGED lost
       ELSE lost' = lost \cup Range(forwarding) /\ UNCHANGED opportunities
    /\ forwarding' = <<>>
    /\ UNCHANGED <<running, streamVars, scannerVars, mev_queue, pending, taken>>

Receive ==
    /\ running
    /\ opportunities # <<>>
    /\ opportunities' = Tail(opportunities)
    /\ taken' = IF IsHint(Head(opportunities)) THEN Append(taken, Head(opportunities).hint)
                ELSE taken
    /\ UNCHANGED <<running, streamVars, scannerVars, mev_queue, forwarding, pending, lost>>

-----------------------------------------------------------------------------
(* The mempool scanner, once its cache has admitted a transaction *)

(* decode, and try_send of what is actionable *)
DecodeAndSend ==
    /\ running
    /\ pending # NoCall
    /\ LET opportunity == decode(Encode(pending))
       IN  /\ opportunity # Panic
           /\ opportunities' =
                  IF opportunity.is_actionable /\ Len(opportunities) < ChannelSize
                  THEN Append(opportunities, opportunity) ELSE opportunities
    /\ pending' = NoCall
    /\ UNCHANGED <<running, streamVars, scannerVars, mev_queue, forwarding, lost, taken>>

(* A panic of the decoder ends the process. *)
DecodePanics ==
    /\ running
    /\ pending # NoCall
    /\ decode(Encode(pending)) = Panic
    /\ running' = FALSE
    /\ pending' = NoCall
    /\ UNCHANGED <<streamVars, scannerVars, mev_queue, forwarding, opportunities, lost, taken>>

(* A process that has ended stays so. *)
Halted == ~running /\ UNCHANGED feedsVars

-----------------------------------------------------------------------------
(* External *)

AnnounceCall(call) ==
    /\ running
    /\ pending = NoCall
    /\ pending' = call
    /\ UNCHANGED <<running, streamVars, scannerVars, mev_queue, forwarding, opportunities, lost, taken>>

(* What is sent while nobody is connected is missed. *)
Emit ==
    /\ running
    /\ sent < MaxEvents
    /\ sent' = sent + 1
    /\ wire' = IF sse = "stream" THEN wire \o Pieces(sent') ELSE wire
    /\ UNCHANGED <<running, scannerVars, mev_queue, forwarding, pending, opportunities, read, lost, taken>>

(* The stream ends, or a chunk is an error: what is under way is lost. *)
SseEnds ==
    /\ running
    /\ sse = "stream" /\ Separator = 0
    /\ sse' = "sleep"
    /\ wire' = <<>>
    /\ UNCHANGED <<running, sent, read, buffer, mev_queue, forwarding, pending, opportunities, lost, taken>>

FeedsNext ==
    \/ Connect \/ SseFails \/ Reconnect
    \/ ReadChunk \/ CutEvent
    \/ ForwarderTakes \/ Forward \/ Receive
    \/ Emit \/ SseEnds
    \/ DecodeAndSend \/ DecodePanics \/ Halted
    \/ \E call \in Calls : AnnounceCall(call)

FeedsSpec == FeedsInit /\ [][FeedsNext]_feedsVars

(* tokio runs the tasks and ends the sleep; a relay that is tried again    *)
(* and again takes the connection now and then.                            *)
FairFeedsSpec ==
    /\ FeedsSpec
    /\ WF_feedsVars(Reconnect) /\ WF_feedsVars(Connect \/ SseFails) /\ SF_feedsVars(Connect)
    /\ WF_feedsVars(CutEvent)
    /\ WF_feedsVars(ForwarderTakes) /\ WF_feedsVars(Forward) /\ WF_feedsVars(Receive)

-----------------------------------------------------------------------------
(* Properties *)

(* The types of all variables. *)
FeedsTypeOK ==
    /\ running \in BOOLEAN
    /\ sent \in 0 .. MaxEvents
    /\ wire \in Seq([event : 1 .. sent, piece : 1 .. 4])
    /\ sse \in {"connect", "stream", "sleep"}
    /\ buffer \in Seq([event : 1 .. sent, piece : 1 .. 4])
    /\ mev_queue \in Seq(Actionable) /\ Len(mev_queue) <= MevQueueSize
    /\ forwarding \in Seq(Actionable) /\ Len(forwarding) <= 1
    /\ pending \in Calls \cup {NoCall}
    /\ opportunities \in Seq([hint : Actionable] \cup {decode(Encode(call)) : call \in Calls})
    /\ Len(opportunities) <= ChannelSize
    /\ read \subseteq 1 .. sent /\ lost \subseteq Actionable
    /\ taken \in Seq(Actionable)

(* The hints the pipeline has delivered and still holds, oldest first; 0   *)
(* where there is none.                                                    *)
Queued == [n \in DOMAIN opportunities |->
              IF IsHint(opportunities[n]) THEN opportunities[n].hint ELSE 0]
Ends == [n \in DOMAIN buffer |->
            IF buffer[n].piece = 4 /\ buffer[n].event \in Actionable THEN buffer[n].event ELSE 0]
Line == taken \o Queued \o forwarding \o mev_queue \o Ends

Rises(s) == \A i, j \in DOMAIN s : i < j /\ s[i] # 0 /\ s[j] # 0 => s[i] < s[j]
Hints(s) == Range(s) \ {0}

(* However chunks cut the stream and however often it breaks, each hint    *)
(* that was wholly read goes through once and in order, or is dropped by a *)
(* full channel; nothing is made of the halves of two events.              *)
HintsFlow ==
    /\ Rises(Line)
    /\ Hints(Line) = (read \cap Actionable) \ lost

(* decoder.rs: the trigger is "trade size + missing protection (whale or   *)
(* zero minAmountOut)", in 18 decimals whatever the token has.  A router   *)
(* swaps along two tokens or more.                                         *)
SizeIn18(call) == call.amount * 10 ^ (Digits - decimals_of(Head(call.path)))
Triggers(call) ==
    /\ Len(call.path) >= 2
    /\ SizeIn18(call) >= Whale \/ (call.limit = 0 /\ SizeIn18(call) >= Dust)

(* What is sent of the pending call: all of it that triggers, with the     *)
(* ends of its path and its amounts, and nothing else.                     *)
TriggerSent ==
    opportunities' =
        IF Triggers(pending) /\ Len(opportunities) < ChannelSize
        THEN Append(opportunities,
                    [token_in |-> Head(pending.path), token_out |-> Last(pending.path),
                     amount_in |-> pending.amount, min_amount_out |-> pending.limit,
                     is_actionable |-> TRUE])
        ELSE opportunities
Decoded(selectors) == pending # NoCall /\ pending' = NoCall /\ pending.selector \in selectors

(* Swaps of an exact amount of tokens through pairs are understood: as     *)
(* long as the amount in 18 decimals fits a u128, decoding does not panic  *)
(* and the mempool scanner sends exactly the triggers among them.  Larger  *)
(* amounts panic, or wrap and may be taken for small ones.                 *)
PairSwapsTrigger ==
    [][Decoded({"swapExactTokensForTokens", "swapExactTokensForETH"}) /\ SizeIn18(pending) \in 0 .. U128 - 1
          => running' /\ TriggerSent]_feedsVars

(* A hint that was read reaches the main loop or a full channel, unless a  *)
(* panic ends the process.                                                 *)
HintsArrive ==
    \A n \in Actionable : n \in read ~> (n \in lost \cup Range(taken) \/ ~running)

(* A stream that was lost comes back, unless a panic ends the process. *)
StreamReturns == sse = "sleep" ~> (sse = "stream" \/ ~running)

-----------------------------------------------------------------------------
(* Claims of the documentation.  TLC refutes them: see the README. *)

(* KNOWN_LIMITATIONS.md: "Decoder: V2 exact/ETH variants, V3 single/multi".*)
ConcentratedSwapsTrigger ==
    [][Decoded({"exactInputSingle", "exactInput"}) => TriggerSent]_feedsVars

(* ... "or unprotected dust": ether swapped with no minimum at all.        *)
EtherSwapsTrigger ==
    [][Decoded({"swapExactETHForTokens"}) /\ pending.limit = 0 /\ Len(opportunities) < ChannelSize
          => opportunities' # opportunities]_feedsVars

=============================================================================
