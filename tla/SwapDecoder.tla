---------------------------- MODULE SwapDecoder ----------------------------
(***************************************************************************)
(* src/scanner/decoder.rs: what the calldata of a pending transaction is   *)
(* taken for.  Calldata is a selector and a sequence of 32-byte words;     *)
(* offsets and lengths inside it are in bytes.  Tokens are small numbers,  *)
(* like every other word; an address read across two words is taken from   *)
(* the first.  The score slippage_bps, which nothing reads, is left out.   *)
(* Conversions to narrower integers panic, sums and products wrap: Usize,  *)
(* U128 and U256 are 2^64, 2^128 and 2^256 in the code.                    *)
(***************************************************************************)
EXTENDS Integers, SequencesExt

CONSTANTS
    WETH, USDC,
    Decimals,       \* DecimalsCache: what it knows of a token's decimals
    Dust, Whale,    \* DUST_18, WHALE_18
    Digits,         \* 18
    Usize, U128, U256

ASSUME DecoderAssumption ==
    /\ WETH \in Nat /\ USDC \in Nat
    /\ Dust \in Nat \ {0} /\ Whale \in Nat \ {0} /\ Digits \in Nat
    /\ Usize \in Nat \ {0} /\ U128 \in Nat \ {0} /\ U256 \in Nat \ {0}
    /\ U128 <= U256
    /\ \A token \in DOMAIN Decimals : Decimals[token] \in 0 .. Digits

NoOpportunity == [is_actionable |-> FALSE]
Panic == [panics |-> TRUE]

-----------------------------------------------------------------------------
(* The word that begins n bytes after the selector. *)
At(words, n) == words[n \div 32 + 1]
Bytes(words) == 32 * Len(words)
Size(words) == 4 + Bytes(words)     \* data.len()
First20(word) == 0      \* of a number below 2^96
Last20(word) == word    \* of a number below 2^160

decimals_of(token) == IF token \in DOMAIN Decimals THEN Decimals[token] ELSE Digits

(* Mutant of normalize_to_18: raw amounts are compared. *)
normalize_raw(amount, decimals) == amount

(* No token of the cache has more than 18 decimals. *)
normalize_to_18(amount, decimals) == (amount * 10 ^ (Digits - decimals)) % U256

(* The size goes through to::<u128>(). *)
build_opportunity(token_in, token_out, amount_in, min_amount_out) ==
    LET size == normalize_to_18(amount_in, decimals_of(token_in))
    IN  IF amount_in = 0 /\ min_amount_out = 0 THEN NoOpportunity
        ELSE IF size >= U128 THEN Panic
        ELSE [token_in |-> token_in, token_out |-> token_out,
              amount_in |-> amount_in, min_amount_out |-> min_amount_out,
              is_actionable |-> size >= Whale \/ (min_amount_out = 0 /\ size >= Dust)]

-----------------------------------------------------------------------------
(* A path of tokens, its length first, lies at the offset the n-th byte    *)
(* holds; there must be two of them.                                       *)
PathEnd(words, n) ==
    LET at == At(words, n) IN (at + 36 + 32 * At(words, at)) % Usize
HasPath(words, n) ==
    LET at == At(words, n)
    IN  /\ at + 36 < Usize /\ at + 36 <= Size(words)
        /\ At(words, at) \in 2 .. Usize - 1
        /\ PathEnd(words, n) \in 20 .. Size(words)

(* An offset or a length of more than a usize, or one so large that a      *)
(* slice would end before it begins.                                       *)
PathPanics(words, n) ==
    LET at == At(words, n)
    IN  \/ at + 36 >= Usize
        \/ /\ at + 36 <= Size(words)
           /\ At(words, at) >= Usize \/ (At(words, at) >= 2 /\ PathEnd(words, n) < 20)

PathFirst(words, n) == Last20(At(words, At(words, n) + 32))
PathLast(words, n) == Last20(At(words, Max({0, PathEnd(words, n) - 36})))

decode_v2_swap(words) ==
    IF Bytes(words) < 5 * 32 THEN NoOpportunity
    ELSE IF \/ PathPanics(words, 64)
            \/ HasPath(words, 64) /\ Size(words) < At(words, 64) + 68
    THEN Panic
    ELSE IF ~HasPath(words, 64) THEN NoOpportunity
    ELSE build_opportunity(PathFirst(words, 64), PathLast(words, 64), At(words, 0), At(words, 32))

(* The ether sent is not in the calldata: the minimum stands for it. *)
decode_v2_eth_in(words) ==
    IF Bytes(words) < 4 * 32 THEN NoOpportunity
    ELSE IF PathPanics(words, 32) THEN Panic
    ELSE IF ~HasPath(words, 32) THEN NoOpportunity
    ELSE build_opportunity(WETH, PathLast(words, 32), At(words, 0), At(words, 0))

(* The arguments are looked for one word after the selector. *)
decode_v3_exact_input_single(words) ==
    IF Bytes(words) < 9 * 32 THEN NoOpportunity
    ELSE build_opportunity(Last20(At(words, 32)), Last20(At(words, 64)),
                           At(words, 160), At(words, 192))

(* The path, packed, is looked for at the offset in the first word: two    *)
(* addresses and what is between them.                                     *)
decode_v3_exact_input(words) ==
    LET at == At(words, 0)
        length == At(words, at)
        end == (at + 36 + length) % Usize
    IN  IF Bytes(words) < 5 * 32 THEN NoOpportunity
        ELSE IF at + 36 >= Usize THEN Panic
        ELSE IF Size(words) < at + 36 THEN NoOpportunity
        ELSE IF length >= Usize THEN Panic
        ELSE IF length < 43 \/ Size(words) < end THEN NoOpportunity
        ELSE IF Size(words) < at + 56 \/ end < 20 THEN Panic
        ELSE build_opportunity(First20(At(words, at + 32)), Last20(At(words, Max({0, end - 36}))),
                               At(words, 96), At(words, 128))

(* Only the size of the call is looked at: 800 bytes with the selector. *)
decode_universal(words) ==
    IF Size(words) < 800 THEN NoOpportunity
    ELSE build_opportunity(WETH, USDC, Whale, 0)

decode(data) ==
    CASE data.selector = "exactInputSingle" -> decode_v3_exact_input_single(data.words)
      [] data.selector = "exactInput" -> decode_v3_exact_input(data.words)
      [] data.selector \in {"swapExactTokensForTokens", "swapExactTokensForETH",
                            "swapTokensForExactTokens"} -> decode_v2_swap(data.words)
      [] data.selector = "swapExactETHForTokens" -> decode_v2_eth_in(data.words)
      [] data.selector = "execute" -> decode_universal(data.words)
      [] OTHER -> NoOpportunity

-----------------------------------------------------------------------------
(* External: how a call [selector, amount, limit, path] is encoded.  Limit *)
(* is the least output, or the most input when the amount is the output;   *)
(* recipient, deadline and the like are Other.                             *)
Other == 9

Encode(call) ==
    LET path == <<Len(call.path)>> \o call.path
        packed == 20 + 23 * (Len(call.path) - 1)
    IN  [selector |-> call.selector,
         words |->
            CASE call.selector = "swapExactETHForTokens" ->
                     <<call.limit, 128, Other, Other>> \o path
              [] call.selector = "exactInputSingle" ->
                     <<Head(call.path), Last(call.path), Other, Other, Other, call.amount,
                       call.limit, Other>>
              [] call.selector = "exactInput" ->
                     <<32, 160, Other, Other, call.amount, call.limit, packed>>
                         \o [n \in 1 .. (packed + 31) \div 32 |-> Other]
              [] call.selector = "execute" -> [n \in 1 .. call.amount |-> Other]
              [] OTHER -> <<call.amount, call.limit, 160, Other, Other>> \o path]

=============================================================================
