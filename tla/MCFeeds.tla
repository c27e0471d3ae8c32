------------------------------ MODULE MCFeeds ------------------------------
(* Small calls for TLC: WETH has 2 decimals here, USDC 1. *)
EXTENDS Feeds

KnownDecimals == WETH :> 2 @@ USDC :> 1
Swap(selector, amounts, limits, paths) ==
    [selector : {selector}, amount : amounts, limit : limits, path : paths]
PairSwaps ==
    Swap("swapExactTokensForTokens", {4, 5}, {0}, {<<WETH, USDC>>})
        \cup Swap("swapExactTokensForTokens", {49, 50}, {1}, {<<3, USDC, 4>>})
        \cup Swap("swapExactTokensForETH", {5}, {1}, {<<USDC, 3, WETH>>})
        \cup Swap("swapExactTokensForTokens", {50}, {0}, {<<WETH>>})
        \cup Swap("swapExactTokensForTokens", {409, 410, 1639}, {0}, {<<USDC, WETH>>})
OtherSwaps ==
    Swap("swapTokensForExactTokens", {50}, {1}, {<<WETH, USDC>>})
        \cup Swap("swapExactETHForTokens", {0}, {0, 50}, {<<WETH, USDC>>})
        \cup Swap("exactInputSingle", {50}, {0}, {<<WETH, USDC>>})
        \cup Swap("exactInput", {50}, {0}, {<<WETH, 3, USDC>>})
SmallCalls ==
    PairSwaps \cup OtherSwaps
        \cup Swap("execute", {25}, {0}, {<<>>}) \cup Swap("transfer", {50}, {0}, {<<>>})
=============================================================================
