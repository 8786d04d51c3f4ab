---------------------------- MODULE MCWhaleWatch ----------------------------
\* Two tokens, one with more decimals than the default and one with fewer, a pair
\* that trades the first, one rule for each token.
EXTENDS WhaleWatch, TLC

CONSTANTS mnt, usdc, pair, r1, r2

TokenDecimals == mnt :> 2 @@ usdc :> 0
TokenSymbols  == mnt :> "MNT" @@ usdc :> "USDC" @@ pair :> "LP"
Hex           == [a \in Addresses |-> "0X"]
RuleTokens    == r1 :> "MNT" @@ r2 :> "USDC"
RuleEvents    == r1 :> "any" @@ r2 :> "buy"
Fallback      == [s \in KnownSymbols |-> 2]
OneLive       == <<"defillama">>

MCLogs ==
  { [kind |-> "transfer", address |-> mnt, token |-> mnt, way |-> "move", raw |-> 200],
    [kind |-> "transfer", address |-> usdc, token |-> usdc, way |-> "mint", raw |-> 2],
    [kind |-> "swap", address |-> pair, token |-> mnt, way |-> "swap", raw |-> 20] }
=============================================================================
