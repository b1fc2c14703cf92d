----------------------------- MODULE MCWhitelist -----------------------------
(* A whitelist for TLC: a V2 pool, two V3 pools that are candidates, dust.      *)
EXTENDS Whitelist

Offer(pool, dexId, liquidity, volume, fee) ==
  [pool |-> pool, chain |-> "arbitrum", dexId |-> dexId, liquidity |-> liquidity,
   volume |-> volume, addressed |-> TRUE, routed |-> TRUE, fee |-> fee]

\* "b" is a V3 pool that one service names by its venue alone.
MCOffers ==
  {Offer("a", "sushi", 2, 2, Number(NoFee)),
   Offer("b", "uniswap", 2, 3, Number(NoFee)),
   Offer("b", "uniswap_v3", 2, 3, Fraction(500)),
   Offer("c", "camelot_v3", 2, 2, Number(NoFee)),
   [Offer("d", "ramses", 2, 3, Number(NoFee)) EXCEPT !.routed = FALSE]}

Entry(pool, dex, fee) == [pool |-> pool, dex |-> dex, fee |-> fee]
MCStatic == <<Entry("s", "uniswap_v2", NoFee), Entry("b", "uniswap_v3", 500)>>
MCCommitted == <<Entry("b", "uniswap_v3", 3000), Entry("a", "sushiswap", NoFee)>>
MCCandidates == <<"b", "c">>
MCCamelot == {"c"}
MCChainFee == [p \in {"b", "c"} |-> 500]
=============================================================================
