---------------------------- MODULE CycleSizing ----------------------------
(***************************************************************************)
(* calculate_optimal_input_size over the quotes of a cycle of pools: a market *)
(* is a cycle, the gas and the greatest input, and the profit is what         *)
(* get_amount_out_multi_hop pays, less the input and the gas.  Nothing calls  *)
(* it yet: process_b_sniper.py takes its sizes from OnChainQuoter.            *)
(***************************************************************************)
EXTENDS OptimalInput, Pricing

NetProfit(m, x) == GetAmountOutMultiHop(m.cycle, x) - x - m.gas
MaxInputOf(m) == m.max

\* Reserves are read from Sync events as unsigned integers.
ASSUME ReservesAssumption ==
  \A m \in Markets : \A i \in DOMAIN m.cycle.pools :
    LET pool == m.cycle.pools[i]
    IN  ~pool.v3 => pool.reserve0 \in Nat /\ pool.reserve1 \in Nat

\* Swapping there and back through a pool gains nothing, in every V2 pool of the
\* cycle and for every input the search prices: quotes of get_amount_out cannot
\* show a profit that is only rounding.
RoundTripNeverGains ==
  \A i \in DOMAIN market.cycle.pools, x \in {lo, Left, Right, hi} :
    LET pool == market.cycle.pools[i]
        reserves == ReservesFrom(pool, market.cycle.tokens[i])
    IN  ~pool.v3 => SwapBack(x, reserves[1], reserves[2]) <= x
=============================================================================
