------------------------------- MODULE Pricing -------------------------------
(***************************************************************************)
(* infra/local_pricing.py: what a hop pays out, V2 and V3, and a chain of    *)
(* hops.  The pools are                                                      *)
(*   [v3 |-> FALSE, token0, token1, reserve0, reserve1]                      *)
(*   [v3 |-> TRUE, token0, token1, price, liquidity, fee]                    *)
(* with sqrt_price_x96 for price and fee_multiplier for fee.                  *)
(* Python's integers are unbounded, as here, and Q stands for 2^96.  But two  *)
(* of the three formulas take the fee with a product of floats, which rounds  *)
(* to 53 bits: above 2^53 it can exceed the share of the input it stands for, *)
(* and it is left open here what it gives.                                   *)
(***************************************************************************)
EXTENDS Integers, Sequences

CONSTANTS Q,             \* Q96
          AfterFee(_, _) \* int(amount * fee)

ASSUME PricingAssumption == Q \in Nat \ {0}

\* Fault: round in favour of the trader.
GetAmountOutRoundedUp(amountIn, reserveIn, reserveOut) ==
  IF reserveIn = 0 \/ reserveOut = 0 \/ amountIn = 0 THEN 0
  ELSE (amountIn * 997 * reserveOut) \div (reserveIn * 1000 + amountIn * 997) + 1

\* The fee of 3 in 1000 is taken from the input, in whole numbers.
GetAmountOut(amountIn, reserveIn, reserveOut) ==
  IF reserveIn = 0 \/ reserveOut = 0 \/ amountIn = 0 THEN 0
  ELSE (amountIn * 997 * reserveOut) \div (reserveIn * 1000 + amountIn * 997)

Positive(n) == IF n > 0 THEN n ELSE 0

\* Token0 is sold: the inverse of the price moves by the input.
SellZero(amount, price, liquidity) ==
  LET inverse == (Q * Q) \div price
      inverseAfter == inverse + (amount * Q) \div liquidity
      priceAfter == (Q * Q) \div inverseAfter
  IN  IF inverseAfter = 0 THEN 0 ELSE Positive((liquidity * (price - priceAfter)) \div Q)

\* Token1 is sold: the price moves by the input.
SellOne(amount, price, liquidity) ==
  LET priceAfter == price + (amount * Q) \div liquidity
      inverse == (Q * Q) \div price
      inverseAfter == (Q * Q) \div priceAfter
  IN  Positive((liquidity * (inverse - inverseAfter)) \div Q)

V3AmountOut(amountIn, pool, from) ==
  LET amount == AfterFee(amountIn, pool.fee)
  IN  IF pool.liquidity = 0 \/ pool.price = 0 \/ amount = 0 THEN 0
      ELSE IF from = pool.token0 THEN SellZero(amount, pool.price, pool.liquidity)
      ELSE SellOne(amount, pool.price, pool.liquidity)

\* <<reserve_in, reserve_out>> of a swap of the token `from`.
ReservesFrom(pool, from) ==
  IF from = pool.token0 THEN <<pool.reserve0, pool.reserve1>> ELSE <<pool.reserve1, pool.reserve0>>

HopOut(amountIn, pool, from) ==
  IF pool.v3 THEN V3AmountOut(amountIn, pool, from)
  ELSE GetAmountOut(amountIn, ReservesFrom(pool, from)[1], ReservesFrom(pool, from)[2])

\* A cycle is [tokens, pools]: pool i takes tokens[i] and pays tokens[i + 1].  A hop
\* that pays nothing ends the chain with nothing, as the hops after it would.
GetAmountOutMultiHop(cycle, amountIn) ==
  LET out[i \in 0 .. Len(cycle.pools)] ==
        IF i = 0 THEN amountIn ELSE HopOut(out[i - 1], cycle.pools[i], cycle.tokens[i])
  IN  out[Len(cycle.pools)]

-----------------------------------------------------------------------------
\* The triangular path: WETH to a token, to a quote token, to WETH.

\* Each pair is <<reserve_in, reserve_out>> of a hop; a hop of nothing pays nothing.
CalculateTriangularRoute(amountIn, first, second, third) ==
  GetAmountOut(GetAmountOut(GetAmountOut(amountIn, first[1], first[2]), second[1], second[2]),
               third[1], third[2])

\* The fee is taken first, as a float, and what is left of the input truncated.
V2Fee == 997 \* V2_FEE, in parts of 1000

ComputeV2Output(reserveIn, reserveOut, amountIn) ==
  LET withFee == AfterFee(amountIn, V2Fee)
  IN  IF reserveIn = 0 \/ reserveOut = 0 \/ amountIn = 0 THEN 0
      ELSE (withFee * reserveOut) \div (reserveIn + withFee)

\* PoolInfo and QuotePoolInfo: [baseIsR0, reserves], the base being WETH or the quote.
BaseReserve(pool) == IF pool.baseIsR0 THEN pool.reserves[1] ELSE pool.reserves[2]
ExoticReserve(pool) == IF pool.baseIsR0 THEN pool.reserves[2] ELSE pool.reserves[1]

\* The third hop turns the reserves round once more where WETH is token1, and
\* prices it in the wrong direction.
FinalWethReserve(pool) == IF pool.baseIsR0 THEN BaseReserve(pool) ELSE ExoticReserve(pool)
FinalUsdcReserve(pool) == IF pool.baseIsR0 THEN ExoticReserve(pool) ELSE BaseReserve(pool)

TriangularOutput(wethPool, quotePool, wethUsdcPool, amountIn) ==
  LET exotic == ComputeV2Output(BaseReserve(wethPool), ExoticReserve(wethPool), amountIn)
      quote == ComputeV2Output(ExoticReserve(quotePool), BaseReserve(quotePool), exotic)
  IN  ComputeV2Output(FinalUsdcReserve(wethUsdcPool), FinalWethReserve(wethUsdcPool), quote)

\* One path per quote token that pays anything, a gain or not; the caller takes
\* one with the greatest output.
FindTriangularPath(wethPool, quotePools, wethUsdcPool, amountIn) ==
  {q \in DOMAIN quotePools : TriangularOutput(wethPool, quotePools[q], wethUsdcPool, amountIn) # 0}

-----------------------------------------------------------------------------
\* What comes back when the output of a swap is swapped at once in the same pool,
\* whose reserves the first swap has changed.
SwapBack(amountIn, reserveIn, reserveOut) ==
  LET paid == GetAmountOut(amountIn, reserveIn, reserveOut)
  IN  GetAmountOut(paid, reserveOut - paid, reserveIn + amountIn)
=============================================================================
