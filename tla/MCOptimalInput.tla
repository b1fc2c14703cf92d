--------------------------- MODULE MCOptimalInput ---------------------------
(* TLC instance of CycleSizing: cycles of two and                              *)
(* three hops, V2 and V3, thin and deep, with and without gas, through pools   *)
(* taken in either direction.                                                  *)
EXTENDS CycleSizing

V2(token0, token1, reserve0, reserve1) ==
  [v3 |-> FALSE, token0 |-> token0, token1 |-> token1, reserve0 |-> reserve0, reserve1 |-> reserve1]
V3(token0, token1, price, liquidity, fee) ==
  [v3 |-> TRUE, token0 |-> token0, token1 |-> token1, price |-> price, liquidity |-> liquidity, fee |-> fee]
Turned(pool) == [pool EXCEPT !.token0 = pool.token1, !.token1 = pool.token0]

\* A float of five significant bits, that rounds to the nearest; fees are in parts
\* of 1000.
Nearest(n, d) == (2 * n + d) \div (2 * d)
Ulp(n) == IF n < 32 THEN 1 ELSE IF n < 64 THEN 2 ELSE IF n < 128 THEN 4 ELSE IF n < 256 THEN 8
          ELSE IF n < 512 THEN 16 ELSE 32
Float(n) == Nearest(n, Ulp(n)) * Ulp(n)
CoarseFloat(amount, fee) ==
  LET product == Float(amount) * fee
      ulp == Ulp(product \div 1000)
  IN  IF ulp = 1 THEN product \div 1000 ELSE Nearest(product, 1000 * ulp) * ulp

There == <<"weth", "x", "weth">>
Around == <<"weth", "x", "y", "weth">>

SomeCycles ==
  {[tokens |-> There, pools |-> <<V2("weth", "x", a, b), V2("weth", "x", d, c)>>] :
     a, c \in {0, 5, 40}, b, d \in {60, 300}}
    \cup {[tokens |-> Around, pools |-> <<V2("x", "weth", b, a), V2("x", "y", 60, 90), V2("weth", "y", d, c)>>] :
            a, c \in {20, 40}, b, d \in {60, 150}}
    \cup {[tokens |-> There, pools |-> <<V2("x", "weth", b, a), v>>] :
            a \in {10, 40}, b \in {60, 200},
            v \in UNION {{V3("x", "weth", price, 90, 997), V3("weth", "x", price, 90, 997)} :
                           price \in {0, 512, 1024, 2560}}}
    \cup {[tokens |-> There, pools |-> pools] :
            pools \in UNION {{<<v, w>>, <<Turned(v), Turned(w)>>} :
                               v \in {V3("x", "weth", 1024, liquidity, fee) :
                                        liquidity \in {0, 50, 400}, fee \in {990, 997}},
                               w \in {V3("x", "weth", price, 70, 1000) : price \in {768, 1536}}}}

SomeMarkets == [cycle : SomeCycles, gas : {0, 7}, max : {0, 4, 40}]
=============================================================================
