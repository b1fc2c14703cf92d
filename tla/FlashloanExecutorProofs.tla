---------------------- MODULE FlashloanExecutorProofs ----------------------
(***************************************************************************)
(* Proofs about FlashloanExecutor for every set of tokens, routers, calls    *)
(* and amounts, and whoever has the Vault lend to the contract.  OnRoute,    *)
(* that the hop points into the running call, and that a call of the owner    *)
(* has matching lengths, is what the other invariants need to be inductive.  *)
(***************************************************************************)
EXTENDS FlashloanExecutor, TLAPS

OnRoute ==
  phase # "idle" =>
    /\ owned => LengthsMatch(call)
    /\ phase \in {"swap", "reset"} => hop <= Len(call.routers) /\ HopInBounds

IInv == TypeOK /\ OnRoute

\* On a route, the hop's tokens and router are what the call names.
LEMMA HopTyped ==
  ASSUME IInv, phase # "idle", hop <= Len(call.routers), HopInBounds
  PROVE  /\ TokenIn \in Tokens /\ TokenOut \in Tokens /\ Router \in Routers
         /\ hop \in DOMAIN call.path /\ hop + 1 \in DOMAIN call.path
<1>1. call \in Calls /\ hop \in Nat \ {0}
  BY DEF IInv, TypeOK
<1>2. call.path \in Seq(Tokens) /\ call.routers \in Seq(Routers)
  BY <1>1, FlashloanAssumption
<1>3. hop \in 1..Len(call.path) /\ hop + 1 \in 1..Len(call.path) /\ hop \in 1..Len(call.routers)
  BY <1>1, <1>2 DEF HopInBounds
<1> QED
  BY <1>1, <1>2, <1>3 DEF TokenIn, TokenOut, Router

LEMMA InitIInv == Init => IInv
<1> SUFFICES ASSUME Init PROVE IInv
  OBVIOUS
<1> USE FlashloanAssumption
<1>1. NoAllowance \in [Tokens -> [Routers -> Nat]]
  BY DEF NoAllowance
<1>2. held \in [Tokens -> Nat] /\ allowance \in [Tokens -> [Routers -> Nat]]
  BY <1>1 DEF Init
<1>3. hop \in Nat \ {0} /\ amountIn \in Nat /\ debt \in Nat /\ paid \in Nat /\ saved = held
  BY DEF Init
<1>4. owned \in BOOLEAN /\ phase = "idle" /\ phase \in {"idle", "route", "swap", "reset"}
  BY DEF Init
<1> QED
  BY <1>2, <1>3, <1>4, Zenon DEF IInv, TypeOK, OnRoute

LEMMA NextIInv == IInv /\ [Next]_vars => IInv'
<1> SUFFICES ASSUME IInv, [Next]_vars PROVE IInv'
  OBVIOUS
<1> USE FlashloanAssumption DEF IInv
<1>1. ASSUME NEW c \in Calls, NEW token \in Tokens, Lend(c, token), owned' \in BOOLEAN,
             owned' => LengthsMatch(c)
      PROVE  IInv'
  <2>1. c.amount \in Nat
    OBVIOUS
  <2>2. TypeOK'
    BY <1>1, <2>1 DEF Lend, TypeOK
  <2>3. owned' => LengthsMatch(call)'
    BY <1>1 DEF Lend, LengthsMatch
  <2>4. OnRoute'
    BY <1>1, <2>3 DEF Lend, OnRoute
  <2> QED BY <2>2, <2>4
<1>2. ASSUME Approve PROVE IInv'
  <2>1. TokenIn \in Tokens /\ Router \in Routers
    BY <1>2, HopTyped DEF Approve
  <2>2. TypeOK'
    BY <1>2, <2>1 DEF Approve, TypeOK
  <2>3. OnRoute'
    BY <1>2 DEF Approve, OnRoute, LengthsMatch, HopInBounds
  <2> QED BY <2>2, <2>3
<1>3. ASSUME Swap PROVE IInv'
  <2>1. TokenIn \in Tokens /\ TokenOut \in Tokens /\ Router \in Routers
    BY <1>3, HopTyped DEF Swap, OnRoute
  <2>2. PICK pulled \in Pulls, got \in Amounts, reported \in Amounts :
          /\ pulled <= held[TokenIn]
          /\ pulled <= allowance[TokenIn][Router]
          /\ allowance' = [allowance EXCEPT ![TokenIn][Router] = @ - pulled]
          /\ held' = [[held EXCEPT ![TokenIn] = @ - pulled] EXCEPT ![TokenOut] = @ + got]
          /\ amountIn' = reported
    BY <1>3 DEF Swap
  <2>3. pulled \in Nat /\ got \in Nat /\ reported \in Nat
    BY <2>2 DEF Pulls, TypeOK
  <2>4. allowance' \in [Tokens -> [Routers -> Nat]]
    BY <2>1, <2>2, <2>3 DEF TypeOK
  <2>5. held' \in [Tokens -> Nat]
    <3> DEFINE rest == [held EXCEPT ![TokenIn] = @ - pulled]
    <3>1. rest \in [Tokens -> Nat]
      BY <2>1, <2>2, <2>3 DEF TypeOK
    <3>2. held' = [rest EXCEPT ![TokenOut] = @ + got]
      BY <2>2
    <3> HIDE DEF rest
    <3> QED BY <2>1, <2>3, <3>1, <3>2
  <2>6. TypeOK'
    BY <1>3, <2>2, <2>3, <2>4, <2>5 DEF Swap, TypeOK
  <2>7. OnRoute'
    BY <1>3 DEF Swap, OnRoute, LengthsMatch, HopInBounds
  <2> QED BY <2>6, <2>7
<1>4. ASSUME ResetApproval PROVE IInv'
  <2>1. TokenIn \in Tokens /\ Router \in Routers
    BY <1>4, HopTyped DEF ResetApproval, OnRoute
  <2>2. TypeOK'
    BY <1>4, <2>1 DEF ResetApproval, TypeOK
  <2>3. OnRoute'
    BY <1>4 DEF ResetApproval, OnRoute, LengthsMatch
  <2> QED BY <2>2, <2>3
<1>5. ASSUME Settle PROVE IInv'
  BY <1>5 DEF Settle, TypeOK, OnRoute
<1>6. ASSUME Revert PROVE IInv'
  BY <1>6 DEF Revert, TypeOK, OnRoute, NoAllowance
<1>7. ASSUME NEW t \in Tokens, Stray(t) PROVE IInv'
  BY <1>7 DEF Stray, TypeOK, OnRoute, LengthsMatch, HopInBounds
<1>8. ASSUME NEW t \in Tokens, Sweep(t) PROVE IInv'
  BY <1>8 DEF Sweep, TypeOK, OnRoute
<1>9. ASSUME UNCHANGED vars PROVE IInv'
  BY <1>9 DEF vars, TypeOK, OnRoute, LengthsMatch, HopInBounds
<1>10. ASSUME NEW c \in Calls, ExecuteArbitrage(c) PROVE IInv'
  BY <1>1, <1>10 DEF ExecuteArbitrage
<1>11. ASSUME NEW c \in Calls, NEW t \in Tokens, LentByOthers(c, t) PROVE IInv'
  BY <1>1, <1>11 DEF LentByOthers
<1> QED
  BY <1>2, <1>3, <1>4, <1>5, <1>6, <1>7, <1>8, <1>9, <1>10, <1>11 DEF Next

\* Every variable keeps its type whatever the routers and tokens do.
THEOREM TypeCorrect == Spec => []TypeOK
<1>1. IInv => TypeOK
  BY DEF IInv
<1> QED
  BY <1>1, InitIInv, NextIInv, PTL DEF Spec

\* Allowances, balances and debt fit the hop and the phase the contract is in.
THEOREM IInvCorrect == Spec => []IInv
<1> QED
  BY InitIInv, NextIInv, PTL DEF Spec

-----------------------------------------------------------------------------
\* "Reset approval on the spent token to avoid lingering allowance": no router
\* is left with an allowance, whatever the route, the fills and the reverts.
THEOREM AllowancesReset == Spec => []NoLingeringAllowance
<1>1. Init => NoLingeringAllowance
  BY DEF Init, NoLingeringAllowance, NoAllowance
<1>2. IInv /\ NoLingeringAllowance /\ [Next]_vars => NoLingeringAllowance'
  <2> SUFFICES ASSUME IInv, NoLingeringAllowance, [Next]_vars,
                      NEW t \in Tokens, NEW r \in Routers, allowance'[t][r] # 0
               PROVE  phase' \in {"swap", "reset"} /\ t = TokenIn' /\ r = Router'
    BY DEF NoLingeringAllowance
  <2> USE DEF NoLingeringAllowance
  <2>1. ASSUME NEW c \in Calls, NEW u \in Tokens, ExecuteArbitrage(c) \/ LentByOthers(c, u) PROVE FALSE
    BY <2>1 DEF ExecuteArbitrage, LentByOthers, Lend
  <2>2. CASE Approve
    <3>1. TokenIn \in Tokens /\ Router \in Routers /\ allowance \in [Tokens -> [Routers -> Nat]]
      BY <2>2, HopTyped DEF Approve, IInv, TypeOK
    <3> QED BY <2>2, <3>1 DEF Approve, TokenIn, Router
  <2>3. CASE Swap
    <3>1. TokenIn \in Tokens /\ Router \in Routers /\ allowance \in [Tokens -> [Routers -> Nat]]
      BY <2>3, HopTyped DEF Swap, IInv, OnRoute, TypeOK
    <3>2. \E pulled : allowance' = [allowance EXCEPT ![TokenIn][Router] = @ - pulled]
      BY <2>3 DEF Swap
    <3>3. allowance[t][r] # 0 \/ (t = TokenIn /\ r = Router)
      BY <3>1, <3>2
    <3>4. t = TokenIn /\ r = Router
      BY <3>3
    <3> QED BY <2>3, <3>4 DEF Swap, TokenIn, Router
  <2>4. ASSUME ResetApproval PROVE FALSE
    <3>1. TokenIn \in Tokens /\ Router \in Routers /\ allowance \in [Tokens -> [Routers -> Nat]]
      BY <2>4, HopTyped DEF ResetApproval, IInv, OnRoute, TypeOK
    <3> QED BY <2>4, <3>1 DEF ResetApproval
  <2>5. ASSUME Settle PROVE FALSE
    BY <2>5 DEF Settle
  <2>6. ASSUME Revert PROVE FALSE
    BY <2>6 DEF Revert, NoAllowance
  <2>7. ASSUME NEW u \in Tokens, Stray(u) \/ Sweep(u)
        PROVE  phase' \in {"swap", "reset"} /\ t = TokenIn' /\ r = Router'
    BY <2>7 DEF Stray, Sweep, TokenIn, Router
  <2>8. CASE UNCHANGED vars
    BY <2>8 DEF vars, TokenIn, Router
  <2> QED
    BY <2>1, <2>2, <2>3, <2>4, <2>5, <2>6, <2>7, <2>8, FlashloanAssumption DEF Next
<1> QED
  BY <1>1, <1>2, IInvCorrect, PTL DEF Spec

-----------------------------------------------------------------------------
\* A route of the owner only spends what it borrowed and bought: tokens the contract held
\* before stay, for every token that does not tax its transfers and is not the
\* one a route that does not begin with WETH starts with.
THEOREM RouteFunded == Spec => []RoutePaysForItself
<1>1. Init => RoutePaysForItself
  BY DEF Init, RoutePaysForItself
<1>2. IInv /\ RoutePaysForItself /\ [Next]_vars => RoutePaysForItself'
  <2> SUFFICES ASSUME IInv, RoutePaysForItself, [Next]_vars, phase' # "idle", owned',
                      NEW t \in Tokens \ Taxed, t # call'.path[1] \/ t = Weth
               PROVE  held'[t] >= saved'[t] + Spendable(t)'
    BY DEF RoutePaysForItself
  <2>0. /\ held \in [Tokens -> Nat] /\ saved \in [Tokens -> Nat] /\ amountIn \in Nat
        /\ phase # "idle" /\ owned /\ call' = call => held[t] >= saved[t] + Spendable(t)
    BY DEF IInv, TypeOK, RoutePaysForItself
  <2>1. ASSUME NEW c \in Calls, NEW u \in Tokens, ExecuteArbitrage(c) \/ LentByOthers(c, u)
        PROVE  held'[t] >= saved'[t] + Spendable(t)'
    <3>0. Lend(c, Weth)
      BY <2>1 DEF ExecuteArbitrage, LentByOthers
    <3>1. c.amount \in Nat /\ (t = c.path[1] => t = Weth)
      BY <3>0, FlashloanAssumption DEF Lend
    <3>2. Spendable(t)' = IF t = c.path[1] THEN c.amount ELSE 0
      BY <3>0 DEF Lend, Spendable
    <3> QED BY <2>0, <3>0, <3>1, <3>2 DEF Lend
  <2>2. CASE Approve
    BY <2>0, <2>2 DEF Approve, Spendable
  <2>3. CASE Swap
    <3>1. /\ TokenIn \in Tokens /\ TokenOut \in Tokens /\ hop \in Nat
          /\ Spendable(t) = IF t = TokenIn THEN amountIn ELSE 0
          /\ Spendable(t)' = IF t = TokenOut THEN amountIn' ELSE 0
      BY <2>3, HopTyped DEF Swap, IInv, TypeOK, OnRoute, Spendable, TokenIn, TokenOut
    <3>2. PICK pulled \in Pulls, got \in Amounts, reported \in Amounts :
            /\ owned => IF TokenOut \in Taxed THEN got <= reported ELSE got = reported
            /\ held' = [[held EXCEPT ![TokenIn] = @ - pulled] EXCEPT ![TokenOut] = @ + got]
            /\ amountIn' = reported
      BY <2>3 DEF Swap
    <3>3. owned /\ pulled \in 0..amountIn /\ got \in Nat /\ reported \in Nat
      BY <2>0, <2>3, <3>2, FlashloanAssumption DEF Pulls, Swap
    <3> DEFINE rest == [held EXCEPT ![TokenIn] = @ - pulled]
    <3>4. rest \in [Tokens -> Int] /\ rest[t] >= saved[t]
      BY <2>0, <2>3, <3>1, <3>3 DEF Swap
    <3>5. held' = [rest EXCEPT ![TokenOut] = @ + got] /\ saved' = saved
      BY <2>3, <3>2 DEF Swap
    <3> HIDE DEF rest
    <3>6. CASE t = TokenOut
      BY <2>0, <3>1, <3>2, <3>3, <3>4, <3>5, <3>6
    <3>7. CASE t # TokenOut
      BY <2>0, <3>1, <3>4, <3>5, <3>7
    <3> QED BY <3>6, <3>7
  <2>4. CASE ResetApproval
    BY <2>0, <2>4 DEF ResetApproval, Spendable
  <2>5. CASE Settle \/ Revert
    BY <2>5 DEF Settle, Revert
  <2>6. ASSUME NEW u \in Tokens, Stray(u) \/ Sweep(u) PROVE held'[t] >= saved'[t] + Spendable(t)'
    BY <2>6 DEF Stray, Sweep
  <2>7. CASE UNCHANGED vars
    BY <2>0, <2>7 DEF vars, Spendable
  <2> QED
    BY <2>1, <2>2, <2>3, <2>4, <2>5, <2>6, <2>7, FlashloanAssumption DEF Next
<1> QED
  BY <1>1, <1>2, IInvCorrect, PTL DEF Spec

-----------------------------------------------------------------------------
\* In the middle of a route, whoever began it, only WETH and tokens of the path
\* were spent.
OnPath ==
  phase # "idle" =>
    \A t \in Tokens \ {Weth} :
      held[t] < saved[t] => \E i \in DOMAIN call.path : call.path[i] = t

LEMMA OnPathCorrect == Spec => []OnPath
<1>1. Init => OnPath
  BY DEF Init, OnPath
<1>2. IInv /\ OnPath /\ [Next]_vars => OnPath'
  <2> SUFFICES ASSUME IInv, OnPath, [Next]_vars, phase' # "idle",
                      NEW t \in Tokens \ {Weth}, held'[t] < saved'[t]
               PROVE  \E i \in DOMAIN call'.path : call'.path[i] = t
    BY DEF OnPath
  <2>0. held \in [Tokens -> Nat] /\ saved \in [Tokens -> Nat]
    BY DEF IInv, TypeOK
  <2>1. ASSUME NEW c \in Calls, NEW u \in Tokens, ExecuteArbitrage(c) \/ LentByOthers(c, u) PROVE FALSE
    <3>1. c.amount \in Nat
      BY FlashloanAssumption
    <3>2. PICK v \in Tokens : Lend(c, v)
      BY <2>1, FlashloanAssumption DEF ExecuteArbitrage, LentByOthers
    <3> QED BY <2>0, <3>1, <3>2 DEF Lend
  <2>2. CASE Swap
    <3>1. /\ TokenIn \in Tokens /\ TokenOut \in Tokens
          /\ hop \in DOMAIN call.path /\ hop + 1 \in DOMAIN call.path
      BY <2>2, HopTyped DEF Swap, IInv, OnRoute
    <3>2. CASE t = TokenIn \/ t = TokenOut
      BY <2>2, <3>1, <3>2 DEF Swap, TokenIn, TokenOut
    <3>3. CASE t # TokenIn /\ t # TokenOut
      <4>1. held'[t] = held[t]
        BY <2>0, <2>2, <3>1, <3>3 DEF Swap
      <4> QED BY <2>2, <4>1 DEF Swap, OnPath
    <3> QED BY <3>2, <3>3
  <2>3. CASE Approve \/ ResetApproval
    BY <2>3 DEF Approve, ResetApproval, OnPath
  <2>4. CASE Settle \/ Revert
    BY <2>4 DEF Settle, Revert
  <2>5. ASSUME NEW u \in Tokens, Stray(u) \/ Sweep(u) PROVE held[t] < saved[t] /\ call' = call /\ phase # "idle"
    <3>1. PICK n \in Amounts : held' = [held EXCEPT ![u] = @ + n]
      BY <2>5 DEF Stray, Sweep
    <3>2. n \in Nat
      BY FlashloanAssumption
    <3> QED BY <2>0, <2>5, <3>1, <3>2 DEF Stray, Sweep
  <2>6. CASE UNCHANGED vars
    BY <2>6 DEF vars, OnPath
  <2> QED
    BY <2>1, <2>2, <2>3, <2>4, <2>5, <2>6, FlashloanAssumption DEF Next, OnPath
<1> QED
  BY <1>1, <1>2, IInvCorrect, PTL DEF Spec

\* The contract implements AtomicTrade: outside it nobody sees a trade halfway,
\* and what a trade takes is bounded by its path and by who began it.
THEOREM Refinement == Spec => TradesAreAtomic
<1> DEFINE holdings == IF phase = "idle" THEN held ELSE saved
<1>1. Init => Committed!Init
  BY DEF Init, Committed!Init
<1>2. IInv /\ RoutePaysForItself /\ OnPath /\ [Next]_vars => [Committed!Next]_<<holdings, owned, paid>>
  <2> SUFFICES ASSUME IInv, RoutePaysForItself, OnPath, [Next]_vars
               PROVE  Committed!Next \/ UNCHANGED <<holdings, owned, paid>>
    OBVIOUS
  <2>0. /\ held \in [Tokens -> Nat] /\ saved \in [Tokens -> Nat]
        /\ amountIn \in Nat /\ debt \in Nat /\ Weth \in Tokens
        /\ phase # "idle" => call \in Calls
    BY FlashloanAssumption DEF IInv, TypeOK
  <2>1. ASSUME NEW c \in Calls, NEW u \in Tokens, ExecuteArbitrage(c) \/ LentByOthers(c, u) PROVE Committed!Begin
    <3>1. PICK v \in Tokens : Lend(c, v)
      BY <2>0, <2>1 DEF ExecuteArbitrage, LentByOthers
    <3>2. owned' \in BOOLEAN
      BY <2>1 DEF ExecuteArbitrage, LentByOthers
    <3> QED BY <3>1, <3>2 DEF Lend, Committed!Begin
  <2>2. CASE Approve \/ Swap \/ ResetApproval
    BY <2>2 DEF Approve, Swap, ResetApproval
  <2>3. CASE Settle
    <3>1. /\ paid' \in Nat \ {0} /\ held' \in [Tokens -> Nat] /\ held'[Weth] = 0
          /\ holdings = saved /\ holdings' = held' /\ owned' = owned
          /\ \A t \in Tokens \ {Weth} : held'[t] = held[t]
      BY <2>0, <2>3 DEF Settle
    <3>2. \A t \in Tokens \ {Weth} : held[t] < saved[t] => \E i \in DOMAIN call.path : call.path[i] = t
      BY <2>3 DEF Settle, OnPath
    <3>3. owned => \A t \in Tokens \ {Weth} : held[t] < saved[t] => t \in Taxed \/ t = call.path[1]
      BY <2>0, <2>3 DEF Settle, RoutePaysForItself, Spendable
    <3>4. Committed!Trade(call)
      BY <3>1, <3>2, <3>3 DEF Committed!Trade
    <3> QED BY <2>0, <2>3, <3>4 DEF Committed!Next, Settle
  <2>4. CASE Revert
    BY <2>4 DEF Revert, Committed!Fail, Committed!Next
  <2>5. ASSUME NEW t \in Tokens, Stray(t) PROVE Committed!Receive(t) \/ UNCHANGED <<holdings, owned, paid>>
    <3>1. PICK n \in Amounts : held' = [held EXCEPT ![t] = @ + n]
      BY <2>5 DEF Stray
    <3>2. n \in Nat
      BY FlashloanAssumption
    <3>3. CASE phase = "idle"
      BY <2>0, <2>5, <3>1, <3>2, <3>3 DEF Stray, Committed!Receive
    <3>4. CASE phase # "idle"
      BY <2>5, <3>4 DEF Stray
    <3> QED BY <3>3, <3>4
  <2>6. ASSUME NEW t \in Tokens, Sweep(t) PROVE Committed!Sweep(t)
    BY <2>6 DEF Sweep, Committed!Sweep
  <2>7. CASE UNCHANGED vars
    BY <2>7 DEF vars
  <2> QED
    BY <2>0, <2>1, <2>2, <2>3, <2>4, <2>5, <2>6, <2>7 DEF Next, Committed!Next
<1> QED
  BY <1>1, <1>2, IInvCorrect, RouteFunded, OnPathCorrect, PTL DEF Spec, TradesAreAtomic, Committed!Spec
=============================================================================
