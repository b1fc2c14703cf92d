------------------------- MODULE FlashloanExecutor -------------------------
(***************************************************************************)
(* contracts/FlashloanExecutor.sol: the contract that borrows WETH from the  *)
(* Balancer Vault, walks a path of swaps, repays and pays its owner.         *)
(*                                                                           *)
(* A transaction is a sequence of steps between two idle states, and a       *)
(* revert anywhere in it restores what was there when it began.              *)
(* executeArbitrage and sweep are the owner's.  receiveFlashLoan is called by *)
(* the Vault, and asks no more than that: whoever has the Vault lend to this  *)
(* contract, as GraphArbSimulator does to simulate a route, chooses the token *)
(* that is lent and the route.  The owner's routes are built by the program;  *)
(* of the others nothing is known.                                            *)
(* Routers, tokens and the Vault are external: a swap pulls from the          *)
(* allowance and delivers any amount; on a route of the owner a V2 router     *)
(* pulls what it is given, and a router reports more than it delivers only    *)
(* when the token taxes its transfers.                                        *)
(***************************************************************************)
EXTENDS Integers, Sequences

CONSTANTS Tokens, Weth, Routers,
          Taxed,    \* tokens that deliver less than the router reports
          Calls,    \* routes and loans: [path, routers, feeTiers, isV3, amount]
          LoanFee,  \* feeAmounts[0] (0 on Arbitrum)
          Amounts,  \* what a router may deliver or a stranger send, and a partial fill pull
          MaxHeld   \* bound: a transaction starts, and strangers send, while no more
            \* than this is held of any token

ASSUME FlashloanAssumption ==
  /\ Weth \in Tokens
  /\ LoanFee \in Nat /\ MaxHeld \in Nat /\ Amounts \subseteq Nat
  /\ \A c \in Calls : /\ c.path \in Seq(Tokens) /\ c.routers \in Seq(Routers)
                      /\ c.isV3 \in Seq(BOOLEAN) /\ c.feeTiers \in Seq(Nat)
                      /\ c.amount \in Nat

VARIABLES
  phase,     \* "idle", "route" between hops, "swap" once approved, "reset" after the swap
  call,      \* the route and the amount of the running call
  owned,     \* whether the owner began it, by executeArbitrage
  hop,       \* i + 1 in _route
  amountIn,  \* amountIn in _route: what the last hop says it delivered
  held,      \* balanceOf(this), per token
  allowance, \* what each router may still pull, per token
  debt,      \* what the Vault has to get back before the transaction may end
  paid,      \* WETH the owner received from the last transaction
  saved      \* held when the transaction began

vars == <<phase, call, owned, hop, amountIn, held, allowance, debt, paid, saved>>

TypeOK ==
  /\ phase \in {"idle", "route", "swap", "reset"}
  /\ phase # "idle" => call \in Calls
  /\ owned \in BOOLEAN
  /\ hop \in Nat \ {0}
  /\ amountIn \in Nat
  /\ held \in [Tokens -> Nat]
  /\ allowance \in [Tokens -> [Routers -> Nat]]
  /\ debt \in Nat
  /\ paid \in Nat
  /\ saved \in [Tokens -> Nat]

NoAllowance == [t \in Tokens |-> [r \in Routers |-> 0]]

Init ==
  /\ phase = "idle"
  /\ call \in Calls
  /\ owned = FALSE
  /\ hop = 1
  /\ amountIn = 0
  /\ held = [t \in Tokens |-> 0]
  /\ allowance = NoAllowance
  /\ debt = 0
  /\ paid = 0
  /\ saved = held

\* The negation of LengthMismatch.
LengthsMatch(c) ==
  /\ Len(c.path) >= 2
  /\ Len(c.routers) = Len(c.path) - 1
  /\ Len(c.feeTiers) = Len(c.routers)
  /\ Len(c.isV3) = Len(c.routers)

\* The Vault hands over the loan and calls receiveFlashLoan.  The repayment is
\* counted in WETH, whatever token was lent.
Lend(c, token) ==
  /\ phase = "idle"
  /\ \A t \in Tokens : held[t] <= MaxHeld
  /\ phase' = "route"
  /\ call' = c
  /\ hop' = 1
  /\ amountIn' = c.amount
  /\ held' = [held EXCEPT ![token] = @ + c.amount]
  /\ debt' = c.amount + LoanFee
  /\ saved' = held
  /\ UNCHANGED <<allowance, paid>>

ExecuteArbitrage(c) ==
  /\ LengthsMatch(c)
  /\ Lend(c, Weth)
  /\ owned' = TRUE

\* Anyone calls the Vault's flashLoan with this contract as its recipient.
LentByOthers(c, token) ==
  /\ Lend(c, token)
  /\ owned' = FALSE

\* What the next turn of _route reads is there; else it reverts.
HopInBounds ==
  /\ hop + 1 \in DOMAIN call.path
  /\ hop \in DOMAIN call.isV3
  /\ call.isV3[hop] => hop \in DOMAIN call.feeTiers

TokenIn == call.path[hop]
TokenOut == call.path[hop + 1]
Router == call.routers[hop]

\* Fault: every hop is given the borrowed amount.
ApproveBorrowed ==
  /\ phase = "route"
  /\ hop <= Len(call.routers)
  /\ HopInBounds
  /\ allowance' = [allowance EXCEPT ![TokenIn][Router] = call.amount]
  /\ amountIn' = call.amount
  /\ phase' = "swap"
  /\ UNCHANGED <<call, owned, hop, held, debt, paid, saved>>

\* Fault: a hop spends the balance, and not what the last one delivered.
ApproveBalance ==
  /\ phase = "route"
  /\ hop <= Len(call.routers)
  /\ HopInBounds
  /\ allowance' = [allowance EXCEPT ![TokenIn][Router] = held[TokenIn]]
  /\ amountIn' = held[TokenIn]
  /\ phase' = "swap"
  /\ UNCHANGED <<call, owned, hop, held, debt, paid, saved>>

Approve ==
  /\ phase = "route"
  /\ hop <= Len(call.routers)
  /\ HopInBounds
  /\ allowance' = [allowance EXCEPT ![TokenIn][Router] = amountIn]
  /\ phase' = "swap"
  /\ UNCHANGED <<call, owned, hop, amountIn, held, debt, paid, saved>>

\* A V2 router pulls all of amountIn; a V3 pool that runs out of liquidity
\* pulls less, and so may what stands for a router on a route of others.
Pulls ==
  IF call.isV3[hop] \/ ~owned THEN {n \in 0..amountIn : n = amountIn \/ n \in Amounts} ELSE {amountIn}

\* External: the router swaps.  It pulls what it is allowed and the contract
\* has, delivers `got` and returns `reported`.
Swap ==
  /\ phase = "swap"
  /\ \E pulled \in Pulls, got \in Amounts, reported \in Amounts :
       /\ pulled <= held[TokenIn]
       /\ pulled <= allowance[TokenIn][Router]
       /\ owned => IF TokenOut \in Taxed THEN got <= reported ELSE got = reported
       /\ allowance' = [allowance EXCEPT ![TokenIn][Router] = @ - pulled]
       /\ held' = [[held EXCEPT ![TokenIn] = @ - pulled] EXCEPT ![TokenOut] = @ + got]
       /\ amountIn' = reported
  /\ phase' = "reset"
  /\ UNCHANGED <<call, owned, hop, debt, paid, saved>>

\* Fault: the approval is only reset after the last hop.
ResetApprovalLast ==
  /\ phase = "reset"
  /\ allowance' = IF hop = Len(call.routers) THEN [allowance EXCEPT ![TokenIn][Router] = 0] ELSE allowance
  /\ hop' = hop + 1
  /\ phase' = "route"
  /\ UNCHANGED <<call, owned, amountIn, held, debt, paid, saved>>

ResetApproval ==
  /\ phase = "reset"
  /\ allowance' = [allowance EXCEPT ![TokenIn][Router] = 0]
  /\ hop' = hop + 1
  /\ phase' = "route"
  /\ UNCHANGED <<call, owned, amountIn, held, debt, paid, saved>>

\* Fault: InsufficientRepayment is not checked and profit is unchecked arithmetic.
SettleUnchecked ==
  /\ phase = "route"
  /\ hop > Len(call.routers)
  /\ held[Weth] - debt # 0
  /\ held' = [held EXCEPT ![Weth] = 0]
  /\ debt' = 0
  /\ paid' = held[Weth] - debt
  /\ phase' = "idle"
  /\ UNCHANGED <<call, owned, hop, amountIn, allowance, saved>>

\* The rest of receiveFlashLoan: InsufficientRepayment and NoProfit revert,
\* else the Vault is repaid and the owner gets all the WETH that is left.
Settle ==
  /\ phase = "route"
  /\ hop > Len(call.routers)
  /\ held[Weth] >= debt
  /\ held[Weth] - debt # 0
  /\ held' = [held EXCEPT ![Weth] = 0]
  /\ debt' = 0
  /\ paid' = held[Weth] - debt
  /\ phase' = "idle"
  /\ UNCHANGED <<call, owned, hop, amountIn, allowance, saved>>

\* Any call may revert, the Vault's check that the lent token is back among
\* them, and with it the transaction: nothing happened.
Revert ==
  /\ phase # "idle"
  /\ phase' = "idle"
  /\ held' = saved
  /\ allowance' = NoAllowance
  /\ debt' = 0
  /\ paid' = 0
  /\ UNCHANGED <<call, owned, hop, amountIn, saved>>

\* Somebody sends tokens to the contract; what a route of others calls may do
\* so in its middle, and the Vault may lend such a route further tokens.
Stray(t) ==
  /\ phase = "idle" \/ ~owned
  /\ held[t] <= MaxHeld
  /\ \E n \in Amounts : held' = [held EXCEPT ![t] = @ + n]
  /\ UNCHANGED <<phase, call, owned, hop, amountIn, allowance, debt, paid, saved>>

\* sweep(token, to) by the owner.
Sweep(t) ==
  /\ phase = "idle"
  /\ held' = [held EXCEPT ![t] = 0]
  /\ UNCHANGED <<phase, call, owned, hop, amountIn, allowance, debt, paid, saved>>

Next ==
  \/ \E c \in Calls : ExecuteArbitrage(c) \/ \E t \in Tokens : LentByOthers(c, t)
  \/ Approve \/ Swap \/ ResetApproval \/ Settle \/ Revert
  \/ \E t \in Tokens : Stray(t) \/ Sweep(t)

Spec == Init /\ [][Next]_vars

-----------------------------------------------------------------------------
\* "Reset approval on the spent token to avoid lingering allowance": a router
\* can pull the token of the hop it is swapping and nothing else, and nothing
\* at all once the transaction is over.
NoLingeringAllowance ==
  \A t \in Tokens, r \in Routers :
    allowance[t][r] # 0 => phase \in {"swap", "reset"} /\ t = TokenIn /\ r = Router

\* What the last hop delivered, and the next may spend.
Spendable(t) ==
  IF t = call.path[IF phase = "reset" THEN hop + 1 ELSE hop] THEN amountIn ELSE 0

\* A route of the owner pays for itself: each hop spends what the hop before
\* delivered, so that tokens the contract held already (left by an earlier
\* partial fill or sent by a stranger) are not swapped along, unless the token
\* is taxed.  Only a path that begins with another token than WETH, against
\* "path[0] == path[last] == WETH", starts with what was there.  A route of
\* others promises no such thing.
RoutePaysForItself ==
  phase # "idle" /\ owned =>
    \A t \in Tokens \ Taxed :
      \/ held[t] >= saved[t] + Spendable(t)
      \/ t = call.path[1] /\ t # Weth

Committed ==
  INSTANCE AtomicTrade WITH holdings <- IF phase = "idle" THEN held ELSE saved

\* To everyone outside it the contract trades in one step.  Whoever began it, a
\* trade that settles takes only tokens on its path, and all the WETH for the
\* owner; one the owner began takes of the rest only taxed tokens and the token
\* its path starts with.
TradesAreAtomic == Committed!Spec
=============================================================================
