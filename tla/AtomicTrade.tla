---------------------------- MODULE AtomicTrade ----------------------------
(***************************************************************************)
(* What FlashloanExecutor.sol promises its owner: between two transactions  *)
(* it is only a set of balances, and a trade is one step that pays the      *)
(* owner.  What a trade may take of the balances depends on who began it.   *)
(***************************************************************************)
EXTENDS Integers, Sequences

CONSTANTS Tokens, Weth, Taxed, Calls

VARIABLES
  holdings, \* what the contract owns of each token
  owned,    \* whether the owner began the last trade
  paid      \* WETH the owner received from the last trade, 0 when it failed

Init ==
  /\ holdings = [t \in Tokens |-> 0]
  /\ owned = FALSE
  /\ paid = 0

\* A transaction begins, and nothing is seen of it yet.
Begin ==
  /\ owned' \in BOOLEAN
  /\ UNCHANGED <<holdings, paid>>

\* A trade takes tokens of its path only; the owner's spends none that was held
\* already, but the first one and those that tax their transfers.
Trade(c) ==
  /\ paid' \in Nat \ {0}
  /\ holdings' \in [Tokens -> Nat]
  /\ holdings'[Weth] = 0
  /\ \A t \in Tokens \ {Weth} :
       holdings'[t] < holdings[t] =>
         /\ \E i \in DOMAIN c.path : c.path[i] = t
         /\ owned => t \in Taxed \/ t = c.path[1]
  /\ UNCHANGED owned

Fail ==
  /\ paid' = 0
  /\ UNCHANGED <<holdings, owned>>

Receive(t) ==
  /\ holdings'[t] >= holdings[t]
  /\ holdings' = [holdings EXCEPT ![t] = holdings'[t]]
  /\ UNCHANGED <<owned, paid>>

Sweep(t) ==
  /\ holdings' = [holdings EXCEPT ![t] = 0]
  /\ UNCHANGED <<owned, paid>>

Next ==
  \/ Begin
  \/ \E c \in Calls : Trade(c)
  \/ Fail
  \/ \E t \in Tokens : Receive(t) \/ Sweep(t)

Spec == Init /\ [][Next]_<<holdings, owned, paid>>
=============================================================================
