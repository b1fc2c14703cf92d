--------------------------- MODULE BroadcastProofs ---------------------------
(***************************************************************************)
(* For any trades, endpoints, nonces of the native wallet, failures and lag:  *)
(* a trade is executed at most once, what is reported as accepted is not      *)
(* lost, and a trade that was taken up is told an outcome or still awaited.   *)
(* ExecutedOnce is not inductive: it has to be known that every copy of a    *)
(* trade carries the one nonce it was signed with (Genuine), and that the    *)
(* chain executed every nonce once and in order (Numbered).                  *)
(***************************************************************************)
EXTENDS Broadcast, TLAPS

\* A request was made of signed trades only, and of the relay by one way only.
Sent ==
  \A t \in Trades :
    /\ way[t] = "none" => nonce[t] = -1 /\ told[t] = "none"
    /\ \A e \in Places : post[t][e] # "none" => nonce[t] \in Nat
    /\ post[t][Relay] # "none" => way[t] = "relay"

\* All copies of a trade carry its nonce.
Genuine == \A e \in Places : \A tx \in pool[e] : tx[2] = nonce[tx[1]]

\* The chain executed the nonces one by one.
Numbered == \A n \in DOMAIN landed : nonce[landed[n]] = n - 1

\* What an endpoint accepted it holds, until the nonce is used.
Accepted(t, e) ==
  \/ post[t][e] \in {"accepted", "hash"}
  \/ e = Node /\ way[t] \in {"direct", "swap"} /\ told[t] = "submitted"

Held ==
  \A t \in Trades, e \in Endpoints :
    Accepted(t, e) => Raw(t) \subseteq pool[e] \/ nonce[t] < Count

IInv == TypeOK /\ Sent /\ Genuine /\ Numbered /\ Held

-----------------------------------------------------------------------------
LEMMA InitIInv == Init => IInv
<1> SUFFICES ASSUME Init PROVE IInv
  OBVIOUS
<1>1. TypeOK
  BY DEF Init, TypeOK, UnderWay
<1>2. Count = 0 /\ DOMAIN landed = {}
  BY DEF Init, Count
<1> QED
  BY <1>1, <1>2, BroadcastAssumption
  DEF Init, IInv, Sent, Genuine, Numbered, Held, Accepted, Places

\* Whatever nonce a way signs with is a number.
LEMMA CountsTyped ==
  ASSUME TypeOK
  PROVE  NonceRead \subseteq Nat /\ Filled \subseteq Nat
BY BroadcastAssumption DEF TypeOK, Count, Counts, NonceRead

-----------------------------------------------------------------------------
\* Signing gives a trade that was never signed a nonce, and disturbs nothing
\* that is held or executed.
LEMMA SignedKeeps ==
  ASSUME IInv, NEW t \in Trades, NEW w \in {"shotgun", "native", "direct", "swap", "relay"},
         NEW nonces, nonces \subseteq Nat, Signed(t, w, nonces), UNCHANGED landed
  PROVE  /\ way' = [way EXCEPT ![t] = w]
         /\ nonce' \in [Trades -> Nat \cup {-1}]
         /\ nonce[t] = -1 /\ nonce'[t] \in Nat
         /\ \A s \in Trades \ {t} : nonce'[s] = nonce[s]
         /\ \A e \in Places : post[t][e] = "none"
         /\ told[t] = "none"
         /\ Numbered'
         /\ \A e \in Places : \A tx \in pool[e] : tx[2] = nonce'[tx[1]]
         /\ \A s \in Trades \ {t} : Raw(s)' = Raw(s)
<1>1. PICK n \in nonces : nonce' = [nonce EXCEPT ![t] = n]
  BY DEF Signed
<1>2. n \in Nat
  OBVIOUS
<1>3. /\ way' = [way EXCEPT ![t] = w] /\ way[t] = "none"
      /\ nonce[t] = -1 /\ told[t] = "none"
      /\ nonce \in [Trades -> Nat \cup {-1}]
  BY DEF Signed, Ready, IInv, Sent, TypeOK
<1>4. /\ nonce' \in [Trades -> Nat \cup {-1}] /\ nonce'[t] = n
      /\ \A s \in Trades \ {t} : nonce'[s] = nonce[s]
  BY <1>1, <1>2, <1>3
<1>5. \A e \in Places : post[t][e] = "none"
  BY <1>3 DEF IInv, Sent
<1>7. Numbered'
  <2> SUFFICES ASSUME NEW k \in DOMAIN landed PROVE nonce'[landed[k]] = k - 1
    BY DEF Numbered
  <2>1. nonce[landed[k]] = k - 1 /\ landed[k] \in Trades /\ k \in Nat /\ k >= 1
    BY DEF IInv, Numbered, TypeOK
  <2>2. landed[k] # t
    BY <1>3, <2>1
  <2> QED BY <1>4, <2>1, <2>2
<1>8. \A e \in Places : \A tx \in pool[e] : tx[2] = nonce'[tx[1]]
  <2> SUFFICES ASSUME NEW e \in Places, NEW tx \in pool[e] PROVE tx[2] = nonce'[tx[1]]
    OBVIOUS
  <2>1. tx[1] \in Trades /\ tx[2] \in Nat /\ tx[2] = nonce[tx[1]]
    BY DEF IInv, TypeOK, Genuine, Raws
  <2>2. tx[1] # t
    BY <1>3, <2>1
  <2> QED BY <1>4, <2>1, <2>2
<1>9. \A s \in Trades \ {t} : Raw(s)' = Raw(s)
  BY <1>4 DEF Raw
<1> QED BY <1>1, <1>2, <1>3, <1>4, <1>5, <1>7, <1>8, <1>9

LEMMA SignFailsIInv == \A t \in Trades : IInv /\ SignFails(t) => IInv'
<1> SUFFICES ASSUME NEW t \in Trades, IInv, SignFails(t) PROVE IInv'
  OBVIOUS
<1>1. TypeOK'
  <2>1. \A s \in Trades : told'[s] = "none" <=> way'[s] = "none" \/ trader' = s
    BY BroadcastAssumption DEF SignFails, Ready, IInv, TypeOK
  <2>2. loop' # "blocked"
    BY DEF SignFails, Ready
  <2> QED BY <2>1, <2>2 DEF SignFails, IInv, TypeOK, UnderWay
<1>2. Sent'
  BY DEF SignFails, Ready, IInv, TypeOK, Sent, UnderWay
<1>3. Held'
  <2> SUFFICES ASSUME NEW s \in Trades, NEW e \in Endpoints, Accepted(s, e)'
               PROVE  Accepted(s, e)
    BY DEF SignFails, IInv, Held, Raw, Count
  <2> QED BY DEF SignFails, IInv, TypeOK, Accepted
<1> QED
  BY <1>1, <1>2, <1>3 DEF SignFails, IInv, Genuine, Numbered, Count

\* Shotgun and Native differ in what they do to the loop and to the trader.
LEMMA SentToAllIInv ==
  \A t \in Trades : IInv /\ (Shotgun(t) \/ Native(t)) => IInv'
<1> SUFFICES ASSUME NEW t \in Trades, IInv, Shotgun(t) \/ Native(t) PROVE IInv'
  OBVIOUS
<1>0. PICK w \in {"shotgun", "native"}, nonces \in {NonceRead, Filled} : Signed(t, w, nonces)
  BY DEF Shotgun, Native
<1>1. SentToAll(t) /\ UNCHANGED <<pool, landed>>
  BY DEF Shotgun, Native
<1>2. /\ way' = [way EXCEPT ![t] = w]
      /\ nonce' \in [Trades -> Nat \cup {-1}] /\ nonce'[t] \in Nat
      /\ \A s \in Trades \ {t} : nonce'[s] = nonce[s] /\ Raw(s)' = Raw(s)
      /\ told[t] = "none"
      /\ Numbered'
      /\ \A e \in Places : \A tx \in pool[e] : tx[2] = nonce'[tx[1]]
  BY <1>0, <1>1, CountsTyped, SignedKeeps DEF IInv
<1>3. /\ post' \in [Trades -> [Places -> {"none", "hash", "nothing"} \cup UnderWay]]
      /\ \A e \in Places : post'[t][e] = IF e = Relay THEN "none" ELSE "sent"
      /\ \A s \in Trades \ {t} : post'[s] = post[s]
  BY <1>1 DEF SentToAll, IInv, TypeOK, UnderWay
<1>4. /\ told' \in [Trades -> {"none", "failed", "executed", "returned", "submitted"}]
      /\ \A s \in Trades \ {t} : told'[s] = told[s]
      /\ told'[t] # "submitted"
  BY <1>2 DEF Shotgun, Native, IInv, TypeOK
<1>5. TypeOK'
  <2>1. way' \in [Trades -> {"none", "unsigned", "shotgun", "native", "direct", "swap", "relay"}] /\ way'[t] = w
    BY <1>2 DEF IInv, TypeOK
  <2>2. CASE Shotgun(t)
    <3>1. \A s \in Trades : told'[s] = "none" <=> way'[s] = "none" \/ trader' = s
      BY <1>2, <2>1, <2>2, BroadcastAssumption DEF Shotgun, Signed, Ready, IInv, TypeOK
    <3> QED BY <1>1, <1>2, <1>3, <1>4, <2>1, <2>2, <3>1 DEF Shotgun, Signed, Ready, IInv, TypeOK
  <2>3. CASE Native(t)
    <3>1. \A s \in Trades : told'[s] = "none" <=> way'[s] = "none" \/ trader' = s
      BY <1>2, <2>1, <2>3, BroadcastAssumption DEF Native, Signed, Ready, IInv, TypeOK
    <3> QED BY <1>1, <1>2, <1>3, <1>4, <2>1, <2>3, <3>1 DEF Native, Signed, IInv, TypeOK
  <2> QED BY <2>2, <2>3 DEF Shotgun, Native
<1>6. Sent'
  BY <1>2, <1>3, <1>4, BroadcastAssumption DEF IInv, Sent, TypeOK, Places
<1>7. Genuine'
  BY <1>1, <1>2 DEF Genuine
<1>8. Held'
  <2> SUFFICES ASSUME NEW s \in Trades, NEW e \in Endpoints, Accepted(s, e)'
               PROVE  Raw(s)' \subseteq pool[e] \/ nonce'[s] < Count
    BY <1>1 DEF Held, Count
  <2>1. s # t
    BY <1>3, <1>4, BroadcastAssumption DEF Accepted, Places
  <2>2. Accepted(s, e)
    BY <1>2, <1>3, <1>4, <2>1 DEF Accepted, IInv, TypeOK
  <2> QED BY <1>2, <2>1, <2>2 DEF IInv, Held
<1> QED BY <1>2, <1>5, <1>6, <1>7, <1>8 DEF IInv

\* A direct send: what it reports as submitted the node holds.
LEMMA SendRawIInv ==
  ASSUME NEW t \in Trades, NEW w \in {"direct", "swap"}, IInv, SendRaw(t, w)
  PROVE  IInv'
<1>1. Signed(t, w, NonceRead) /\ UNCHANGED <<loop, trader, post, landed>>
  BY DEF SendRaw
<1>2. /\ way' = [way EXCEPT ![t] = w]
      /\ nonce' \in [Trades -> Nat \cup {-1}] /\ nonce'[t] \in Nat
      /\ \A s \in Trades \ {t} : nonce'[s] = nonce[s] /\ Raw(s)' = Raw(s)
      /\ \A e \in Places : post[t][e] = "none"
      /\ Numbered'
      /\ \A e \in Places : \A tx \in pool[e] : tx[2] = nonce'[tx[1]]
  BY <1>1, CountsTyped, SignedKeeps DEF IInv
<1>3. PICK submitted \in BOOLEAN, held \in BOOLEAN, tx \in Raw(t)' :
        /\ submitted => held
        /\ pool' = IF held THEN [pool EXCEPT ![Node] = @ \cup {tx}] ELSE pool
        /\ told' = [told EXCEPT ![t] = IF submitted THEN "submitted" ELSE "failed"]
  BY DEF SendRaw
<1>4. tx = <<t, nonce'[t]>> /\ Raw(t)' = {tx} /\ tx \in Raws
  BY <1>2, <1>3 DEF Raw, Raws
<1>5. Node \in Places /\ Node \in Endpoints
  BY BroadcastAssumption DEF Places
<1>6. pool' \in [Places -> SUBSET Raws] /\ \A e \in Places : pool[e] \subseteq pool'[e]
  BY <1>3, <1>4, <1>5 DEF IInv, TypeOK
<1>7. TypeOK'
  <2>1. /\ \A s \in Trades : told'[s] = "none" <=> way'[s] = "none" \/ trader' = s
        /\ told' \in [Trades -> {"none", "failed", "executed", "returned", "submitted"}]
    BY <1>1, <1>2, <1>3, BroadcastAssumption DEF Signed, Ready, IInv, TypeOK
  <2>2. way' \in [Trades -> {"none", "unsigned", "shotgun", "native", "direct", "swap", "relay"}]
    BY <1>2 DEF IInv, TypeOK
  <2> QED BY <1>1, <1>2, <1>6, <2>1, <2>2 DEF IInv, TypeOK, Signed, Ready
<1>8. Sent'
  BY <1>1, <1>2, <1>3, BroadcastAssumption DEF IInv, Sent, TypeOK, Places
<1>9. Genuine'
  <2> SUFFICES ASSUME NEW e \in Places, NEW x \in pool'[e] PROVE x[2] = nonce'[x[1]]
    BY DEF Genuine
  <2>1. x \in pool[e] \/ x = tx
    BY <1>3, <1>5 DEF IInv, TypeOK
  <2> QED BY <1>2, <1>4, <2>1
<1>10. Held'
  <2> SUFFICES ASSUME NEW s \in Trades, NEW e \in Endpoints, Accepted(s, e)'
               PROVE  Raw(s)' \subseteq pool'[e] \/ nonce'[s] < Count
    BY <1>1 DEF Held, Count
  <2>1. CASE s = t
    <3>1. e = Node /\ submitted
      BY <1>1, <1>2, <1>3, <2>1 DEF Accepted, IInv, TypeOK, Places
    <3>2. tx \in pool'[Node]
      BY <1>3, <1>5, <3>1 DEF IInv, TypeOK
    <3> QED BY <1>4, <2>1, <3>1, <3>2
  <2>2. CASE s # t
    <3>1. Accepted(s, e)
      BY <1>1, <1>2, <1>3, <2>2 DEF Accepted, IInv, TypeOK
    <3>2. pool[e] \subseteq pool'[e]
      BY <1>6 DEF Places
    <3> QED BY <1>2, <2>2, <3>1, <3>2 DEF IInv, Held
  <2> QED BY <2>1, <2>2
<1> QED BY <1>2, <1>7, <1>8, <1>9, <1>10 DEF IInv

LEMMA ToRelayIInv == \A t \in Trades : IInv /\ ToRelay(t) => IInv'
<1> SUFFICES ASSUME NEW t \in Trades, IInv, ToRelay(t) PROVE IInv'
  OBVIOUS
<1>1. Signed(t, "relay", NonceRead) /\ UNCHANGED <<loop, told, pool, landed>> /\ trader' = t
  BY DEF ToRelay
<1>2. /\ way' = [way EXCEPT ![t] = "relay"]
      /\ nonce' \in [Trades -> Nat \cup {-1}] /\ nonce'[t] \in Nat
      /\ \A s \in Trades \ {t} : nonce'[s] = nonce[s] /\ Raw(s)' = Raw(s)
      /\ \A e \in Places : post[t][e] = "none"
      /\ told[t] = "none"
      /\ Numbered'
      /\ \A e \in Places : \A tx \in pool[e] : tx[2] = nonce'[tx[1]]
  BY <1>1, CountsTyped, SignedKeeps DEF IInv
<1>3. /\ post' \in [Trades -> [Places -> {"none", "hash", "nothing"} \cup UnderWay]]
      /\ \A e \in Places : post'[t][e] = IF e = Relay THEN "sent" ELSE "none"
      /\ \A s \in Trades \ {t} : post'[s] = post[s]
  BY <1>2 DEF ToRelay, IInv, TypeOK, UnderWay, Places
<1>4. TypeOK'
  <2>1. /\ \A s \in Trades : told'[s] = "none" <=> way'[s] = "none" \/ trader' = s
        /\ way' \in [Trades -> {"none", "unsigned", "shotgun", "native", "direct", "swap", "relay"}]
    BY <1>1, <1>2, BroadcastAssumption DEF Signed, Ready, IInv, TypeOK
  <2> QED BY <1>1, <1>2, <1>3, <2>1 DEF IInv, TypeOK, Signed, Ready
<1>5. Sent'
  BY <1>1, <1>2, <1>3 DEF IInv, Sent, TypeOK, Places
<1>6. Genuine'
  BY <1>1, <1>2 DEF Genuine
<1>7. Held'
  <2> SUFFICES ASSUME NEW s \in Trades, NEW e \in Endpoints, Accepted(s, e)'
               PROVE  Raw(s)' \subseteq pool[e] \/ nonce'[s] < Count
    BY <1>1 DEF Held, Count
  <2>1. s # t
    BY <1>1, <1>2, <1>3, BroadcastAssumption DEF Accepted, Places
  <2>2. Accepted(s, e)
    BY <1>1, <1>2, <1>3, <2>1 DEF Accepted, IInv, TypeOK
  <2> QED BY <1>2, <2>1, <2>2 DEF IInv, Held
<1> QED BY <1>2, <1>4, <1>5, <1>6, <1>7 DEF IInv

-----------------------------------------------------------------------------
\* A request is taken: its place holds the signed transaction from now on.
LEMMA TakenIInv ==
  ASSUME IInv, NEW t \in Trades, NEW e \in Places, post[t][e] = "sent",
         post' = [post EXCEPT ![t][e] = "accepted"],
         pool' = [pool EXCEPT ![e] = @ \cup Raw(t)],
         UNCHANGED <<loop, trader, way, told, nonce, landed>>
  PROVE  IInv'
<1>1. nonce[t] \in Nat /\ Raw(t) \subseteq Raws
  BY DEF IInv, Sent, Raw, Raws
<1>2. /\ pool' \in [Places -> SUBSET Raws] /\ \A f \in Places : pool[f] \subseteq pool'[f]
      /\ pool'[e] = pool[e] \cup Raw(t) /\ \A f \in Places \ {e} : pool'[f] = pool[f]
  BY <1>1 DEF IInv, TypeOK
<1>3. /\ post' \in [Trades -> [Places -> {"none", "hash", "nothing"} \cup UnderWay]]
      /\ post'[t][e] = "accepted"
      /\ \A s \in Trades, f \in Places : s # t \/ f # e => post'[s][f] = post[s][f]
  BY DEF IInv, TypeOK, UnderWay
<1>4. TypeOK'
  BY <1>2, <1>3 DEF IInv, TypeOK
<1>5. Sent'
  BY <1>3 DEF IInv, Sent, Places
<1>6. Genuine'
  BY <1>2 DEF IInv, Genuine, Raw
<1>7. Held'
  <2> SUFFICES ASSUME NEW s \in Trades, NEW f \in Endpoints, Accepted(s, f)'
               PROVE  Raw(s) \subseteq pool'[f] \/ nonce[s] < Count
    BY DEF Held, Count, Raw
  <2>0. f \in Places
    BY DEF Places
  <2>1. CASE s = t /\ f = e
    BY <1>2, <2>1
  <2>2. CASE Accepted(s, f)
    BY <1>2, <2>0, <2>2 DEF IInv, Held
  <2>3. (s = t /\ f = e) \/ Accepted(s, f)
    BY <1>3, <2>0 DEF Accepted
  <2> QED BY <2>1, <2>2, <2>3
<1> QED
  BY <1>4, <1>5, <1>6, <1>7 DEF IInv, Numbered, Count

\* Requests end: an accepted one with a hash, any of them without.
LEMMA EndedIInv ==
  ASSUME IInv,
         post' \in [Trades -> [Places -> {"none", "hash", "nothing"} \cup UnderWay]],
         \A t \in Trades, e \in Places :
           \/ post'[t][e] = post[t][e]
           \/ post[t][e] # "none" /\ post'[t][e] \in {"nothing", "collided"}
           \/ post[t][e] = "accepted" /\ post'[t][e] = "hash",
         told' \in [Trades -> {"none", "failed", "executed", "returned", "submitted"}],
         \A t \in Trades : told'[t] = told[t] \/ (way[t] \notin {"none", "direct", "swap"}),
         loop' \in {"runs", "closed"} \/ UNCHANGED <<loop, trader>>,
         trader' \in Trades \cup {"free"},
         \A t \in Trades : told'[t] = "none" <=> way[t] = "none" \/ trader' = t,
         UNCHANGED <<way, nonce, pool, landed>>
  PROVE  IInv'
<1>1. TypeOK'
  BY DEF IInv, TypeOK
<1>2. Sent'
  BY DEF IInv, Sent, Places
<1>3. Held'
  <2> SUFFICES ASSUME NEW s \in Trades, NEW f \in Endpoints, Accepted(s, f)'
               PROVE  Accepted(s, f)
    BY DEF IInv, Held, Count, Raw
  <2>1. f \in Places
    BY DEF Places
  <2> QED BY <2>1 DEF Accepted
<1> QED
  BY <1>1, <1>2, <1>3 DEF IInv, Genuine, Numbered, Count

\* A transaction leaves the place that holds it: executed, dropped or expired.
LEMMA SequenceIInv == \A e \in Places : IInv /\ Sequence(e) => IInv'
<1> SUFFICES ASSUME NEW e \in Places, IInv, Sequence(e) PROVE IInv'
  OBVIOUS
<1>1. PICK tx \in pool[e] :
        /\ tx[2] <= Count
        /\ landed' = IF tx[2] = Count THEN Append(landed, tx[1]) ELSE landed
        /\ pool' = [pool EXCEPT ![e] = @ \ {tx}]
        /\ UNCHANGED <<loop, trader, way, told, nonce, post>>
  BY DEF Sequence
<1>2. /\ tx[1] \in Trades /\ tx[2] \in Nat /\ tx[2] = nonce[tx[1]]
      /\ tx = <<tx[1], nonce[tx[1]]>>
  BY DEF IInv, TypeOK, Genuine, Raws
<1>3. landed' \in Seq(Trades) /\ Count \in Nat /\ Count' \in Nat
  BY <1>1, <1>2 DEF IInv, TypeOK, Count
<1>4. Count <= Count' /\ tx[2] < Count'
  BY <1>1, <1>2, <1>3 DEF IInv, TypeOK, Count
<1>5. /\ pool' \in [Places -> SUBSET Raws] /\ pool'[e] = pool[e] \ {tx}
      /\ \A f \in Places \ {e} : pool'[f] = pool[f]
  BY <1>1 DEF IInv, TypeOK
<1>6. TypeOK'
  BY <1>1, <1>3, <1>5 DEF IInv, TypeOK
<1>8. Sent'
  BY <1>1 DEF IInv, Sent
<1>9. Genuine'
  BY <1>1, <1>5 DEF IInv, Genuine
<1>10. Numbered'
  <2> SUFFICES ASSUME NEW n \in DOMAIN landed' PROVE nonce[landed'[n]] = n - 1
    BY <1>1 DEF Numbered
  <2>1. CASE tx[2] = Count
    <3>1. landed \in Seq(Trades) /\ landed' = Append(landed, tx[1]) /\ Count = Len(landed)
      BY <1>1, <2>1 DEF IInv, TypeOK, Count
    <3>2. CASE n \in DOMAIN landed
      <4>1. landed'[n] = landed[n]
        BY <1>2, <3>1, <3>2
      <4> QED BY <3>2, <4>1 DEF IInv, Numbered
    <3>3. CASE n \notin DOMAIN landed
      <4>1. n = Len(landed) + 1 /\ landed'[n] = tx[1] /\ Len(landed) \in Nat
        BY <1>2, <3>1, <3>3
      <4>2. nonce[tx[1]] = Len(landed)
        BY <1>2, <2>1, <3>1
      <4>3. n - 1 = Len(landed)
        BY <4>1
      <4> QED BY <4>1, <4>2, <4>3
    <3> QED BY <3>2, <3>3
  <2>2. CASE tx[2] # Count
    BY <1>1, <2>2 DEF IInv, Numbered
  <2> QED BY <2>1, <2>2
<1>11. Held'
  <2> SUFFICES ASSUME NEW s \in Trades, NEW f \in Endpoints, Accepted(s, f)
               PROVE  Raw(s) \subseteq pool'[f] \/ nonce[s] < Count'
    BY <1>1 DEF Held, Accepted, Raw
  <2>0. f \in Places /\ nonce[s] \in Int
    BY DEF Places, IInv, TypeOK
  <2>1. CASE nonce[s] < Count
    BY <1>3, <1>4, <2>0, <2>1
  <2>2. CASE Raw(s) \subseteq pool[f]
    <3>1. CASE f = e /\ tx \in Raw(s)
      BY <1>2, <1>4, <3>1 DEF Raw
    <3>2. CASE f # e \/ tx \notin Raw(s)
      BY <1>5, <2>0, <2>2, <3>2
    <3> QED BY <3>1, <3>2
  <2> QED BY <2>1, <2>2 DEF IInv, Held
<1> QED BY <1>6, <1>8, <1>9, <1>10, <1>11 DEF IInv

LEMMA BundleExpiresIInv == IInv /\ BundleExpires => IInv'
<1> SUFFICES ASSUME IInv, BundleExpires PROVE IInv'
  OBVIOUS
<1>1. PICK tx \in pool[Relay] : pool' = [pool EXCEPT ![Relay] = @ \ {tx}]
  BY DEF BundleExpires
<1>2. /\ pool' \in [Places -> SUBSET Raws]
      /\ \A f \in Places : pool'[f] \subseteq pool[f]
      /\ \A f \in Endpoints : pool'[f] = pool[f]
  BY <1>1, BroadcastAssumption DEF IInv, TypeOK, Places
<1>3. TypeOK'
  BY <1>2 DEF BundleExpires, IInv, TypeOK
<1>4. Genuine'
  BY <1>2 DEF BundleExpires, IInv, Genuine
<1>5. Held'
  BY <1>2 DEF BundleExpires, IInv, Held, Accepted, Raw, Count
<1> QED
  BY <1>3, <1>4, <1>5 DEF BundleExpires, IInv, Sent, Numbered, Count

-----------------------------------------------------------------------------
\* The handlers of answers, failures and the end of the program only end
\* requests and tell the trader.
LEMMA HandlersIInv ==
  ASSUME IInv,
         \/ \E t \in Trades : NativeReturns(t) \/ RelayAnswered(t)
         \/ \E t \in Trades, e \in Endpoints : Answered(t, e) \/ Failed(t, e)
         \/ Shutdown
  PROVE  IInv'
<1>1. CASE \E t \in Trades : NativeReturns(t)
  <2>1. PICK t \in Trades : NativeReturns(t)
    BY <1>1
  <2>2. way[t] = "native"
    BY <2>1 DEF NativeReturns, IInv, TypeOK
  <2>3. /\ \A s \in Trades : told'[s] = "none" <=> way[s] = "none" \/ trader' = s
        /\ told' \in [Trades -> {"none", "failed", "executed", "returned", "submitted"}]
        /\ \A s \in Trades : told'[s] = told[s] \/ s = t
    BY <2>1, <2>2, BroadcastAssumption DEF NativeReturns, IInv, TypeOK
  <2> QED BY <2>1, <2>2, <2>3, EndedIInv DEF NativeReturns, IInv, TypeOK
<1>2. CASE \E t \in Trades : RelayAnswered(t)
  <2>1. PICK t \in Trades : RelayAnswered(t)
    BY <1>2
  <2>2. way[t] = "relay" /\ Relay \in Places
    BY <2>1 DEF RelayAnswered, IInv, Sent, UnderWay, Places
  <2>3. PICK end \in {"hash", "nothing"} :
          /\ post' = [post EXCEPT ![t][Relay] = end]
          /\ end = "hash" => post[t][Relay] = "accepted"
    BY <2>1 DEF RelayAnswered
  <2>4. /\ post' \in [Trades -> [Places -> {"none", "hash", "nothing"} \cup UnderWay]]
        /\ post'[t][Relay] = end
        /\ \A s \in Trades, f \in Places : s # t \/ f # Relay => post'[s][f] = post[s][f]
    BY <2>2, <2>3 DEF IInv, TypeOK, UnderWay
  <2>5. post[t][Relay] # "none"
    BY <2>1 DEF RelayAnswered, UnderWay
  <2>6. /\ told' \in [Trades -> {"none", "failed", "executed", "returned", "submitted"}]
        /\ \A s \in Trades : told'[s] = told[s] \/ s = t
        /\ \A s \in Trades : told'[s] = "none" <=> way[s] = "none" \/ trader' = s
    BY <2>1, <2>2, BroadcastAssumption DEF RelayAnswered, IInv, TypeOK
  <2> QED BY <2>1, <2>2, <2>3, <2>4, <2>5, <2>6, EndedIInv DEF RelayAnswered
<1>3. CASE \E t \in Trades, e \in Endpoints : Answered(t, e) \/ Failed(t, e)
  <2>1. PICK t \in Trades, e \in Endpoints : Answered(t, e) \/ Failed(t, e)
    BY <1>3
  <2>2. e \in Places
    BY DEF Places
  <2>3. PICK end \in {"hash", "nothing"} :
          /\ post' = [post EXCEPT ![t][e] = end]
          /\ end = "hash" => post[t][e] = "accepted"
          /\ post[t][e] # "none"
    BY <2>1 DEF Answered, Failed, UnderWay
  <2>4. /\ post' \in [Trades -> [Places -> {"none", "hash", "nothing"} \cup UnderWay]]
        /\ post'[t][e] = end
        /\ \A s \in Trades, f \in Places : s # t \/ f # e => post'[s][f] = post[s][f]
    BY <2>2, <2>3 DEF IInv, TypeOK, UnderWay
  <2> QED BY <2>1, <2>3, <2>4, EndedIInv DEF Answered, Failed, IInv, TypeOK
<1>4. CASE Shutdown
  <2>1. /\ post' \in [Trades -> [Places -> {"none", "hash", "nothing"} \cup UnderWay]]
        /\ \A t \in Trades, e \in Places :
             \/ post'[t][e] = post[t][e]
             \/ post[t][e] # "none" /\ post'[t][e] = "nothing"
    BY <1>4 DEF Shutdown, IInv, TypeOK, UnderWay
  <2> QED BY <1>4, <2>1, EndedIInv DEF Shutdown, IInv, TypeOK
<1> QED BY <1>1, <1>2, <1>3, <1>4

\* An endpoint that refuses changes the post only.
LEMMA DeliverIInv ==
  \A t \in Trades, e \in Endpoints : IInv /\ Deliver(t, e) => IInv'
<1> SUFFICES ASSUME NEW t \in Trades, NEW e \in Endpoints, IInv, Deliver(t, e) PROVE IInv'
  OBVIOUS
<1>0. e \in Places /\ post[t][e] = "sent"
  BY DEF Places, Deliver
<1>1. CASE pool' = [pool EXCEPT ![e] = @ \cup Raw(t)] /\ post' = [post EXCEPT ![t][e] = "accepted"]
  BY <1>0, <1>1, TakenIInv DEF Deliver
<1>2. CASE post' = [post EXCEPT ![t][e] = "collided"] /\ UNCHANGED pool
  <2>1. /\ post' \in [Trades -> [Places -> {"none", "hash", "nothing"} \cup UnderWay]]
        /\ post'[t][e] = "collided"
        /\ \A s \in Trades, f \in Places : s # t \/ f # e => post'[s][f] = post[s][f]
    BY <1>0, <1>2 DEF IInv, TypeOK, UnderWay
  <2> QED BY <1>0, <1>2, <2>1, EndedIInv DEF Deliver, IInv, TypeOK
<1>3. \/ pool' = [pool EXCEPT ![e] = @ \cup Raw(t)] /\ post' = [post EXCEPT ![t][e] = "accepted"]
      \/ post' = [post EXCEPT ![t][e] = "collided"] /\ UNCHANGED pool
  <2>1. PICK tx \in Raw(t) :
          \/ pool' = [pool EXCEPT ![e] = @ \cup {tx}] /\ post' = [post EXCEPT ![t][e] = "accepted"]
          \/ post' = [post EXCEPT ![t][e] = "collided"] /\ UNCHANGED pool
    BY DEF Deliver
  <2>2. Raw(t) = {tx}
    BY DEF Raw
  <2> QED BY <2>1, <2>2
<1> QED BY <1>1, <1>2, <1>3

LEMMA RelayTakesIInv == \A t \in Trades : IInv /\ RelayTakes(t) => IInv'
BY TakenIInv DEF RelayTakes, Places

LEMMA NextIInv == IInv /\ [Next]_vars => IInv'
<1> SUFFICES ASSUME IInv, [Next]_vars PROVE IInv'
  OBVIOUS
<1>1. ASSUME NEW t \in Trades, SignFails(t) PROVE IInv'
  BY <1>1, SignFailsIInv
<1>2. ASSUME NEW t \in Trades, Shotgun(t) \/ Native(t) PROVE IInv'
  BY <1>2, SentToAllIInv
<1>3. ASSUME NEW t \in Trades, Direct(t) \/ ExecuteSwap(t) PROVE IInv'
  BY <1>3, SendRawIInv DEF Direct, ExecuteSwap
<1>4. ASSUME NEW t \in Trades, ToRelay(t) PROVE IInv'
  BY <1>4, ToRelayIInv
<1>5. ASSUME NEW t \in Trades, RelayTakes(t) PROVE IInv'
  BY <1>5, RelayTakesIInv
<1>6. ASSUME NEW t \in Trades, NativeReturns(t) \/ RelayAnswered(t) PROVE IInv'
  BY <1>6, HandlersIInv
<1>7. ASSUME NEW t \in Trades, NEW e \in Endpoints, Deliver(t, e) PROVE IInv'
  BY <1>7, DeliverIInv
<1>8. ASSUME NEW t \in Trades, NEW e \in Endpoints, Answered(t, e) \/ Failed(t, e) PROVE IInv'
  BY <1>8, HandlersIInv
<1>9. CASE Shutdown
  BY <1>9, HandlersIInv
<1>10. ASSUME NEW e \in Places, Sequence(e) PROVE IInv'
  BY <1>10, SequenceIInv
<1>11. CASE BundleExpires
  BY <1>11, BundleExpiresIInv
<1>12. CASE UNCHANGED vars
  BY <1>12 DEF vars, IInv, TypeOK, Sent, Genuine, Numbered, Held, Accepted,
              Raw, Count
<1> QED
  BY <1>1, <1>2, <1>3, <1>4, <1>5, <1>6, <1>7, <1>8, <1>9, <1>10, <1>11, <1>12 DEF Next

LEMMA Inductive == Spec => []IInv
BY InitIInv, NextIInv, PTL DEF Spec

-----------------------------------------------------------------------------
\* Every variable of the broadcasts keeps its type, only a native broadcast
\* blocks the event loop, and a trade that was taken up is told an outcome
\* unless the trader still awaits it.
THEOREM TypeCorrect == Spec => []TypeOK
<1>1. IInv => TypeOK
  BY DEF IInv
<1> QED BY <1>1, Inductive, PTL

\* However many endpoints a signed trade is fired at, it is executed once at most.
THEOREM AtMostOnce == Spec => []ExecutedOnce
<1>1. IInv => ExecutedOnce
  <2> SUFFICES ASSUME IInv, NEW m \in DOMAIN landed, NEW n \in DOMAIN landed,
                      landed[m] = landed[n]
               PROVE  m = n
    BY DEF ExecutedOnce
  <2>1. nonce[landed[m]] = m - 1 /\ nonce[landed[n]] = n - 1 /\ m \in Nat /\ n \in Nat
    BY DEF IInv, Numbered, TypeOK
  <2> QED BY <2>1
<1> QED BY <1>1, Inductive, PTL

\* What the executor reports as accepted is held by the endpoint that accepted
\* it until its nonce is used.
THEOREM NothingLost == Spec => []ReportedIsNotLost
<1>1. IInv => ReportedIsNotLost
  BY BroadcastAssumption DEF IInv, Held, Accepted, ReportedIsNotLost
<1> QED BY <1>1, Inductive, PTL
=============================================================================
