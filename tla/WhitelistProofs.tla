--------------------------- MODULE WhitelistProofs ---------------------------
(***************************************************************************)
(* config/whitelist.json, for any services, candidates, bounds and order of  *)
(* crawls, verifications, deaths and restarts: a file that can be read is a  *)
(* topology, and an engine between whose two reads no script wrote runs on   *)
(* one.                                                                      *)
(*                                                                           *)
(* The invariant follows what a script holds on its way to the file: what it *)
(* read was a topology, what it verified are distinct candidates it has      *)
(* passed, and what the services reported is well formed.  A listing or a    *)
(* merge of these is a topology again.                                       *)
(***************************************************************************)
EXTENDS Whitelist, FiniteSetTheorems, SequenceTheorems, TLAPS

-----------------------------------------------------------------------------
(* Members in order. *)

\* before orders the members of S strictly.
Orders(S, before) ==
  /\ \A i, j \in S : i # j => <<i, j>> \in before \/ <<j, i>> \in before
  /\ \A i \in S : <<i, i>> \notin before
  /\ \A i, j, k \in S : <<i, j>> \in before /\ <<j, k>> \in before => <<i, k>> \in before

LEMMA InOrderLists ==
  ASSUME NEW S, IsFiniteSet(S), NEW before, Orders(S, before)
  PROVE  /\ Cardinality(S) \in Nat
         /\ InOrder(S, before) \in [1 .. Cardinality(S) -> S]
         /\ \A a, b \in 1 .. Cardinality(S) :
              InOrder(S, before)[a] = InOrder(S, before)[b] => a = b
<1> DEFINE n == Cardinality(S)
           Below(i) == {j \in S : <<j, i>> \in before}
           rank == [i \in S |-> Cardinality(Below(i))]
<1>1. n \in Nat
  BY FS_CardinalityType
<1>2. ASSUME NEW i \in S
      PROVE  IsFiniteSet(Below(i)) /\ Cardinality(Below(i)) \in 0 .. n - 1
  <2> DEFINE B == Below(i)
  <2>1. B \in SUBSET S /\ i \notin B
    BY DEF Orders
  <2> HIDE DEF B
  <2>2. IsFiniteSet(B) /\ Cardinality(B) <= n /\ Cardinality(B) # n
    BY <2>1, FS_Subset
  <2>3. Cardinality(B) \in Nat
    BY <2>2, FS_CardinalityType
  <2>4. Cardinality(B) \in 0 .. n - 1
    BY <1>1, <2>2, <2>3
  <2> QED BY <2>2, <2>4 DEF B
<1>3. ASSUME NEW i \in S, NEW k \in S, <<i, k>> \in before
      PROVE  Cardinality(Below(i)) < Cardinality(Below(k))
  <2> DEFINE B == Below(i)
             C == Below(k)
  <2>1. B \in SUBSET C /\ B # C
    <3>1. \A j \in B : j \in C
      BY <1>3 DEF Orders
    <3>2. i \in C /\ i \notin B
      BY <1>3 DEF Orders
    <3> QED BY <3>1, <3>2
  <2>2. /\ IsFiniteSet(C)
        /\ Cardinality(B) \in 0 .. n - 1 /\ Cardinality(C) \in 0 .. n - 1
    <3> HIDE DEF Below
    <3> QED BY <1>2
  <2> HIDE DEF B, C
  <2>3. Cardinality(B) <= Cardinality(C) /\ Cardinality(B) # Cardinality(C)
    BY <2>1, <2>2, FS_Subset
  <2>4. Cardinality(B) < Cardinality(C)
    BY <1>1, <2>2, <2>3
  <2> QED BY <2>4 DEF B, C
<1>4. \A i, k \in S : Cardinality(Below(i)) = Cardinality(Below(k)) => i = k
  <2> SUFFICES ASSUME NEW i \in S, NEW k \in S, i # k,
                      Cardinality(Below(i)) = Cardinality(Below(k))
               PROVE  FALSE
    OBVIOUS
  <2>1. Cardinality(Below(i)) < Cardinality(Below(k)) \/ Cardinality(Below(k)) < Cardinality(Below(i))
    BY <1>3 DEF Orders
  <2>2. Cardinality(Below(i)) \in Int
    BY <1>1, <1>2
  <2> QED BY <2>1, <2>2
<1>5. rank \in [S -> 0 .. n - 1] /\ \A i \in S : rank[i] = Cardinality(Below(i))
  BY <1>2
<1> HIDE DEF rank, Below
<1>6. \A m \in 0 .. n - 1 : \E i \in S : rank[i] = m
  <2> DEFINE T == 0 .. n - 1
  <2>1. rank \in Injection(S, T)
    BY <1>4, <1>5 DEF Injection, IsInjective
  <2>2. IsFiniteSet(T) /\ Cardinality(T) = Cardinality(S)
    BY <1>1, FS_Interval
  <2> HIDE DEF T
  <2>3. rank \in Surjection(S, T)
    BY <2>1, <2>2, FS_Injection
  <2> QED BY <2>3 DEF Surjection, T
<1> DEFINE at(m) == CHOOSE i \in S : Cardinality(Below(i)) = m - 1
<1>7. InOrder(S, before) = [m \in 1 .. n |-> at(m)]
  BY DEF InOrder, Below
<1>8. ASSUME NEW m \in 1 .. n PROVE at(m) \in S /\ rank[at(m)] = m - 1
  <2>1. m - 1 \in 0 .. n - 1
    BY <1>1
  <2>2. \E i \in S : Cardinality(Below(i)) = m - 1
    BY <1>5, <1>6, <2>1
  <2> QED BY <1>5, <2>2
<1> HIDE DEF at, n
<1>9. \A a, b \in 1 .. n : at(a) = at(b) => a = b
  <2> SUFFICES ASSUME NEW a \in 1 .. n, NEW b \in 1 .. n, at(a) = at(b) PROVE a = b
    OBVIOUS
  <2>1. a - 1 = b - 1
    BY <1>8
  <2> QED BY <1>1, <2>1
<1> QED BY <1>1, <1>7, <1>8, <1>9 DEF n

\* Positions in a sequence are in order, and so is what is picked from them.
LEMMA EarlierOrders ==
  ASSUME NEW S \in SUBSET Nat
  PROVE  Orders(S, {ij \in S \X S : ij[1] < ij[2]})
BY DEF Orders

-----------------------------------------------------------------------------
(* The invariant. *)

\* What GeckoTerminal or DexScreener may have said of a pool, normalised or not.
Reported == {p \in Pairs : FeeReported(p.fee)}

FileServes ==
  /\ disk \in {"whole", "torn"}
  /\ disk = "whole" => file \in Seq(Entries) /\ Serves(file)

\* The crawl.
ReportsHeld == pairs \in Seq(Reported) /\ turn \in Nat \ {0}

\* seed_v3_pools from its reading of the file to its writing.
Merging == pc \in {"verify", "merge", "merging"}

ReadServed == Merging => existing \in Seq(Entries) /\ Serves(existing)

\* What it verified are candidates it has passed, none of them twice.
PassedCandidates(entries, upto) ==
  /\ entries \in Seq(Entries)
  /\ \A i \in DOMAIN entries : \E c \in DOMAIN Candidates :
       c < upto /\ entries[i] = Verified(Candidates[c])
  /\ \A i, j \in DOMAIN entries : entries[i].pool = entries[j].pool => i = j

VerifiedHeld ==
  /\ PassedCandidates(verified, turn)
  /\ ~Merging => verified = << >>
  /\ pc \in {"merge", "merging"} => verified # << >>

\* Between the engine's two reads: the feed is still of the file.
FeedFresh ==
  engine = "loaded" /\ ~rewritten => feed = {<<e.pool, FeedKind(e)>> : e \in ToSet(file)}

WInv == FileServes /\ ReportsHeld /\ ReadServed /\ VerifiedHeld /\ FeedFresh /\ EngineSees

-----------------------------------------------------------------------------
(* What the crawl writes. *)

LEMMA OffersReported == Offers \subseteq Reported
BY WhitelistAssumption DEF Reported

LEMMA GeckoReports ==
  ASSUME NEW o \in Offers
  PROVE  FromGecko(o) \in Reported
<1>1. o \in Pairs /\ FeeReported(o.fee)
  BY WhitelistAssumption
<1> DEFINE fee == IF o.fee = Number(NoFee) THEN o.fee ELSE Number(InBps(o.fee))
<1>2. o.fee \in [unit : {"fraction", "number"}, of : Int]
  BY <1>1 DEF Pairs
<1>3. fee \in [unit : {"fraction", "number"}, of : Int] /\ FeeReported(fee)
  BY <1>1, <1>2 DEF FeeReported, Number, InBps, NoFee
<1> DEFINE named == [o EXCEPT !.chain = "arbitrum"]
<1>4. named \in Pairs /\ named.fee = o.fee
  <2>1. "arbitrum" \in Names
    BY DEF Names
  <2> QED BY <1>1, <2>1 DEF Pairs
<1>5. FromGecko(o) = [named EXCEPT !.fee = fee]
  BY <1>4 DEF FromGecko
<1> HIDE DEF fee, named
<1>6. FromGecko(o) \in Pairs /\ FromGecko(o).fee = fee
  BY <1>3, <1>4, <1>5 DEF Pairs
<1> QED BY <1>3, <1>6 DEF Reported

\* A valid pair gives an entry of its pool, with a fee if its venue is one of V3.
LEMMA FormatEntry ==
  ASSUME NEW p \in Reported, Valid(p)
  PROVE  /\ Format(p) \in Entries /\ Format(p).pool = p.pool
         /\ Format(p).dex \in GraphV3 => Format(p).fee > 0
<1> DEFINE d == Dex(p)
           fee == IF d \notin DOMAIN DEFAULT_V3_FEE_BPS THEN NoFee
                  ELSE IF p.fee.of \in {NoFee, 0} THEN DEFAULT_V3_FEE_BPS[d]
                  ELSE InBps(p.fee)
<1>1. Format(p) = [pool |-> p.pool, dex |-> d, fee |-> fee]
  BY DEF Format
<1>2. d \in ALLOWED_DEXES
  BY DEF Valid
<1> HIDE DEF d
<1>3. d \in Names
  BY <1>2 DEF Names
<1>4. /\ p.pool \in Pools /\ FeeReported(p.fee)
      /\ p.fee \in [unit : {"fraction", "number"}, of : Int]
  BY DEF Reported, Pairs
<1>5. p.fee.of \notin {NoFee, 0} => InBps(p.fee) \in Int /\ InBps(p.fee) > 0
  BY <1>4 DEF FeeReported, InBps, NoFee
<1>6. d \in DOMAIN DEFAULT_V3_FEE_BPS
      => DEFAULT_V3_FEE_BPS[d] \in Int /\ DEFAULT_V3_FEE_BPS[d] > 0
  BY DEF DEFAULT_V3_FEE_BPS
<1>7. fee \in Int /\ (d \in DOMAIN DEFAULT_V3_FEE_BPS => fee > 0)
  BY <1>5, <1>6 DEF NoFee
<1>8. d \in GraphV3 => d \in DOMAIN DEFAULT_V3_FEE_BPS
  BY DEF GraphV3, DEFAULT_V3_FEE_BPS
<1> HIDE DEF fee
<1> QED BY <1>1, <1>3, <1>4, <1>7, <1>8 DEF Entries

LEMMA FirstServes ==
  ASSUME NEW s \in Seq(Entries), Serves(s)
  PROVE  FirstOf(s) \in Seq(Entries) /\ Serves(FirstOf(s))
<1> DEFINE E == Entries
           n == IF Len(s) < TargetPools THEN Len(s) ELSE TargetPools
           t == SubSeq(s, 1, n)
<1> HIDE DEF E
<1>1. s \in Seq(E) /\ s # << >>
  BY DEF E, Serves
<1>2. Len(s) \in Nat /\ Len(s) > 0 /\ DOMAIN s = 1 .. Len(s)
  BY <1>1
<1>3. n \in Int /\ n >= 1 /\ n <= Len(s)
  BY <1>2, WhitelistAssumption
<1> HIDE DEF n
<1>4. \A i \in 1 .. n : s[i] \in E
  BY <1>1, <1>3
<1>5. t \in Seq(E) /\ Len(t) = n /\ \A i \in 1 .. n : t[i] = s[i]
  <2>1. /\ t \in Seq(E)
        /\ Len(t) = IF 1 <= n THEN n - 1 + 1 ELSE 0
        /\ \A i \in 1 .. n - 1 + 1 : t[i] = s[1 + i - 1]
    BY <1>3, <1>4, SubSeqProperties
  <2> HIDE DEF t
  <2> QED BY <1>3, <2>1
<1> HIDE DEF t
<1>6. DOMAIN t = 1 .. n /\ 1 .. n \subseteq DOMAIN s
  BY <1>2, <1>3, <1>5
<1>7. Serves(t)
  <2>1. t # << >>
    BY <1>3, <1>5
  <2>2. ToSet(t) \subseteq ToSet(s)
    BY <1>5, <1>6 DEF ToSet
  <2> QED BY <1>5, <1>6, <2>1, <2>2 DEF Serves
<1> QED BY <1>5, <1>7 DEF FirstOf, t, n, E

\* The listable positions are finitely many, and MoreVolume orders them.
LEMMA ListableOrdered ==
  ASSUME ReportsHeld
  PROVE  /\ IsFiniteSet(Listable) /\ Listable \subseteq DOMAIN pairs
         /\ Orders(Listable, {ij \in Listable \X Listable : MoreVolume(ij[1], ij[2])})
<1> DEFINE R == Reported
           L == Listable
<1>1. \A p \in R : p.volume \in Int
  BY DEF Reported, Pairs
<1> HIDE DEF R
<1>2. pairs \in Seq(R)
  BY DEF ReportsHeld, R
<1>3. DOMAIN pairs = 1 .. Len(pairs) /\ Len(pairs) \in Nat
  BY <1>2
<1>4. L \in SUBSET DOMAIN pairs
  BY DEF Listable
<1> HIDE DEF L
<1>5. IsFiniteSet(L)
  <2>1. IsFiniteSet(DOMAIN pairs)
    BY <1>3, FS_Interval
  <2> QED BY <1>4, <2>1, FS_Subset
<1>6. \A i \in L : i \in Int /\ pairs[i].volume \in Int
  BY <1>1, <1>2, <1>3, <1>4
<1>7. Orders(L, {ij \in L \X L : MoreVolume(ij[1], ij[2])})
  <2> DEFINE before == {ij \in L \X L : MoreVolume(ij[1], ij[2])}
  <2>1. \A i, j \in L : <<i, j>> \in before <=> MoreVolume(i, j)
    OBVIOUS
  <2>2. \A i, j \in L : i # j => MoreVolume(i, j) \/ MoreVolume(j, i)
    BY <1>6 DEF MoreVolume
  <2>3. \A i \in L : ~MoreVolume(i, i)
    BY <1>6 DEF MoreVolume
  <2>4. \A i, j, k \in L : MoreVolume(i, j) /\ MoreVolume(j, k) => MoreVolume(i, k)
    BY <1>6 DEF MoreVolume
  <2> HIDE DEF before
  <2>5. Orders(L, before)
    BY <2>1, <2>2, <2>3, <2>4 DEF Orders
  <2> QED BY <2>5 DEF before
<1> QED BY <1>4, <1>5, <1>7 DEF L

\* Whatever was reported, the listing is a topology.
LEMMA ListingServes ==
  ASSUME ReportsHeld
  PROVE  Listing \in Seq(Entries) /\ Serves(Listing)
<1>1. CASE Listable = {}
  BY <1>1, WhitelistAssumption, FirstServes DEF Listing
<1>2. CASE Listable # {}
  <2> DEFINE R == Reported
             L == Listable
             n == Cardinality(L)
             listed == InOrder(L, {ij \in L \X L : MoreVolume(ij[1], ij[2])})
             E == Entries
             entry == [m \in 1 .. n |-> Format(pairs[listed[m]])]
  <2>1. /\ n \in Nat /\ listed \in [1 .. n -> L]
        /\ \A a, b \in 1 .. n : listed[a] = listed[b] => a = b
    <3>1. IsFiniteSet(L) /\ Orders(L, {ij \in L \X L : MoreVolume(ij[1], ij[2])})
      BY ListableOrdered
    <3> HIDE DEF L
    <3> QED BY <3>1, InOrderLists
  <2>2. n # 0
    BY <1>2, ListableOrdered, FS_EmptySet
  <2>3. Live = entry
    BY <2>1 DEF Live
  <2>4. \A i \in L : pairs[i] \in R /\ Valid(pairs[i])
    BY DEF ReportsHeld, Listable
  <2>5. \A i, j \in L : pairs[i].pool = pairs[j].pool => i = j
    <3>1. DOMAIN pairs = 1 .. Len(pairs) /\ Len(pairs) \in Nat
      BY DEF ReportsHeld
    <3>2. \A i, j \in L : i < j => pairs[i].pool # pairs[j].pool
      BY <3>1 DEF Listable
    <3>3. \A i \in L : i \in Int
      BY <3>1 DEF Listable
    <3> HIDE DEF L
    <3> QED BY <3>2, <3>3
  <2> HIDE DEF L, n, listed
  <2>6. ASSUME NEW m \in 1 .. n
        PROVE  /\ entry[m] \in E /\ entry[m].pool = pairs[listed[m]].pool
               /\ entry[m].dex \in GraphV3 => entry[m].fee > 0
    <3> DEFINE p == pairs[listed[m]]
    <3>1. p \in Reported /\ Valid(p)
      BY <2>1, <2>4
    <3>2. entry[m] = Format(p)
      OBVIOUS
    <3> HIDE DEF p, entry
    <3>3. /\ Format(p) \in E /\ Format(p).pool = p.pool
          /\ Format(p).dex \in GraphV3 => Format(p).fee > 0
      BY <3>1, FormatEntry
    <3> QED BY <3>2, <3>3 DEF p
  <2> HIDE DEF E
  <2>7. entry \in Seq(E) /\ DOMAIN entry = 1 .. n
    BY <2>1, <2>6
  <2> HIDE DEF entry
  <2>8. Serves(entry)
    <3>1. entry # << >>
      BY <2>1, <2>2, <2>7
    <3>2. \A e \in ToSet(entry) : e.dex \in GraphV3 => e.fee > 0
      BY <2>6, <2>7 DEF ToSet
    <3>3. \A i, j \in 1 .. n : entry[i].pool = entry[j].pool => i = j
      BY <2>1, <2>5, <2>6
    <3> QED BY <2>7, <3>1, <3>2, <3>3 DEF Serves
  <2>9. Listing = FirstOf(entry)
    BY <1>2, <2>3 DEF Listing
  <2> QED BY <2>7, <2>8, <2>9, FirstServes DEF E
<1> QED BY <1>1, <1>2

-----------------------------------------------------------------------------
(* What the verification writes. *)

LEMMA VerifiedEntry ==
  ASSUME NEW c \in DOMAIN Candidates
  PROVE  /\ Verified(Candidates[c]) \in Entries
         /\ Verified(Candidates[c]).pool = Candidates[c]
         /\ Verified(Candidates[c]).dex \in GraphV3 /\ Verified(Candidates[c]).fee > 0
<1> DEFINE p == Candidates[c]
<1>1. p \in ToSet(Candidates)
  BY DEF ToSet
<1>2. p \in Pools /\ ChainFee[p] \in Nat \ {0}
  BY <1>1, WhitelistAssumption DEF Pools
<1> HIDE DEF p
<1>3. {"uniswap_v3", "camelot_v3"} \subseteq Names
  BY DEF Names, ALLOWED_DEXES
<1>4. /\ Verified(p) \in Entries /\ Verified(p).pool = p
      /\ Verified(p).dex \in GraphV3 /\ Verified(p).fee > 0
  BY <1>2, <1>3 DEF Verified, Entries, GraphV3
<1> QED BY <1>4 DEF p

\* The next candidate is one that was not verified before.
LEMMA NextPasses ==
  ASSUME NEW entries, NEW upto \in DOMAIN Candidates, PassedCandidates(entries, upto)
  PROVE  PassedCandidates(Append(entries, Verified(Candidates[upto])), upto + 1)
<1> DEFINE E == Entries
           e == Verified(Candidates[upto])
           longer == Append(entries, e)
           n == Len(entries)
<1>1. DOMAIN Candidates = 1 .. Len(Candidates) /\ Len(Candidates) \in Nat
  BY WhitelistAssumption
<1>2. e \in E /\ e.pool = Candidates[upto]
  BY VerifiedEntry
<1>3. ASSUME NEW i \in DOMAIN entries
      PROVE  /\ \E c \in DOMAIN Candidates : c < upto /\ entries[i] = Verified(Candidates[c])
             /\ entries[i].pool # Candidates[upto]
  <2>1. PICK c \in DOMAIN Candidates : c < upto /\ entries[i] = Verified(Candidates[c])
    BY DEF PassedCandidates
  <2>2. entries[i].pool = Candidates[c]
    BY <2>1, VerifiedEntry
  <2>3. Candidates[c] # Candidates[upto]
    BY <1>1, <2>1, WhitelistAssumption
  <2> QED BY <2>1, <2>2, <2>3
<1> HIDE DEF E
<1>4. entries \in Seq(E)
  BY DEF PassedCandidates, E
<1>5. n \in Nat /\ DOMAIN entries = 1 .. n
  BY <1>4
<1>6. /\ longer \in Seq(E) /\ Len(longer) = n + 1 /\ DOMAIN longer = 1 .. n + 1
      /\ \A i \in 1 .. n : longer[i] = entries[i]
      /\ longer[n + 1] = e
  <2> HIDE DEF e
  <2> QED BY <1>2, <1>4
<1>7. \A i \in DOMAIN longer : i \in DOMAIN entries \/ i = n + 1
  BY <1>5, <1>6
<1> HIDE DEF longer, n
<1>8. \A i \in DOMAIN longer : \E c \in DOMAIN Candidates :
        c < upto + 1 /\ longer[i] = Verified(Candidates[c])
  <2> SUFFICES ASSUME NEW i \in DOMAIN longer
               PROVE  \E c \in DOMAIN Candidates :
                        c < upto + 1 /\ longer[i] = Verified(Candidates[c])
    OBVIOUS
  <2>1. CASE i \in DOMAIN entries
    <3>1. PICK c \in DOMAIN Candidates : c < upto /\ entries[i] = Verified(Candidates[c])
      BY <1>3, <2>1
    <3>2. c < upto + 1
      BY <1>1, <3>1
    <3> QED BY <1>5, <1>6, <2>1, <3>1, <3>2
  <2>2. CASE i = n + 1
    <3>1. upto < upto + 1
      BY <1>1
    <3> QED BY <1>6, <2>2, <3>1
  <2> QED BY <1>7, <2>1, <2>2
<1> HIDE DEF e
<1>9. \A i, j \in DOMAIN longer : longer[i].pool = longer[j].pool => i = j
  BY <1>2, <1>3, <1>5, <1>6, <1>7 DEF PassedCandidates
<1>10. PassedCandidates(longer, upto + 1)
  BY <1>6, <1>8, <1>9 DEF PassedCandidates, E
<1> QED BY <1>10 DEF longer, e
\* A merge of what was read with what was verified is a topology.
LEMMA MergedServes ==
  ASSUME ReadServed, VerifiedHeld, pc = "merging"
  PROVE  Merged \in Seq(Entries) /\ Serves(Merged)
<1> DEFINE E == Entries
           others == {i \in DOMAIN existing : existing[i].dex \notin MergedV3}
           n == Cardinality(others)
           kept == InOrder(others, {ij \in others \X others : ij[1] < ij[2]})
           v == Len(verified)
<1>1. /\ existing \in Seq(E) /\ Serves(existing)
      /\ verified \in Seq(E) /\ verified # << >>
      /\ PassedCandidates(verified, turn)
  BY DEF ReadServed, VerifiedHeld, Merging, PassedCandidates
<1>2. /\ n \in Nat /\ kept \in [1 .. n -> others]
      /\ \A a, b \in 1 .. n : kept[a] = kept[b] => a = b
  <2>1. DOMAIN existing = 1 .. Len(existing) /\ Len(existing) \in Nat
    <3> HIDE DEF E
    <3> QED BY <1>1
  <2>2. others \in SUBSET DOMAIN existing /\ IsFiniteSet(DOMAIN existing)
    BY <2>1, FS_Interval
  <2> HIDE DEF others
  <2>3. IsFiniteSet(others) /\ others \in SUBSET Nat
    BY <2>1, <2>2, FS_Subset
  <2>4. Orders(others, {ij \in others \X others : ij[1] < ij[2]})
    BY <2>3, EarlierOrders
  <2> QED BY <2>3, <2>4, InOrderLists
<1>3. Kept = [m \in 1 .. n |-> existing[kept[m]]]
  BY <1>2 DEF Kept
<1>4. others \subseteq DOMAIN existing /\ \A i \in others : existing[i].dex \notin GraphV3
  BY DEF MergedV3, GraphV3
<1> HIDE DEF E, others, n, kept
<1>5. /\ Kept \in Seq(E) /\ Len(Kept) = n /\ DOMAIN Kept = 1 .. n
      /\ \A m \in 1 .. n : Kept[m].dex \notin GraphV3
      /\ \A a, b \in 1 .. n : Kept[a].pool = Kept[b].pool => a = b
  <2>1. \A m \in 1 .. n : kept[m] \in others /\ Kept[m] = existing[kept[m]]
    BY <1>2, <1>3
  <2>2. \A m \in 1 .. n : existing[kept[m]] \in E
    BY <1>1, <1>4, <2>1
  <2>3. Kept \in Seq(E) /\ Len(Kept) = n /\ DOMAIN Kept = 1 .. n
    BY <1>2, <1>3, <2>2
  <2>4. \A a, b \in 1 .. n : Kept[a].pool = Kept[b].pool => kept[a] = kept[b]
    BY <1>1, <1>4, <2>1 DEF Serves
  <2> QED BY <1>2, <1>4, <2>1, <2>3, <2>4
<1>6. v \in Nat /\ v > 0 /\ DOMAIN verified = 1 .. v
  BY <1>1
<1>7. /\ \A i \in 1 .. v : verified[i].dex \in GraphV3 /\ verified[i].fee > 0
      /\ \A i, j \in 1 .. v : verified[i].pool = verified[j].pool => i = j
  <2>1. \A i \in 1 .. v : \E c \in DOMAIN Candidates : verified[i] = Verified(Candidates[c])
    BY <1>1, <1>6 DEF PassedCandidates
  <2>2. \A i \in 1 .. v : verified[i].dex \in GraphV3 /\ verified[i].fee > 0
    BY <2>1, VerifiedEntry
  <2> QED BY <1>1, <1>6, <2>2 DEF PassedCandidates
<1> HIDE DEF v
<1>8. /\ Merged \in Seq(E) /\ Len(Merged) = n + v /\ DOMAIN Merged = 1 .. n + v
      /\ \A i \in 1 .. n + v : Merged[i] = IF i <= n THEN Kept[i] ELSE verified[i - n]
  <2>1. Kept \in Seq(E) /\ verified \in Seq(E) /\ Len(Kept) = n /\ Len(verified) = v
    BY <1>1, <1>5 DEF v
  <2>2. /\ Merged \in Seq(E) /\ Len(Merged) = n + v
        /\ \A i \in 1 .. n + v : Merged[i] = IF i <= n THEN Kept[i] ELSE verified[i - n]
    BY <2>1, ConcatProperties DEF Merged
  <2> QED BY <2>2
<1>9. \A i \in 1 .. n + v :
        \/ i \in 1 .. n /\ Merged[i] = Kept[i]
        \/ i - n \in 1 .. v /\ Merged[i] = verified[i - n]
  BY <1>2, <1>6, <1>8
<1>10. \A i \in 1 .. n + v : Merged[i].dex \in GraphV3 => Merged[i].fee > 0
  BY <1>5, <1>7, <1>9
<1>11. \A i, j \in 1 .. n + v :
         Merged[i].pool = Merged[j].pool /\ (Merged[i].dex \in GraphV3 <=> Merged[j].dex \in GraphV3)
         => i = j
  <2> SUFFICES ASSUME NEW i \in 1 .. n + v, NEW j \in 1 .. n + v,
                      Merged[i].pool = Merged[j].pool,
                      Merged[i].dex \in GraphV3 <=> Merged[j].dex \in GraphV3
               PROVE  i = j
    OBVIOUS
  <2>1. CASE Merged[i].dex \in GraphV3
    <3>1. /\ i - n \in 1 .. v /\ Merged[i] = verified[i - n]
          /\ j - n \in 1 .. v /\ Merged[j] = verified[j - n]
      BY <1>5, <1>9, <2>1
    <3>2. i - n = j - n
      BY <1>7, <3>1
    <3> QED BY <1>2, <1>6, <3>2
  <2>2. CASE Merged[i].dex \notin GraphV3
    <3>1. /\ i \in 1 .. n /\ Merged[i] = Kept[i]
          /\ j \in 1 .. n /\ Merged[j] = Kept[j]
      BY <1>7, <1>9, <2>2
    <3> QED BY <1>5, <3>1
  <2> QED BY <2>1, <2>2
<1>12. Serves(Merged)
  <2>1. Merged # << >>
    BY <1>2, <1>6, <1>8
  <2>2. \A e \in ToSet(Merged) : e.dex \in GraphV3 => e.fee > 0
    BY <1>8, <1>10 DEF ToSet
  <2> QED BY <1>8, <1>11, <2>1, <2>2 DEF Serves
<1> QED BY <1>8, <1>12 DEF E

-----------------------------------------------------------------------------
(* The invariant is inductive. *)

LEMMA NothingPassed == ASSUME NEW upto PROVE PassedCandidates(<< >>, upto)
BY DEF PassedCandidates

LEMMA InitWInv == Init => WInv
<1> SUFFICES ASSUME Init PROVE WInv
  OBVIOUS
<1>1. FileServes
  BY WhitelistAssumption DEF Init, FileServes
<1>2. ReportsHeld /\ ReadServed
  BY DEF Init, ReportsHeld, ReadServed, Merging
<1>3. VerifiedHeld
  BY NothingPassed DEF Init, VerifiedHeld, Merging
<1>4. FeedFresh /\ EngineSees
  BY DEF Init, FeedFresh, EngineSees
<1> QED BY <1>1, <1>2, <1>3, <1>4 DEF WInv

\* A script that is over holds nothing.
LEMMA IdleHolds ==
  ASSUME Idle
  PROVE  ReportsHeld' /\ ReadServed' /\ VerifiedHeld'
<1>1. ReportsHeld' /\ ReadServed'
  BY DEF Idle, ReportsHeld, ReadServed, Merging
<1>2. VerifiedHeld'
  BY NothingPassed DEF Idle, VerifiedHeld, Merging
<1> QED BY <1>1, <1>2

\* What neither the file nor the engine is touched by.
LEMMA ApartHolds ==
  ASSUME WInv, UNCHANGED <<disk, file, reader, rewritten>>
  PROVE  FileServes' /\ FeedFresh' /\ EngineSees'
BY DEF WInv, FileServes, FeedFresh, EngineSees, reader

\* A crawl holds no entries.
LEMMA CrawlHolds ==
  ASSUME WInv, ~Merging, ~Merging', ReportsHeld',
         UNCHANGED <<disk, file, verified, reader, rewritten>>
  PROVE  WInv'
<1>1. ReadServed'
  BY DEF ReadServed
<1>2. VerifiedHeld'
  <2>1. verified' = << >>
    BY DEF WInv, VerifiedHeld
  <2>2. PassedCandidates(verified, turn)'
    BY <2>1, NothingPassed
  <2> QED BY <2>1, <2>2 DEF VerifiedHeld, Merging
<1> QED BY <1>1, <1>2, ApartHolds DEF WInv

LEMMA AdvanceHolds ==
  ASSUME ReportsHeld, NEW last, NEW after, Advance(last, after)
  PROVE  turn' \in Nat \ {0} /\ pc' \in {pc, after}
BY DEF ReportsHeld, Advance

LEMMA StartCrawlKeeps == WInv /\ StartCrawl => WInv'
BY CrawlHolds DEF WInv, StartCrawl, Merging, ReportsHeld

LEMMA AnswerKeeps ==
  ASSUME WInv, NEW items \in Answers, GeckoPage(items) \/ TokenPairs(items)
  PROVE  WInv'
<1> DEFINE R == Reported
           said == [i \in DOMAIN items |-> FromGecko(items[i])]
<1>1. PICK n \in 0 .. MaxPage : items \in [1 .. n -> Offers]
  BY DEF Answers
<1>2. items \in Seq(R) /\ said \in Seq(R)
  <2>1. \A i \in 1 .. n : items[i] \in R /\ FromGecko(items[i]) \in R
    BY <1>1, OffersReported, GeckoReports
  <2> HIDE DEF R
  <2> QED BY <1>1, <2>1
<1>3. pairs \in Seq(R) /\ ReportsHeld
  BY DEF WInv, ReportsHeld
<1> HIDE DEF R, said
<1>4. pairs \o items \in Seq(R) /\ pairs \o said \in Seq(R)
  BY <1>2, <1>3
<1>5. CASE GeckoPage(items)
  <2>1. pairs' \in Seq(R)
    BY <1>4, <1>5 DEF GeckoPage, said
  <2>2. turn' \in Nat \ {0} /\ pc' \in {"gecko", "tokens"}
    BY <1>3, <1>5, AdvanceHolds DEF GeckoPage
  <2> QED BY <1>5, <2>1, <2>2, CrawlHolds DEF GeckoPage, ReportsHeld, Merging, R
<1>6. CASE TokenPairs(items)
  <2>1. pairs' \in Seq(R)
    BY <1>4, <1>6 DEF TokenPairs
  <2>2. turn' \in Nat \ {0} /\ pc' \in {"tokens", "write"}
    BY <1>3, <1>6, AdvanceHolds DEF TokenPairs
  <2> QED BY <1>6, <2>1, <2>2, CrawlHolds DEF TokenPairs, ReportsHeld, Merging, R
<1> QED BY <1>5, <1>6

LEMMA NoAnswerKeeps ==
  WInv /\ (GeckoRefuses \/ GeckoFails \/ TokenRefused \/ TokenFails) => WInv'
<1> SUFFICES ASSUME WInv, GeckoRefuses \/ GeckoFails \/ TokenRefused \/ TokenFails
             PROVE  WInv'
  OBVIOUS
<1>1. ReportsHeld
  BY DEF WInv
<1>2. /\ turn' \in Nat \ {0}
      /\ pc \in {"gecko", "tokens"} /\ pc' \in {"gecko", "tokens", "write"}
  BY <1>1, AdvanceHolds DEF GeckoRefuses, GeckoFails, TokenRefused, TokenFails, ReportsHeld
<1>3. UNCHANGED <<disk, file, pairs, verified, reader, rewritten>>
  BY DEF GeckoRefuses, GeckoFails, TokenRefused, TokenFails
<1> QED BY <1>1, <1>2, <1>3, CrawlHolds DEF ReportsHeld, Merging

LEMMA StartVerifyingKeeps ==
  ASSUME WInv, NEW f \in BOOLEAN, StartVerifying(f)
  PROVE  WInv'
<1>1. ReportsHeld' /\ ReadServed'
  BY DEF WInv, StartVerifying, ReportsHeld, ReadServed, FileServes
<1>2. VerifiedHeld'
  BY DEF WInv, StartVerifying, VerifiedHeld, Merging
<1> QED BY <1>1, <1>2, ApartHolds DEF WInv, StartVerifying

LEMMA VerifyKeeps == WInv /\ Verify => WInv'
<1> SUFFICES ASSUME WInv, Verify PROVE WInv'
  OBVIOUS
<1>1. turn \in DOMAIN Candidates /\ turn' = turn + 1
  BY WhitelistAssumption DEF WInv, ReportsHeld, Verify
<1>2. ReportsHeld' /\ ReadServed'
  BY <1>1 DEF WInv, Verify, ReportsHeld, ReadServed, Merging
<1>3. PassedCandidates(verified, turn)
  BY DEF WInv, VerifiedHeld
<1>4. PassedCandidates(verified, turn)'
  <2>1. CASE UNCHANGED verified
    BY <1>1, <1>3, <2>1 DEF PassedCandidates
  <2>2. CASE verified' = Append(verified, Verified(Candidates[turn]))
    BY <1>1, <1>3, <2>2, NextPasses
  <2> QED BY <2>1, <2>2 DEF Verify
<1>5. VerifiedHeld'
  BY <1>4 DEF Verify, VerifiedHeld, Merging
<1> QED BY <1>2, <1>5, ApartHolds DEF WInv, Verify

LEMMA VerifyEndsKeeps == WInv /\ VerifyEnds => WInv'
<1> SUFFICES ASSUME WInv, VerifyEnds PROVE WInv'
  OBVIOUS
<1>1. ReportsHeld' /\ ReadServed' /\ VerifiedHeld'
  <2>1. CASE Idle
    BY <2>1, IdleHolds
  <2>2. CASE ~Idle
    <3>1. /\ verified # << >> /\ pc = "verify" /\ pc' = "merge"
          /\ UNCHANGED <<turn, pairs, existing, verified>>
      BY <2>2 DEF VerifyEnds
    <3> QED BY <3>1 DEF WInv, ReportsHeld, ReadServed, VerifiedHeld, Merging, PassedCandidates
  <2> QED BY <2>1, <2>2
<1> QED BY <1>1, ApartHolds DEF WInv, VerifyEnds

LEMMA BeginWriteKeeps == WInv /\ BeginWrite => WInv'
<1> SUFFICES ASSUME WInv, BeginWrite PROVE WInv'
  OBVIOUS
<1>1. FileServes' /\ FeedFresh' /\ EngineSees'
  BY DEF WInv, BeginWrite, FileServes, FeedFresh, EngineSees, reader
<1>2. ReportsHeld' /\ ReadServed'
  BY DEF WInv, BeginWrite, ReportsHeld, ReadServed, Merging
<1>3. VerifiedHeld'
  BY DEF WInv, BeginWrite, VerifiedHeld, Merging, PassedCandidates
<1> QED BY <1>1, <1>2, <1>3 DEF WInv

LEMMA EndWriteKeeps == WInv /\ EndWrite => WInv'
<1> SUFFICES ASSUME WInv, EndWrite PROVE WInv'
  OBVIOUS
<1>1. file' \in Seq(Entries) /\ Serves(file')
  <2>1. CASE pc = "writing"
    BY <2>1, ListingServes DEF WInv, EndWrite
  <2>2. CASE pc = "merging"
    BY <2>2, MergedServes DEF WInv, EndWrite
  <2> QED BY <2>1, <2>2 DEF EndWrite
<1>2. FileServes'
  BY <1>1 DEF FileServes, EndWrite
<1>3. FeedFresh' /\ EngineSees'
  BY DEF WInv, EndWrite, FeedFresh, EngineSees, reader
<1> QED BY <1>2, <1>3, IdleHolds DEF WInv, EndWrite

LEMMA DiesKeeps == WInv /\ (CrawlRaises \/ Dies) => WInv'
BY IdleHolds, ApartHolds DEF WInv, CrawlRaises, Dies

\* The engine's steps leave the scripts alone.
LEMMA EngineKeeps ==
  WInv /\ (LoadWhitelist \/ BuildGraph \/ EngineStops) => WInv'
<1> SUFFICES ASSUME WInv, LoadWhitelist \/ BuildGraph \/ EngineStops PROVE WInv'
  OBVIOUS
<1>1. UNCHANGED <<disk, file, script>>
  BY DEF LoadWhitelist, BuildGraph, EngineStops
<1>2. FileServes' /\ ReportsHeld' /\ ReadServed' /\ VerifiedHeld'
  BY <1>1 DEF WInv, script, FileServes, ReportsHeld, ReadServed, VerifiedHeld, Merging,
              PassedCandidates
<1>3. FeedFresh' /\ EngineSees'
  <2>1. CASE LoadWhitelist
    BY <2>1 DEF LoadWhitelist, FeedFresh, EngineSees
  <2>2. CASE BuildGraph
    <3>1. CASE disk = "torn"
      BY <2>2, <3>1 DEF BuildGraph, FeedFresh, EngineSees
    <3>2. CASE disk # "torn"
      <4>1. /\ engine = "loaded" /\ engine' = "running"
            /\ graph' = {<<e.pool, e.dex \in GraphV3>> : e \in ToSet(file)}
            /\ UNCHANGED <<file, feed, rewritten>>
        BY <2>2, <3>2 DEF BuildGraph
      <4>2. file \in Seq(Entries) /\ file # << >>
        BY <3>2 DEF WInv, FileServes, Serves
      <4>3. PICK e \in ToSet(file) : TRUE
        BY <4>2 DEF ToSet
      <4>4. ~rewritten => feed = {<<f.pool, FeedKind(f)>> : f \in ToSet(file)}
        BY <4>1 DEF WInv, FeedFresh
      <4>5. \A f : FeedKind(f) = (f.dex \in GraphV3)
        BY DEF FeedKind, V3Dexes, GraphV3
      <4>6. ~rewritten => feed = graph'
        BY <4>1, <4>4, <4>5
      <4>7. graph' # {}
        BY <4>1, <4>3
      <4> QED BY <4>1, <4>6, <4>7 DEF FeedFresh, EngineSees
    <3> QED BY <3>1, <3>2
  <2>3. CASE EngineStops
    BY <2>3 DEF EngineStops, FeedFresh, EngineSees
  <2> QED BY <2>1, <2>2, <2>3
<1> QED BY <1>2, <1>3 DEF WInv

LEMMA StepWInv == WInv /\ [Next]_vars => WInv'
<1> SUFFICES ASSUME WInv, [Next]_vars PROVE WInv'
  OBVIOUS
<1>1. CASE UNCHANGED vars
  BY <1>1 DEF vars, script, reader, WInv, FileServes, ReportsHeld, ReadServed, VerifiedHeld,
              FeedFresh, EngineSees, Merging, PassedCandidates
<1>2. CASE \E items \in Answers : GeckoPage(items) \/ TokenPairs(items)
  BY <1>2, AnswerKeeps
<1>3. CASE \E f \in BOOLEAN : StartVerifying(f)
  BY <1>3, StartVerifyingKeeps
<1> QED BY <1>1, <1>2, <1>3, StartCrawlKeeps, NoAnswerKeeps, VerifyKeeps, VerifyEndsKeeps,
           BeginWriteKeeps, EndWriteKeeps, DiesKeeps, EngineKeeps DEF Next

\* What a script holds on its way to the file is well formed, and the feed is of
\* the file as long as nothing rewrote it.
THEOREM WhitelistInductive == Spec => []WInv
BY InitWInv, StepWInv, PTL DEF Spec

-----------------------------------------------------------------------------

\* Whatever the services answer, and in whatever order scripts crawl, verify,
\* merge and die: a whitelist that can be read gives the engine a topology, in
\* which every V3 pool has a fee and none is listed twice as one kind.
THEOREM FileRoutable == Spec => []Routable
<1>1. WInv => Routable
  BY DEF WInv, FileServes, Routable
<1> QED BY <1>1, WhitelistInductive, PTL

\* Whatever died over the file: a running engine between whose two reads no script
\* wrote subscribes to some pools, and to exactly those it has edges for.
THEOREM NeverBlind == Spec => []EngineSees
<1>1. WInv => EngineSees
  BY DEF WInv
<1> QED BY <1>1, WhitelistInductive, PTL
=============================================================================
