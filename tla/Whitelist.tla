------------------------------ MODULE Whitelist ------------------------------
(***************************************************************************)
(* config/whitelist.json: the two scripts that write it and the engine that  *)
(* reads it.                                                                 *)
(*   scripts/seed_whitelist.py crawls two web services and overwrites it;    *)
(*   scripts/seed_v3_pools.py verifies candidates on chain and merges them;  *)
(*   FleaMarketDiscovery (infra/flea_market_discovery.py) reads it for the   *)
(*   feed, and GraphArbEngine._build_graph (process_b_sniper.py) reads it    *)
(*   again for the graph.                                                    *)
(*                                                                           *)
(* An entry is [pool, dex, fee]; the tokens of a pool matter only in whether *)
(* one of them is a routing asset.  One script runs at a time; the engine is *)
(* another process.  Both loaders are left at their default path.            *)
(***************************************************************************)
EXTENDS Integers, Sequences, SequencesExt, FiniteSets, TLC

CONSTANTS Offers,          \* what the services may say of pools, see Offer below
          MinLiquidity,    \* MIN_LIQUIDITY_USD
          MinVolume,       \* MIN_VOLUME_24H_USD
          TargetPools,     \* TARGET_POOLS
          Pages,           \* PAGES
          PageAttempts,    \* range(5) of _fetch_gecko_pools
          RoutingAssets,   \* how many tokens DexScreener is asked for
          TokenAttempts,   \* range(3) of _fetch_dexscreener_core
          StaticFallback,  \* STATIC_FALLBACK, as entries
          Candidates,      \* CANDIDATE_V3_POOLS
          Camelot,         \* the pools whose address begins with 0x1f2211
          ChainFee,        \* what fee() of a candidate answers
          Committed,       \* the whitelist of the repository
          MaxPage,         \* bound: pools of one answer
          MaxScripts,      \* bound: scripts started
          MaxDeaths        \* bound: scripts that were killed or raised

\* Feed, graph and merge tell the venues of concentrated liquidity by a list of
\* their own each.
V3Dexes == {"uniswap_v3", "camelot_v3"}  \* V3_DEXES of the feed
GraphV3 == {"uniswap_v3", "camelot_v3"}  \* the literal of _build_graph
MergedV3 == {"uniswap_v3", "camelot_v3"} \* the literal of seed_v3_pools

ALLOWED_DEXES ==
  {"uniswap_v2", "sushiswap", "camelot_v2", "uniswap_v3", "camelot_v3", "pancakeswap",
   "ramses", "trader_joe", "camelot", "pancake_v3", "zyberswap", "arbswap", "swapr",
   "chronos", "solidlizard", "spartadex"}

\* DEX_NORMALIZE without its entries that map a name to itself.
DEX_NORMALIZE ==
  [i \in {"uniswap", "uniswap-v2"} |-> "uniswap_v2"] @@ ("uniswap-v3" :> "uniswap_v3")
  @@ [i \in {"sushi", "sushiswap_v2"} |-> "sushiswap"]
  @@ [i \in {"camelot", "camelot-v2"} |-> "camelot_v2"] @@ ("camelot-v3" :> "camelot_v3")
  @@ ("pancake" :> "pancakeswap") @@ ("traderjoe" :> "trader_joe")

DEFAULT_V3_FEE_BPS ==
  [d \in {"uniswap_v3", "camelot_v3", "pancake_v3", "ramses", "zyberswap", "arbswap", "swapr",
          "chronos", "solidlizard", "spartadex", "trader_joe"} |->
     IF d = "pancake_v3" THEN 2500 ELSE 3000]

NoFee == -1  \* an entry without fee_tier, a service that reports no fee

\* The pools, and the names of venues and chains, that occur.
Pools == {o.pool : o \in Offers} \cup ToSet(Candidates)
           \cup {e.pool : e \in ToSet(StaticFallback) \cup ToSet(Committed)}
Names == {"arbitrum"} \cup ALLOWED_DEXES \cup UNION {{o.dexId, o.chain} : o \in Offers}
           \cup {e.dex : e \in ToSet(StaticFallback) \cup ToSet(Committed)}
Entries == [pool : Pools, dex : Names, fee : Int]
Pairs ==
  [pool : Pools, chain : Names, dexId : Names, liquidity : Int, volume : Int,
   addressed : BOOLEAN, routed : BOOLEAN, fee : [unit : {"fraction", "number"}, of : Int]]

\* The entries are a topology for the engine: there is a pool, each V3 pool has the
\* fee its path is encoded with, and none is listed twice as one kind (the graph
\* would keep only the later entry).
Serves(entries) ==
  /\ entries # << >>
  /\ \A e \in ToSet(entries) : e.dex \in GraphV3 => e.fee > 0
  /\ \A i, j \in DOMAIN entries :
       entries[i].pool = entries[j].pool
         /\ (entries[i].dex \in GraphV3 <=> entries[j].dex \in GraphV3)
       => i = j

\* A service reports no fee, none, a number, or a fraction of a hundredth of a
\* percent or more, the lowest of the tiers.
FeeReported(fee) ==
  IF fee.unit = "fraction" THEN fee.of = 0 \/ fee.of >= 100 ELSE fee.of = NoFee \/ fee.of >= 0

ASSUME WhitelistAssumption ==
  /\ Offers \subseteq Pairs /\ \A o \in Offers : FeeReported(o.fee)
  /\ Candidates \in Seq(ToSet(Candidates))
  /\ \A i, j \in DOMAIN Candidates : Candidates[i] = Candidates[j] => i = j
  /\ \A c \in ToSet(Candidates) : ChainFee[c] \in Nat \ {0}
  /\ StaticFallback \in Seq(Entries) /\ Serves(StaticFallback)
  /\ Committed \in Seq(Entries) /\ Serves(Committed)
  /\ TargetPools \in Nat \ {0}

VARIABLES
  disk,      \* "whole", or "torn" while or after a write that was not finished
  file,      \* the entries of a whole file
  pc,        \* what the script under way does next, "idle" when none runs
  turn,      \* the page, token or candidate it is at
  attempt,   \* requests made for it
  pairs,     \* what the services reported so far
  force,     \* --force
  existing,  \* the entries seed_v3_pools read
  verified,  \* the entries it verified
  scripts,   \* scripts started
  deaths,    \* scripts that died
  engine,    \* "down", "loaded" between the two reads, "running"
  feed,      \* the pools the feed subscribes to: <<pool, is_v3>>
  graph,     \* the pools the graph has an edge for: <<pool, is_v3>>
  rewritten  \* history: the file changed since the engine read it first

script == <<pc, turn, attempt, pairs, force, existing, verified>>
reader == <<engine, feed, graph>>
vars == <<disk, file, script, scripts, deaths, reader, rewritten>>

Idle == pc' = "idle" /\ turn' = 1 /\ attempt' = 0 /\ pairs' = << >>
        /\ force' = FALSE /\ existing' = << >> /\ verified' = << >>

Init ==
  /\ disk = "whole" /\ file = Committed
  /\ pc = "idle" /\ turn = 1 /\ attempt = 0 /\ pairs = << >>
  /\ force = FALSE /\ existing = << >> /\ verified = << >>
  /\ scripts = 0 /\ deaths = 0
  /\ engine = "down" /\ feed = {} /\ graph = {} /\ rewritten = FALSE

-----------------------------------------------------------------------------
(* seed_whitelist: the crawl. *)

\* A fee is a fraction, in millionths, or a number.
Fraction(millionths) == [unit |-> "fraction", of |-> millionths]
Number(n) == [unit |-> "number", of |-> n]

\* int(f * 10000) of a fraction, int(f) of a number.
InBps(fee) == IF fee.unit = "fraction" THEN fee.of \div 100 ELSE fee.of

\* _gecko_pool_to_common
FromGecko(offer) ==
  [offer EXCEPT !.chain = "arbitrum",
                !.fee = IF @ = Number(NoFee) THEN @ ELSE Number(InBps(@))]

Dex(pair) ==
  IF pair.dexId \in DOMAIN DEX_NORMALIZE THEN DEX_NORMALIZE[pair.dexId] ELSE pair.dexId

\* _valid_pair
Valid(pair) ==
  /\ pair.chain = "arbitrum" /\ Dex(pair) \in ALLOWED_DEXES
  /\ pair.liquidity >= MinLiquidity /\ pair.volume >= MinVolume
  /\ pair.addressed /\ pair.routed

\* _format.  A fee that is missing or 0 gives the default; a fraction may come
\* out as 0 here.
Format(pair) ==
  [pool |-> pair.pool, dex |-> Dex(pair),
   fee |-> IF Dex(pair) \notin DOMAIN DEFAULT_V3_FEE_BPS THEN NoFee
           ELSE IF pair.fee.of \in {NoFee, 0} THEN DEFAULT_V3_FEE_BPS[Dex(pair)]
           ELSE InBps(pair.fee)]

\* A pool is taken from the first pair that reports it and is valid.
Listable ==
  {i \in DOMAIN pairs : Valid(pairs[i]) /\ \A j \in 1..i - 1 :
                          Valid(pairs[j]) => pairs[j].pool # pairs[i].pool}

MoreVolume(i, j) ==
  \/ pairs[i].volume > pairs[j].volume
  \/ pairs[i].volume = pairs[j].volume /\ i < j

\* The members of S from the first to the last, as the pairs in before order them.
InOrder(S, before) ==
  [n \in 1..Cardinality(S) |->
     CHOOSE i \in S : Cardinality({j \in S : <<j, i>> \in before}) = n - 1]

FirstOf(s) == SubSeq(s, 1, IF Len(s) < TargetPools THEN Len(s) ELSE TargetPools)

Live ==
  LET listed == InOrder(Listable, {ij \in Listable \X Listable : MoreVolume(ij[1], ij[2])})
  IN  [n \in DOMAIN listed |-> Format(pairs[listed[n]])]

\* What seed_whitelist writes.  (The static pairs it takes when nothing came
\* back name no chain and are all invalid, so that they come in here.)
Listing == FirstOf(IF Listable = {} THEN StaticFallback ELSE Live)

StartCrawl ==
  /\ pc = "idle" /\ scripts < MaxScripts
  /\ scripts' = scripts + 1
  /\ pc' = "gecko"
  /\ UNCHANGED <<disk, file, turn, attempt, pairs, force, existing, verified, deaths, reader, rewritten>>

\* On to the next page or token, or to what comes after the last one.
Advance(last, after) ==
  /\ attempt' = 0
  /\ IF turn < last THEN turn' = turn + 1 /\ UNCHANGED pc
     ELSE turn' = 1 /\ pc' = after

Answers == UNION {[1..n -> Offers] : n \in 0..MaxPage}

\* A page of GeckoTerminal; an empty one ends the crawl.
GeckoPage(items) ==
  /\ pc = "gecko"
  /\ pairs' = pairs \o [i \in DOMAIN items |-> FromGecko(items[i])]
  /\ Advance(IF items = << >> THEN turn ELSE Pages, "tokens")
  /\ UNCHANGED <<disk, file, force, existing, verified, scripts, deaths, reader, rewritten>>

\* 429 or no connection: the same page again, or the end of the crawl.
GeckoRefuses ==
  /\ pc = "gecko"
  /\ IF attempt + 1 < PageAttempts
     THEN attempt' = attempt + 1 /\ UNCHANGED <<turn, pc>>
     ELSE Advance(turn, "tokens")
  /\ UNCHANGED <<disk, file, pairs, force, existing, verified, scripts, deaths, reader, rewritten>>

\* Any other status from 400 on ends the crawl.
GeckoFails ==
  /\ pc = "gecko"
  /\ Advance(turn, "tokens")
  /\ UNCHANGED <<disk, file, pairs, force, existing, verified, scripts, deaths, reader, rewritten>>

\* The pairs DexScreener has for one routing asset; nothing for a body that is no list.
TokenPairs(items) ==
  /\ pc = "tokens"
  /\ pairs' = pairs \o items
  /\ Advance(RoutingAssets, "write")
  /\ UNCHANGED <<disk, file, force, existing, verified, scripts, deaths, reader, rewritten>>

\* 429: the same token again, or the next one.
TokenRefused ==
  /\ pc = "tokens"
  /\ IF attempt + 1 < TokenAttempts
     THEN attempt' = attempt + 1 /\ UNCHANGED <<turn, pc>>
     ELSE Advance(RoutingAssets, "write")
  /\ UNCHANGED <<disk, file, pairs, force, existing, verified, scripts, deaths, reader, rewritten>>

\* No connection, or any other status from 400 on: the next token.
TokenFails ==
  /\ pc = "tokens"
  /\ Advance(RoutingAssets, "write")
  /\ UNCHANGED <<disk, file, pairs, force, existing, verified, scripts, deaths, reader, rewritten>>

-----------------------------------------------------------------------------
(* seed_v3_pools. *)

\* The script reads the file first; a torn one raises, and nothing happens.
StartVerifying(f) ==
  /\ pc = "idle" /\ scripts < MaxScripts
  /\ disk = "whole"
  /\ scripts' = scripts + 1
  /\ pc' = "verify"
  /\ force' = f
  /\ existing' = file
  /\ UNCHANGED <<disk, file, turn, attempt, pairs, verified, deaths, reader, rewritten>>

Present(pool) == \E i \in DOMAIN existing : existing[i].pool = pool

\* verify_pool's entry: token and fee come from the contract, the venue from its address.
Verified(pool) ==
  [pool |-> pool, dex |-> IF pool \in Camelot THEN "camelot_v3" ELSE "uniswap_v3",
   fee |-> ChainFee[pool]]

\* One candidate: skipped, rejected because a call failed or it holds no
\* liquidity, or verified.
Verify ==
  /\ pc = "verify" /\ turn <= Len(Candidates)
  /\ turn' = turn + 1
  /\ \/ UNCHANGED verified
     \/ /\ ~Present(Candidates[turn]) \/ force
        /\ verified' = Append(verified, Verified(Candidates[turn]))
  /\ UNCHANGED <<disk, file, pc, attempt, pairs, force, existing, scripts, deaths, reader, rewritten>>

\* Nothing verified, or --dry-run: nothing is written.
VerifyEnds ==
  /\ pc = "verify" /\ turn > Len(Candidates)
  /\ \/ Idle
     \/ /\ verified # << >>
        /\ pc' = "merge"
        /\ UNCHANGED <<turn, attempt, pairs, force, existing, verified>>
  /\ UNCHANGED <<disk, file, scripts, deaths, reader, rewritten>>

\* Fault: the old entries of verified pools are kept beside the new ones.
MergedTwice == existing \o verified

\* The entries of other venues, in their order.
Kept ==
  LET others == {i \in DOMAIN existing : existing[i].dex \notin MergedV3}
      kept == InOrder(others, {ij \in others \X others : ij[1] < ij[2]})
  IN  [n \in DOMAIN kept |-> existing[kept[n]]]

\* What seed_v3_pools writes: no entry of a V3 venue is kept, whether or not it
\* was verified again.
Merged == Kept \o verified

-----------------------------------------------------------------------------
(* write_text truncates the file and writes it; a script may die at any await *)
(* or in between: killed, or by an exception no script catches.                *)

\* Fault: a crawl that found nothing returns without writing.
BeginWriteOfLive ==
  /\ pc \in {"write", "merge"}
  /\ IF pc = "write" /\ Listable = {}
     THEN Idle /\ UNCHANGED <<disk, file>>
     ELSE /\ disk' = "torn" /\ file' = << >>
          /\ pc' = IF pc = "write" THEN "writing" ELSE "merging"
          /\ UNCHANGED <<turn, attempt, pairs, force, existing, verified>>
  /\ rewritten' = (rewritten \/ engine = "loaded")
  /\ UNCHANGED <<scripts, deaths, reader>>

BeginWrite ==
  /\ pc \in {"write", "merge"}
  /\ disk' = "torn" /\ file' = << >>
  /\ pc' = IF pc = "write" THEN "writing" ELSE "merging"
  /\ rewritten' = (rewritten \/ engine = "loaded")
  /\ UNCHANGED <<turn, attempt, pairs, force, existing, verified, scripts, deaths, reader>>

EndWrite ==
  /\ pc \in {"writing", "merging"}
  /\ disk' = "whole"
  /\ file' = IF pc = "writing" THEN Listing ELSE Merged
  /\ rewritten' = (rewritten \/ engine = "loaded")
  /\ Idle
  /\ UNCHANGED <<scripts, deaths, reader>>

\* The crawl has no handler for a body that is not JSON, nor for an httpx error
\* other than the two it names.
CrawlRaises ==
  /\ pc \in {"gecko", "tokens"} /\ deaths < MaxDeaths
  /\ deaths' = deaths + 1
  /\ Idle
  /\ UNCHANGED <<disk, file, scripts, reader, rewritten>>

\* A script is killed.
Dies ==
  /\ pc # "idle" /\ deaths < MaxDeaths
  /\ deaths' = deaths + 1
  /\ Idle
  /\ UNCHANGED <<disk, file, scripts, reader, rewritten>>

-----------------------------------------------------------------------------
(* The engine. *)

\* WhitelistPool.is_v3
FeedKind(e) == e.dex \in V3Dexes

\* FleaMarketDiscovery._load_whitelist: an unreadable file is logged and gives no pools.
LoadWhitelist ==
  /\ engine = "down"
  /\ engine' = "loaded"
  /\ feed' = {<<e.pool, FeedKind(e)>> : e \in ToSet(file)}
  /\ rewritten' = FALSE
  /\ UNCHANGED <<disk, file, script, scripts, deaths, graph>>

\* Fault: an unreadable file is logged and gives no pools, here too.
BuildGraphLenient ==
  /\ engine = "loaded"
  /\ engine' = "running"
  /\ graph' = {<<e.pool, e.dex \in GraphV3>> : e \in ToSet(file)}
  /\ UNCHANGED <<disk, file, script, scripts, deaths, feed, rewritten>>

\* GraphArbEngine._build_graph: an unreadable file raises, and ends the engine.
BuildGraph ==
  /\ engine = "loaded"
  /\ IF disk = "torn"
     THEN engine' = "down" /\ feed' = {} /\ graph' = {}
     ELSE /\ engine' = "running"
          /\ graph' = {<<e.pool, e.dex \in GraphV3>> : e \in ToSet(file)}
          /\ UNCHANGED feed
  /\ UNCHANGED <<disk, file, script, scripts, deaths, rewritten>>

EngineStops ==
  /\ engine = "running"
  /\ engine' = "down" /\ feed' = {} /\ graph' = {} /\ rewritten' = FALSE
  /\ UNCHANGED <<disk, file, script, scripts, deaths>>

Next ==
  \/ StartCrawl
  \/ \E items \in Answers : GeckoPage(items) \/ TokenPairs(items)
  \/ GeckoRefuses \/ GeckoFails \/ TokenRefused \/ TokenFails
  \/ \E f \in BOOLEAN : StartVerifying(f)
  \/ Verify \/ VerifyEnds
  \/ BeginWrite \/ EndWrite \/ CrawlRaises \/ Dies
  \/ LoadWhitelist \/ BuildGraph \/ EngineStops

Spec == Init /\ [][Next]_vars

\* Every request has a timeout, and nothing waits for anything else.  Deaths,
\* starts and the engine are not fair.
Fairness ==
  /\ WF_vars(\/ \E items \in Answers : GeckoPage(items) \/ TokenPairs(items)
             \/ GeckoRefuses \/ GeckoFails \/ TokenRefused \/ TokenFails)
  /\ WF_vars(Verify \/ VerifyEnds)
  /\ WF_vars(BeginWrite \/ EndWrite)

FairSpec == Spec /\ Fairness

-----------------------------------------------------------------------------
\* The scripts may crawl, verify, merge and die in any order: a file that can be
\* read always gives the engine a topology.
Routable == disk = "whole" => Serves(file)

\* Feed and graph read the file on their own: the feed takes an unreadable one for
\* an empty one, and both tell V2 from V3 by lists of their own.  Yet no script that
\* died over the file leaves an engine running blind: unless a script wrote the file
\* between the two reads, it subscribes to some pools, and to exactly those it has
\* edges for, each as the same kind.
EngineSees == engine = "running" /\ ~rewritten => feed # {} /\ feed = graph

\* "So the engine always has something to route": a crawl that nothing kills, and
\* that no body which is not JSON makes raise, leaves a whole file, whichever
\* services refuse, fail or have nothing, and whatever an earlier script left.
CrawlRepairs ==
  pc = "gecko" /\ deaths = MaxDeaths ~> disk = "whole" /\ pc = "idle"
=============================================================================
