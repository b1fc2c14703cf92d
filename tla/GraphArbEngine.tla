--------------------------- MODULE GraphArbEngine ---------------------------
(***************************************************************************)
(* process_b_sniper.py: ProcessBSniper.run in graph mode and GraphArbEngine, *)
(* from an event taken off the queue to the ExecutionState it leaves; and    *)
(* orchestrator.py: flush_notifications, which alerts on those states and    *)
(* empties the list while the engine appends to it; and what the three entry *)
(* points, orchestrator.py, app.py and scripts/run_live.py, make of a feed   *)
(* that dies (how it dies is WebSocketListener's and SyncPipeline's subject). *)
(*                                                                           *)
(* All are coroutines of one event loop: between two awaits a step is       *)
(* atomic.  What the Bellman-Ford search finds after an event (ArbGraph) is   *)
(* any of the outcomes its code can produce; WETHPriceOracle and             *)
(* OnChainQuoter are modelled here, with the services they ask answering     *)
(* anything.                                                                 *)
(***************************************************************************)
EXTENDS Integers, Sequences, SequencesExt

CONSTANTS Cycles,      \* the pool tuples of the cycles a search may find
          NoCycle,
          Grid,        \* self.grid, the input sizes of the quoter in their order
          Gas,         \* self.gas_price_buffer_wei
          Dust,        \* gains up to this do not show in floats of ETH
          MaxOut,      \* bound: what a quote may answer
          MaxEvents    \* bound: events put on the queue

ASSUME EngineAssumption ==
  /\ NoCycle \notin Cycles
  /\ Grid \in Seq(Nat \ {0}) /\ Gas \in Nat /\ Dust \in Nat
  /\ MaxOut \in Nat /\ MaxEvents \in Nat

VARIABLES
  entry,    \* the program that runs the engine: "orchestrator", "app" or "run_live"
  feed,     \* process_a.run() awaits its source; FALSE once that raised
  mode,     \* "paper" for dry_run; live with ("executor") or without ("live") a
            \* live_executor; set when the engine is made
  events,   \* how many events were queued so far
  waiting,  \* sync_queue.qsize()
  running,  \* self._running
  pc,       \* the await the sniper is in, or "ended"
  priced,   \* the oracle's cached price is younger than CACHE_TTL
  cycle,    \* the cycle under evaluation
  quote,    \* amount out per grid size of the cycle under evaluation, 0 for a revert
  size,     \* the size it is traded with, 0 before one is chosen
  seen,     \* self._seen_cycles
  traces,   \* self._trace_counter
  results,  \* self._results: [cycle, status]
  alerting, \* the result flush_notifications is alerting on; 0 while it sleeps, -1 when
            \* it returned or none runs
  shutdown, \* orchestrator._shutdown
  passed,   \* history: cycles whose simulation passed
  recorded, \* history: cycles that left a result
  alerted   \* history: cycles alerted on

program == <<entry, feed>>
engine == <<mode, waiting, running, pc, priced, cycle, quote, size, seen, traces, passed>>
flush == <<alerting, alerted>>
vars == <<program, events, engine, results, recorded, flush, shutdown>>

Sizes == {Grid[i] : i \in DOMAIN Grid}

\* What evaluate_grid makes of a failed call: every size reverts.
Reverted == [g \in Sizes |-> 0]

Init ==
  /\ entry \in {"orchestrator", "app", "run_live"} /\ feed = TRUE
  /\ mode \in {"paper", "live", "executor"}
  /\ events = 0 /\ waiting = 0
  /\ running = TRUE
  /\ pc = "get" /\ cycle = NoCycle
  /\ priced = FALSE
  /\ quote = Reverted /\ size = 0
  /\ seen = {} /\ traces = 0
  /\ results = << >>
  /\ alerting = (IF entry = "orchestrator" THEN 0 ELSE -1) /\ shutdown = FALSE
  /\ passed = {} /\ recorded = {} /\ alerted = {}

\* Process A puts an event.
Put ==
  /\ feed
  /\ events < MaxEvents
  /\ events' = events + 1
  /\ waiting' = waiting + 1
  /\ UNCHANGED <<program, mode, running, pc, priced, cycle, quote, size, seen, traces,
                 passed, results, recorded, flush, shutdown>>

-----------------------------------------------------------------------------
(* The sniper: one iteration of `while self._running`. *)

\* The iteration is over, by a return or by an exception that run() logs.
Finish ==
  /\ pc' = IF running THEN "get" ELSE "ended"
  /\ cycle' = NoCycle /\ quote' = Reverted /\ size' = 0

\* Fault: the cycle is looked up and never added.
EvaluateUnseen(c) ==
  /\ c \notin seen
  /\ pc' = "quote"
  /\ cycle' = c
  /\ UNCHANGED <<quote, size, seen>>

\* A cycle that was not seen before is evaluated, when every hop has a router;
\* it counts as seen either way.
Evaluate(c) ==
  /\ c \notin seen
  /\ seen' = seen \cup {c}
  /\ \/ pc' = "quote" /\ cycle' = c /\ UNCHANGED <<quote, size>>
     \/ Finish

SearchRaises == Finish

\* With a price, the search finds nothing or a cycle seen before, raises (see
\* ArbGraph), or finds a new cycle.
Search ==
  \/ UNCHANGED seen /\ (Finish \/ SearchRaises)
  \/ \E c \in Cycles : Evaluate(c)

\* sync_queue.get() returns and the edge is updated.  A fresh price is at hand
\* without an await; else the first tier is asked.
Get ==
  /\ pc = "get"
  /\ waiting > 0
  /\ waiting' = waiting - 1
  /\ \/ priced /\ Search
     \/ ~priced /\ pc' = "gecko" /\ UNCHANGED <<cycle, quote, size, seen>>
  /\ UNCHANGED <<program, mode, events, running, priced, traces, passed, results,
                 recorded, flush, shutdown>>

\* GeckoTerminal answers: a sane price is cached, anything else goes on to the pool.
GeckoAnswers ==
  /\ pc = "gecko"
  /\ \/ priced' = TRUE /\ Search
     \/ pc' = "pool" /\ UNCHANGED <<priced, cycle, quote, size, seen>>
  /\ UNCHANGED <<program, mode, events, waiting, running, traces, passed, results,
                 recorded, flush, shutdown>>

\* The pool's reserves give a sane price, or the oracle raises and the event is
\* dropped.  (A token0 that is WETH is compared with a misspelled address, so
\* that such a pool's price comes out inverted and out of the band.)
PoolAnswers ==
  /\ pc = "pool"
  /\ \/ priced' = TRUE /\ Search
     \/ Finish /\ UNCHANGED <<priced, seen>>
  /\ UNCHANGED <<program, mode, events, waiting, running, traces, passed, results,
                 recorded, flush, shutdown>>

\* CACHE_TTL seconds after the price was asked for.
PriceExpires ==
  /\ priced
  /\ priced' = FALSE
  /\ UNCHANGED <<program, mode, events, waiting, running, pc, cycle, quote, size, seen,
                 traces, passed, results, recorded, flush, shutdown>>

\* net of a size; before one is chosen best_net is 0.
Gain(outs, g) == IF g = 0 THEN 0 ELSE outs[g] - g

\* Fault: best_net is not moved along with best_in.
BetterThanNothing(outs, best, g) == IF outs[g] # 0 /\ Gain(outs, g) > 0 THEN g ELSE best

\* One turn of the loop of OnChainQuoter.quote_best_size: a size that reverts is
\* passed over, one that gains more than the best so far replaces it.
Better(outs, best, g) == IF outs[g] # 0 /\ Gain(outs, g) > Gain(outs, best) THEN g ELSE best

\* What the loop leaves in best_in.
BestSize(outs) ==
  LET best[i \in 0 .. Len(Grid)] == IF i = 0 THEN 0 ELSE Better(outs, best[i - 1], Grid[i])
  IN best[Len(Grid)]

\* No size gains anything: amount_in is 0.
QuoteLoses ==
  /\ pc = "quote"
  /\ \E outs \in [Sizes -> 0..MaxOut] : BestSize(outs) = 0
  /\ Finish
  /\ UNCHANGED <<program, mode, events, waiting, running, priced, seen, traces, passed,
                 results, recorded, flush, shutdown>>

\* The best size gains, but too little to show in floats of ETH, so that no
\* gross profit is positive.
QuoteGainsDust ==
  /\ pc = "quote"
  /\ \E outs \in [Sizes -> 0..MaxOut] :
       BestSize(outs) # 0 /\ \A g \in Sizes : Gain(outs, g) <= Dust
  /\ traces' = traces + 1
  /\ Finish
  /\ UNCHANGED <<program, mode, events, waiting, running, priced, seen, passed,
                 results, recorded, flush, shutdown>>

\* The best size gains.  Gas eats the profit, or the decision is EXECUTE, and
\* on_opportunity is awaited where the entry point passed one.
QuoteGains ==
  /\ pc = "quote"
  /\ \E outs \in [Sizes -> 0..MaxOut] :
       /\ \E g \in Sizes : Gain(outs, g) > Dust
       /\ IF Gain(outs, BestSize(outs)) <= Gas THEN Finish
          ELSE /\ pc' = IF entry = "run_live" THEN "simulate" ELSE "opportunity"
               /\ quote' = outs /\ size' = BestSize(outs)
               /\ UNCHANGED cycle
  /\ UNCHANGED <<program, mode, events, waiting, running, priced, seen, traces, passed,
                 results, recorded, flush, shutdown>>

\* on_opportunity has alerted: send_telegram swallows its failures.
OpportunityAlerted ==
  /\ pc = "opportunity"
  /\ pc' = "simulate"
  /\ UNCHANGED <<program, mode, events, waiting, running, priced, cycle, quote, size,
                 seen, traces, passed, results, recorded, flush, shutdown>>

\* FlashloanExecutor.simulate answers False: not deployed, revert or error.
SimulationFails ==
  /\ pc = "simulate"
  /\ Finish
  /\ UNCHANGED <<program, mode, events, waiting, running, priced, seen, traces, passed,
                 results, recorded, flush, shutdown>>

\* Paper trades count as executed; a live one without an executor is aborted.
Status == IF mode = "paper" THEN "EXECUTED" ELSE "ABORTED"

Record(c) ==
  /\ results' = Append(results, [cycle |-> c, status |-> Status])
  /\ recorded' = recorded \cup {c}

\* simulate answers True.  From there to _append_result nothing yields to the
\* event loop.  Live with an executor, reading self.executor raises, as
\* GraphArbEngine has no such attribute: nothing is signed and no result is left.
SimulationPasses ==
  /\ pc = "simulate"
  /\ passed' = passed \cup {cycle}
  /\ IF mode = "executor" THEN UNCHANGED <<results, recorded>> ELSE Record(cycle)
  /\ Finish
  /\ UNCHANGED <<program, mode, events, waiting, running, priced, seen, traces, flush,
                 shutdown>>

\* ProcessBSniper.stop().
Stop ==
  /\ running' = FALSE
  /\ UNCHANGED <<program, mode, events, waiting, pc, priced, cycle, quote, size, seen,
                 traces, passed, results, recorded, flush, shutdown>>

-----------------------------------------------------------------------------
(* flush_notifications and the signal handler. *)

\* Fault: a round without results returns.
WakeUpReturns ==
  /\ alerting = 0
  /\ alerting' = IF shutdown \/ results = << >> THEN -1 ELSE 1
  /\ UNCHANGED <<program, events, engine, results, recorded, alerted, shutdown>>

\* asyncio.sleep(1.0) is over.  Each result is alerted on in turn; an empty
\* list is cleared and the flush sleeps again.
WakeUp ==
  /\ alerting = 0
  /\ alerting' = IF shutdown THEN -1 ELSE IF results = << >> THEN 0 ELSE 1
  /\ UNCHANGED <<program, events, engine, results, recorded, alerted, shutdown>>

\* Fault: the flush walks a copy of the list and then clears the list.
AlertedCopy ==
  /\ alerting > 0
  /\ alerted' = alerted \cup {results[alerting].cycle}
  /\ \/ alerting < Len(results) /\ alerting' = alerting + 1 /\ UNCHANGED results
     \/ alerting' = 0 /\ results' = << >>
  /\ UNCHANGED <<program, events, engine, recorded, shutdown>>

\* Fault: the place in the list is kept when the list is cleared.
AlertedKeepsPlace ==
  /\ alerting > 0
  /\ alerted' = alerted \cup {results[alerting].cycle}
  /\ IF alerting < Len(results)
     THEN alerting' = alerting + 1 /\ UNCHANGED results
     ELSE UNCHANGED alerting /\ results' = << >>
  /\ UNCHANGED <<program, events, engine, recorded, shutdown>>

\* An alert was sent.  The loop goes on with the list as it is now, and clears
\* it when it has reached its end.
Alerted ==
  /\ alerting > 0
  /\ alerted' = alerted \cup {results[alerting].cycle}
  /\ IF alerting < Len(results)
     THEN alerting' = alerting + 1 /\ UNCHANGED results
     ELSE alerting' = 0 /\ results' = << >>
  /\ UNCHANGED <<program, events, engine, recorded, shutdown>>

\* _handle_signal
Signal ==
  /\ shutdown' = TRUE
  /\ UNCHANGED <<program, events, engine, results, recorded, flush>>

-----------------------------------------------------------------------------
(* The entry points. *)

\* asyncio.gather raises what process_a.run() raised, and asyncio.run cancels the
\* sniper and the flush wherever they wait.
SessionEnds ==
  /\ pc' = "ended" /\ cycle' = NoCycle /\ quote' = Reverted /\ size' = 0
  /\ alerting' = -1

\* Fault: the app gathers its processes without a wrapper.
FeedDiesUncontained ==
  /\ feed
  /\ feed' = FALSE
  /\ SessionEnds
  /\ UNCHANGED <<entry, mode, events, waiting, running, priced, seen, traces, passed,
                 results, recorded, alerted, shutdown>>

\* listen() raised, and ends process_a.run().  Only the app wraps each process in
\* a coroutine that logs the exception and returns.
FeedDies ==
  /\ feed
  /\ feed' = FALSE
  /\ IF entry = "app" THEN UNCHANGED <<pc, cycle, quote, size, alerting>> ELSE SessionEnds
  /\ UNCHANGED <<entry, mode, events, waiting, running, priced, seen, traces, passed,
                 results, recorded, alerted, shutdown>>

Next ==
  \/ Put \/ Get \/ GeckoAnswers \/ PoolAnswers \/ PriceExpires
  \/ QuoteLoses \/ QuoteGainsDust \/ QuoteGains
  \/ OpportunityAlerted \/ SimulationFails \/ SimulationPasses
  \/ Stop \/ WakeUp \/ Alerted \/ Signal \/ FeedDies

Spec == Init /\ [][Next]_vars

\* The event loop runs every coroutine that is ready, and every await of the
\* sniper and of the flush has a timeout.
Fairness ==
  /\ WF_vars(Get) /\ WF_vars(GeckoAnswers) /\ WF_vars(PoolAnswers)
  /\ WF_vars(QuoteLoses \/ QuoteGainsDust \/ QuoteGains)
  /\ WF_vars(OpportunityAlerted) /\ WF_vars(SimulationFails \/ SimulationPasses)
  /\ WF_vars(WakeUp) /\ WF_vars(Alerted)

FairSpec == Spec /\ Fairness

-----------------------------------------------------------------------------
TypeOK ==
  /\ entry \in {"orchestrator", "app", "run_live"} /\ feed \in BOOLEAN
  /\ mode \in {"paper", "live", "executor"}
  /\ events \in 0..MaxEvents /\ waiting \in 0..events
  /\ running \in BOOLEAN /\ shutdown \in BOOLEAN
  /\ pc \in {"get", "gecko", "pool", "quote", "opportunity", "simulate", "ended"}
  /\ cycle \in Cycles \cup {NoCycle}
  /\ seen \subseteq Cycles /\ passed \subseteq Cycles
  /\ recorded \subseteq Cycles /\ alerted \subseteq Cycles
  /\ results \in Seq([cycle : Cycles, status : {"EXECUTED", "ABORTED"}])
  /\ alerting \in -1..Len(results)
  /\ traces \in Nat
  /\ priced \in BOOLEAN
  /\ quote \in [Sizes -> 0..MaxOut]
  /\ size \in Sizes \cup {0}

\* A result is never cleared before it was alerted on, although the engine
\* appends to the list while the flush awaits an alert, and clears it after.
NoResultLost == recorded \subseteq alerted \cup {results[i].cycle : i \in DOMAIN results}

\* A cycle is traded once, however often the searches find it again.
TradedOnce ==
  [][\A c \in Cycles : c \in passed => ~(pc = "simulate" /\ cycle = c)]_vars

\* What the loop over the grid leaves, and is alerted on and simulated awaits
\* later, is a size that gains most of all that were quoted for this cycle,
\* whichever sizes reverted, lost or tied before it, and gains more than the gas.
BestSizeTraded ==
  /\ size # 0 <=> pc \in {"opportunity", "simulate"}
  /\ size # 0 => /\ Gain(quote, size) > Gas
                /\ \A g \in Sizes : Gain(quote, g) <= Gain(quote, size)

\* One failed iteration does not end the loop, and in the app neither does the
\* death of the feed: events do not stay queued.
EventsConsumed ==
  waiting > 0 ~> waiting = 0 \/ ~running \/ (~feed /\ entry # "app")

\* Every trade that passed its simulation is alerted on, where the entry point
\* flushes: its result is recorded, survives the list it is kept in and reaches
\* the flush, unless a signal ends the flush or the death of the feed the session.
\* Live with an executor there is no result to alert on (see SimulationPasses).
ResultsAlerted ==
  \A c \in Cycles :
    c \in passed /\ entry = "orchestrator" /\ mode # "executor"
      ~> c \in alerted \/ shutdown \/ ~feed
=============================================================================
