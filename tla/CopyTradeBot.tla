----------------------------- MODULE CopyTradeBot -----------------------------
(* The legacy copy-trade bot (src/src/copytrade.rs): a loop of ticks that    *)
(* read the account and its fills, charge the fills to the traders whose     *)
(* signals caused them, plan orders towards a consensus of the vetted        *)
(* traders, and send them one at a time.  The ledger of signals is a file    *)
(* that is written in place: a crash while it is written leaves one that the *)
(* next start reads as an empty ledger.  The price of every coin is one.     *)
EXTENDS Integers, Sequences, FiniteSets, FiniteSetsExt, Functions, TLC

CONSTANTS
  Traders, Coins,     \* the candidates and the coins, numbered
  Books,              \* what the vetted traders may show: trader -> coin -> sign
  Vettings,           \* the sets of traders that may pass the vetting
  Depths,             \* depth the order book of a coin may show
  ModifierOf,         \* ledger modifiers a Sharpe ratio may earn, of 2
  TargetScale,        \* equity * leverage * global_risk_scale
  AssetCap,           \* equity * max_single_asset_equity_pct
  MinOrder, MaxOrder, \* min_order_notional_usd, max_single_order_notional_usd
  MinSamples,         \* min_sharpe_samples
  Lookback,           \* sharpe_lookback_hours
  PruneAfter,         \* prune_inactive_trader_hours
  MaxBotOrders, MaxBotTime, MaxBotCrashes   \* bounds

ASSUME BotAssumption ==
  /\ IsFiniteSet(Traders) /\ IsFiniteSet(Coins) /\ Coins \subseteq Nat
  /\ Books \subseteq [Traders -> [Coins -> -1..1]] /\ Vettings \subseteq SUBSET Traders
  /\ Depths \subseteq Nat /\ TargetScale \in Nat /\ AssetCap \in Nat
  /\ MinOrder \in Nat \ {0} /\ MaxOrder \in Nat /\ ModifierOf \subseteq 0..2

VARIABLES
  botPhase,           \* where the tick is, or "Down"
  botClock,
  crashesLeft,
  account,            \* external: the positions at the exchange
  travelling,         \* external: the orders on their way, by cloid
  fillLog,            \* external: userFillsByTime
  follower,           \* the positions this tick has read
  ledger,             \* signal_ledger
  ledgerFile,         \* the file behind it
  plan,               \* orders of this tick still to be sent
  lastCloid

botVars == <<botPhase, botClock, crashesLeft, account, travelling, fillLog, follower,
             ledger, ledgerFile, plan, lastCloid>>

AbsOf(x) == IF x < 0 THEN -x ELSE x
SignOf(x) == IF x < 0 THEN -1 ELSE 1
Within(x, bound) == IF x > bound THEN bound ELSE IF x < -bound THEN -bound ELSE x

NewTrader == [samples |-> 0, modifier |-> 2, lastSignal |-> 0, lastFill |-> 0]
EmptyLedger == [orders |-> <<>>, traders |-> <<>>, counted |-> {}, active |-> <<>>]
Known(traders, t) == IF t \in DOMAIN traders THEN traders[t] ELSE NewTrader
Updated(traders, changed) ==
  [t \in DOMAIN traders \cup DOMAIN changed |-> IF t \in DOMAIN changed THEN changed[t] ELSE traders[t]]

BotInit ==
  /\ botPhase = "Idle" /\ botClock = 1 /\ crashesLeft = MaxBotCrashes
  /\ account = [c \in Coins |-> 0] /\ follower = account
  /\ travelling = <<>> /\ fillLog = <<>>
  /\ ledger = EmptyLedger /\ ledgerFile = EmptyLedger
  /\ plan = <<>> /\ lastCloid = 0

-----------------------------------------------------------------------------
\* SignalLedger::save: written in place, so a crash may tear the file.
Saved(new, next) ==
  \/ ledger' = new /\ ledgerFile' = new /\ botPhase' = next /\ UNCHANGED crashesLeft
  \/ /\ crashesLeft > 0 /\ crashesLeft' = crashesLeft - 1
     /\ ledger' = EmptyLedger /\ ledgerFile' = EmptyLedger /\ botPhase' = "Down"

\* The process has ended and its memory with it.
Ended ==
  /\ botPhase' = "Down" /\ ledger' = EmptyLedger /\ plan' = <<>>
  /\ follower' = [c \in Coins |-> 0]

\* Fault: a fill counts each time it is read.
CountsAgain(book, fill) == fill.cloid \in DOMAIN book.orders
\* A fill counts once, and only for an order the ledger knows; the fields of
\* fill_key are those of the record.
Counts(book, fill) == fill \notin book.counted /\ fill.cloid \in DOMAIN book.orders

\* SignalLedger::reconcile_fill; the Sharpe ratio of the samples is `verdict'.
Reconciled(book, fill, verdict) ==
  LET owners == book.orders[fill.cloid].attributions
      charged(t) ==
        LET trader == Known(book.traders, t)
            samples == trader.samples + (IF fill.closes THEN 1 ELSE 0)
        IN  [trader EXCEPT !.samples = samples, !.lastFill = fill.time,
               !.modifier = IF fill.closes /\ samples >= MinSamples THEN verdict ELSE @]
      paying == {t \in DOMAIN owners : owners[t] # 0}
  IN  IF ~Counts(book, fill) THEN book
      ELSE [book EXCEPT !.orders[fill.cloid].status = "Accepted",
                        !.traders = Updated(@, [t \in paying |-> charged(t)]),
                        !.counted = @ \cup {fill}]

\* The fills of a reading, each in its turn.
ReconciledWith(book, fills, since, verdict) ==
  LET after[n \in 0..Len(fills)] ==
        IF n = 0 THEN book
        ELSE IF fills[n].time >= since THEN Reconciled(after[n - 1], fills[n], verdict) ELSE after[n - 1]
  IN  after[Len(fills)]

\* SignalLedger::prune_inactive; the keys of the fills counted stay for ever.
Pruned(book, cutoff) ==
  LET kept == {t \in DOMAIN book.traders : \/ book.traders[t].lastSignal >= cutoff
                                           \/ book.traders[t].lastFill >= cutoff}
      live == {o \in DOMAIN book.orders : \/ book.orders[o].submitted >= cutoff
                                          \/ DOMAIN book.orders[o].attributions \cap kept # {}}
  IN  [book EXCEPT !.traders = Restrict(@, kept), !.orders = Restrict(@, live)]

-----------------------------------------------------------------------------
\* bounded_additive_consensus: what a trader adds to a coin, of 2.  The zero
\* of a trader without confidence keeps the sign of its position.
Signals(shown, vetted, book, coin) ==
  [t \in {v \in vetted : shown[v][coin] # 0} |->
     [sign |-> shown[t][coin], size |-> Known(book.traders, t).modifier]]

SumOf(signals) == SumFunction([t \in DOMAIN signals |-> signals[t].sign * signals[t].size])

\* The target of a coin under its capacity: the depth is shared between the
\* traders that agree on the coin.
CapacityOf(signals, depth) == Min({AssetCap, depth \div Max({1, Cardinality(DOMAIN signals)})})
TargetOf(signals, depth) ==
  Within((TargetScale * Within(SumOf(signals), 2)) \div 2, CapacityOf(signals, depth))

\* normalized_signal_attributions and normalize_ledger_attributions: nothing
\* when no size is left.
Attributions(sizes) == IF \A t \in DOMAIN sizes : sizes[t] = 0 THEN <<>> ELSE sizes

\* ledger_attributions_for_order: the traders on the side of the order, else
\* all that signal, else those the position was opened for.
OwnersOfOrder(signals, side, fallback) ==
  LET agreeing == {t \in DOMAIN signals : signals[t].sign = side}
      selected == IF agreeing = {} THEN DOMAIN signals ELSE agreeing
  IN  IF DOMAIN signals = {} THEN Attributions(fallback)
      ELSE Attributions([t \in selected |-> signals[t].size])

IsReducing(current, delta) == current # 0 /\ delta # 0 /\ SignOf(delta) # SignOf(current)

\* The order in which plan_orders serves the coins: reductions first.
ServedBefore(first, second) ==
  \/ first.reduces /\ ~second.reduces
  \/ first.reduces = second.reduces /\ (\/ first.signalled /\ ~second.signalled
                                        \/ first.signalled = second.signalled /\ first.coin < second.coin)

\* Fault: an increase leaves the room as it was.
GrossLessReductions(gross, reduces, size) == IF reduces THEN Max({0, gross - size}) ELSE gross
\* projected_gross after an order: a reduction is taken to fill.
ProjectedGross(gross, reduces, size) == IF reduces THEN Max({0, gross - size}) ELSE gross + size

\* One coin of plan_orders; a reduction frees its share of the gross for what
\* follows.  A guard takes increases out of the plan that is made, so that the
\* room they had stays taken.
PlannedCoin(acc, entry, guarded) ==
  LET wanted == Within(entry.target - entry.current, MaxOrder)
      reduces == IsReducing(entry.current, wanted)
      delta == IF reduces THEN Within(wanted, AbsOf(entry.current)) ELSE wanted
      room == Max({0, TargetScale - acc.gross})
      size == IF reduces THEN AbsOf(delta) ELSE Min({room, AbsOf(delta)})
      order == [coin |-> entry.coin, size |-> SignOf(delta) * size, reduceOnly |-> reduces,
                attributions |-> OwnersOfOrder(entry.signals, SignOf(delta), entry.fallback)]
  IN  IF AbsOf(entry.target - entry.current) < MinOrder \/ (~reduces /\ size < MinOrder) THEN acc
      ELSE [gross |-> ProjectedGross(acc.gross, reduces, size),
            orders |-> IF guarded /\ ~reduces THEN acc.orders ELSE Append(acc.orders, order)]

GrossOf(positions) == SumFunction([c \in DOMAIN positions |-> AbsOf(positions[c])])

\* The coins that are held or that somebody signals.
PlanEntry(signalsOf, depth, c) ==
  LET target == TargetOf(signalsOf[c], depth)
  IN  [coin |-> c, target |-> target, current |-> follower[c], signals |-> signalsOf[c],
       signalled |-> DOMAIN signalsOf[c] # {},
       reduces |-> IsReducing(follower[c], target - follower[c]),
       fallback |-> IF c \in DOMAIN ledger.active THEN ledger.active[c] ELSE <<>>]

PlanEntries(signalsOf, depth) ==
  {PlanEntry(signalsOf, depth, c) : c \in {d \in Coins : follower[d] # 0 \/ DOMAIN signalsOf[d] # {}}}

\* One coin after the other, in their order.
ServedFirst(left) == CHOOSE e \in left : \A f \in left \ {e} : ServedBefore(e, f)

PlanOrders(signalsOf, depth, guarded) ==
  LET entries == PlanEntries(signalsOf, depth)
      after[n \in 0 .. Cardinality(entries)] ==
        IF n = 0 THEN [made |-> [gross |-> GrossOf(follower), orders |-> <<>>], left |-> entries]
        ELSE LET e == ServedFirst(after[n - 1].left)
             IN  [made |-> PlannedCoin(after[n - 1].made, e, guarded), left |-> after[n - 1].left \ {e}]
  IN  after[Cardinality(entries)].made.orders

\* update_active_attributions.
ActiveAfter(active, signalsOf) ==
  LET signalled == {c \in Coins : DOMAIN signalsOf[c] # {}}
      closed == {c \in Coins : follower[c] = 0}
  IN  [c \in signalled |-> Attributions([t \in DOMAIN signalsOf[c] |-> signalsOf[c][t].size])]
        @@ Restrict(active, DOMAIN active \ closed)

-----------------------------------------------------------------------------
\* fetch_user_state.
ReadAccount ==
  /\ botPhase = "Idle"
  /\ follower' = account /\ botPhase' = "Read"
  /\ UNCHANGED <<botClock, crashesLeft, account, travelling, fillLog, ledger, ledgerFile, plan, lastCloid>>

\* fetch_performance_snapshot: saved only when a fill counted.
ReconcileFills ==
  \E verdict \in ModifierOf :
    LET new == ReconciledWith(ledger, fillLog, botClock - Lookback, verdict)
    IN  /\ botPhase = "Read"
        /\ IF new = ledger THEN botPhase' = "Reconciled" /\ UNCHANGED <<ledger, ledgerFile, crashesLeft>>
           ELSE Saved(new, "Reconciled")
        /\ UNCHANGED <<botClock, account, travelling, fillLog, follower, plan, lastCloid>>

\* prune_and_persist_ledger: saved only when a trader went.
PruneLedger ==
  LET new == Pruned(ledger, botClock - PruneAfter)
  IN  /\ botPhase = "Reconciled"
      /\ IF DOMAIN new.traders = DOMAIN ledger.traders
         THEN ledger' = new /\ botPhase' = "Pruned" /\ UNCHANGED <<ledgerFile, crashesLeft>>
         ELSE Saved(new, "Pruned")
      /\ UNCHANGED <<botClock, account, travelling, fillLog, follower, plan, lastCloid>>

\* The rest of the tick before its orders: the traders vetted, what they
\* show, the books, and whether a guard allows reductions only.
PlanTick ==
  \E shown \in Books, vetted \in Vettings, depth \in Depths, guarded \in BOOLEAN :
    LET signalsOf == [c \in Coins |-> Signals(shown, vetted, ledger, c)]
    IN  /\ botPhase = "Pruned"
        /\ plan' = PlanOrders(signalsOf, depth, guarded)
        /\ Saved([ledger EXCEPT !.active = ActiveAfter(@, signalsOf)], "Ordering")
        /\ UNCHANGED <<botClock, account, travelling, fillLog, follower, lastCloid>>

\* record_order_in_ledger: saved before the order leaves.
RecordOrder ==
  LET order == Head(plan)
      cloid == lastCloid + 1
      signalled == [t \in DOMAIN order.attributions |->
                      [Known(ledger.traders, t) EXCEPT !.lastSignal = botClock]]
  IN  /\ botPhase = "Ordering" /\ plan # <<>> /\ lastCloid < MaxBotOrders
      /\ lastCloid' = cloid
      /\ Saved([ledger EXCEPT
                  !.traders = Updated(@, signalled),
                  !.orders = (cloid :> [coin |-> order.coin, attributions |-> order.attributions,
                                        submitted |-> botClock, status |-> "Submitted"]) @@ @], "Recorded")
      /\ UNCHANGED <<botClock, account, travelling, fillLog, follower, plan>>

SendOrder ==
  /\ botPhase = "Recorded"
  /\ travelling' = Updated(travelling, [c \in {lastCloid} |-> Head(plan)])
  /\ plan' = Tail(plan) /\ botPhase' = "Sent"
  /\ UNCHANGED <<botClock, crashesLeft, account, fillLog, follower, ledger, ledgerFile, lastCloid>>

\* The exchange has answered: a rejection ends the process.
OrderAnswered ==
  \E accepted \in BOOLEAN :
    /\ botPhase = "Sent" /\ lastCloid \notin DOMAIN travelling
    /\ accepted \/ \A i \in DOMAIN fillLog : fillLog[i].cloid # lastCloid
    /\ Saved([ledger EXCEPT !.orders[lastCloid].status = IF accepted THEN "Accepted" ELSE "Rejected"],
             IF accepted THEN "Ordering" ELSE "Down")
    /\ UNCHANGED <<botClock, account, travelling, fillLog, follower, plan, lastCloid>>

\* latency_timeout_ms passes, or the call fails: the process ends and the
\* order may still execute.
OrderTimesOut ==
  /\ botPhase = "Sent" /\ Ended
  /\ UNCHANGED <<botClock, crashesLeft, account, travelling, fillLog, ledgerFile, lastCloid>>

EndTick ==
  /\ botPhase = "Ordering" /\ plan = <<>> /\ botPhase' = "Idle"
  /\ follower' = [c \in Coins |-> 0]
  /\ UNCHANGED <<botClock, crashesLeft, account, travelling, fillLog, ledger, ledgerFile, plan, lastCloid>>

\* CopyTradeEngine::new: the ledger as its file shows it.
StartBot ==
  /\ botPhase = "Down" /\ botPhase' = "Idle"
  /\ ledger' = ledgerFile /\ plan' = <<>>
  /\ UNCHANGED <<botClock, crashesLeft, account, travelling, fillLog, follower, ledgerFile, lastCloid>>

BotCrash ==
  /\ crashesLeft > 0 /\ botPhase # "Down"
  /\ Ended /\ crashesLeft' = crashesLeft - 1
  /\ UNCHANGED <<botClock, account, travelling, fillLog, ledgerFile, lastCloid>>

\* External: an order that is good for the moment it arrives fills whole, in
\* two equal parts, or not at all.
ExecuteOrder ==
  \E cloid \in DOMAIN travelling, parts \in {<<>>, <<2>>, <<1, 1>>} :
    LET order == travelling[cloid]
        current == account[order.coin]
        open == IF ~order.reduceOnly THEN order.size
                ELSE IF IsReducing(current, order.size) THEN Within(order.size, AbsOf(current)) ELSE 0
        fill(n) == [cloid |-> cloid, time |-> botClock, size |-> (open * n) \div 2,
                    closes |-> IsReducing(current, order.size)]
        filled == SumFunction([i \in DOMAIN parts |-> fill(parts[i]).size])
    IN  /\ open = 0 => parts = <<>>
        /\ account' = [account EXCEPT ![order.coin] = @ + filled]
        /\ fillLog' = fillLog \o [i \in DOMAIN parts |-> fill(parts[i])]
        /\ travelling' = Restrict(travelling, DOMAIN travelling \ {cloid})
        /\ UNCHANGED <<botPhase, botClock, crashesLeft, follower, ledger, ledgerFile, plan, lastCloid>>

\* Hours are long for a tick: they pass between two of them.
BotTick ==
  /\ botPhase \in {"Idle", "Down"} /\ botClock < MaxBotTime /\ botClock' = botClock + 1
  /\ UNCHANGED <<botPhase, crashesLeft, account, travelling, fillLog, follower, ledger, ledgerFile, plan, lastCloid>>

BotNext ==
  \/ ReadAccount \/ ReconcileFills \/ PruneLedger \/ PlanTick \/ RecordOrder \/ SendOrder
  \/ OrderAnswered \/ OrderTimesOut \/ EndTick \/ StartBot \/ BotCrash \/ ExecuteOrder \/ BotTick
BotSpec == BotInit /\ [][BotNext]_botVars

-----------------------------------------------------------------------------
\* No trader is charged more closed trades than the account has closed, in
\* memory or on disk, whatever is read again after a crash, a torn file or a
\* pruning: its confidence rests on samples that happened
\* (SignalLedger::reconcile_fill, save, prune_inactive).
SamplesHappened ==
  LET closing == Cardinality({i \in DOMAIN fillLog : fillLog[i].closes})
  IN  \A book \in {ledger, ledgerFile} : \A t \in DOMAIN book.traders : book.traders[t].samples <= closing

\* Where every order fills as planned, no prefix of the plan takes the gross
\* above its cap, or above what was held: reductions are sent before the
\* increases that use the room they free (plan_orders).
EveryPrefixKeepsTheCap ==
  [][ botPhase = "Pruned" /\ botPhase' = "Ordering" =>
        \A n \in 0..Len(plan') :
          LET held(c) == follower[c] + SumFunction([i \in 1..n |-> IF plan'[i].coin = c THEN plan'[i].size ELSE 0])
          IN  GrossOf([c \in Coins |-> held(c)]) <= Max({TargetScale, GrossOf(follower)}) ]_botVars
=============================================================================
