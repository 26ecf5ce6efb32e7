------------------------------ MODULE DualLedger ------------------------------
(* The books of one asset: the portfolio's position with its episodes, and   *)
(* beside it the position of every component that asked for it (ledger.rs).  *)
(* A fill of the exchange is one for the portfolio and is divided between    *)
(* the components (partition_component_fill); when an episode of the         *)
(* portfolio closes, the episodes that its components close with it must     *)
(* account for the same result (try_execute_pending, live_shadow.rs).        *)
(*                                                                           *)
(* A Decimal has a limited number of digits: quantities are integers of the  *)
(* last one, 1e-28, and one that is too long loses it (AsDecimal).  So fills *)
(* that are divided leave dust in the components' books, less than a whole   *)
(* lot, and the code compares their sum with the portfolio's position within *)
(* a tolerance.                                                              *)
(*                                                                           *)
(* An episode's result is its exit less its entry notional (for a short, the *)
(* reverse) and its costs; fees, a unit for each unit traded, stand for      *)
(* fees, funding and slippage, which are divided alike.  Notionals are not   *)
(* rounded: what rounding them would add is left out.                        *)
EXTENDS Integers, Sequences, FiniteSets, FiniteSetsExt, SequencesExt, Functions

CONSTANTS
  ComponentCount,  \* component books, numbered as the keys of a BTreeMap are ordered
  Lot,             \* units of a size step
  MaxMantissa,     \* the largest quantity with a last digit
  DustTolerance,   \* units a sum may differ by (reconciliation_difference)
  Contributions,   \* what a component may want, of Lot
  OpeningFloor,    \* the smallest position that can be opened on its own, of Lot
  Prices,          \* of a fill
  MaxFills         \* bound on the fills

\* A Decimal has ten digits; a whole lot is long enough to end in zeros.
Digit == 10

ASSUME LedgerAssumption ==
  /\ ComponentCount \in Nat \ {0}
  /\ Lot \in Nat \ {0} /\ Lot % (2 * Digit) = 0
  /\ MaxMantissa \in Nat \ {0} /\ MaxMantissa % Digit = 0
  /\ DustTolerance \in Nat /\ DustTolerance < Lot
  /\ Contributions \subseteq Int /\ OpeningFloor \in Nat
  /\ Prices \subseteq Nat /\ MaxFills \in Nat

Components == 1..ComponentCount

VARIABLES
  portfolio,       \* EpisodeBook of the portfolio
  components,      \* EpisodeBook of each component
  ledgerPending,   \* the pending action with its component targets, or NoOrder
  fills,           \* fills so far
  ledgerEnded,     \* why the engine ended, or "no"
  sinceFlat        \* history: fills since the portfolio was flat

ledgerVars == <<portfolio, components, ledgerPending, fills, ledgerEnded, sinceFlat>>

Amount(x) == IF x < 0 THEN -x ELSE x
Lesser(a, b) == IF a <= b THEN a ELSE b
SideOf(x) == IF x > 0 THEN 1 ELSE IF x < 0 THEN -1 ELSE 0
Opposite(x, y) == SideOf(x) * SideOf(y) = -1

NoEpisode == [quantity |-> 0, entry |-> 0, exit |-> 0, fees |-> 0]
EmptyBook == [position |-> 0, open |-> NoEpisode]
NoOrder == [side |-> 0]
Positions == [c \in Components |-> components[c].position]

LedgerTypeOK ==
  /\ portfolio.position \in Int
  /\ \A c \in Components : components[c].position \in Int
  /\ ledgerPending # NoOrder => /\ ledgerPending.side \in {-1, 1}
                                 /\ ledgerPending.quantity \in Nat \ {0}
                                 /\ ledgerPending.targets \in [Components -> Int]
  /\ fills \in 0..MaxFills /\ sinceFlat \in 0..fills

LedgerInit ==
  /\ portfolio = EmptyBook
  /\ components = [c \in Components |-> EmptyBook]
  /\ ledgerPending = NoOrder
  /\ fills = 0 /\ ledgerEnded = "no" /\ sinceFlat = 0

-----------------------------------------------------------------------------
(* Decimals                                                                   *)

\* n divided by d, to the nearest whole number, halves to the even one.
Nearest(n, d) ==
  LET down == n \div d
      left == 2 * (n % d)
  IN  IF left > d \/ (left = d /\ down % 2 = 1) THEN down + 1 ELSE down

\* What a Decimal holds of n divided by d: the last digit goes when it is too long.
Quotient(n, d) ==
  IF n <= MaxMantissa * d THEN Nearest(n, d) ELSE Digit * Nearest(n, Digit * d)

\* What a Decimal holds of a sum.
AsDecimal(x) == SideOf(x) * Quotient(Amount(x), 1)

\* A sum over the components in the order of their keys, rounded as it grows
\* (try_fold), and one that is exact.
FoldTotal(f) ==
  LET sum[n \in 0..ComponentCount] == IF n = 0 THEN 0 ELSE AsDecimal(sum[n - 1] + f[n])
  IN  sum[ComponentCount]
SumOf(f) == SumFunction(f)

Reconciled(attributed, quantity) == Amount(attributed - quantity) <= DustTolerance

-----------------------------------------------------------------------------
(* EpisodeBook                                                                *)

\* add_same_direction and open_new: a larger episode, or a new one; both are
\* an episode with the fill added.
Grown(open, delta, price) ==
  [quantity |-> AsDecimal(open.quantity + delta), entry |-> open.entry + (Amount(delta) * price),
   exit |-> open.exit, fees |-> open.fees + Amount(delta)]

\* The part of an episode's close that a fill makes.
Shrunk(open, closing, price) ==
  [quantity |-> AsDecimal(open.quantity - (SideOf(open.quantity) * closing)), entry |-> open.entry,
   exit |-> open.exit + (closing * price), fees |-> open.fees + closing]

\* finish_episode: what is booked when an episode has closed.
Result(side, open) ==
  [gross |-> side * (open.exit - open.entry), fees |-> open.fees]

\* apply: the book after a fill, and the episodes that it closed.
ApplyFill(book, delta, price) ==
  LET open == book.open
      closing == Lesser(Amount(delta), Amount(open.quantity))
      shrunk == Shrunk(open, closing, price)
      residual == AsDecimal(Amount(delta) - closing)
      position == AsDecimal(book.position + delta)
  IN  IF delta = 0 THEN [book |-> book, closed |-> <<>>]
      ELSE IF ~Opposite(open.quantity, delta)
      THEN [book |-> [position |-> position, open |-> Grown(open, delta, price)], closed |-> <<>>]
      ELSE [book |-> [position |-> position,
                      open |-> IF shrunk.quantity # 0 THEN shrunk
                               ELSE IF residual = 0 THEN NoEpisode
                               ELSE Grown(NoEpisode, SideOf(delta) * residual, price)],
            closed |-> IF shrunk.quantity = 0
                       THEN <<Result(SideOf(open.quantity), shrunk)>> ELSE <<>>]

-----------------------------------------------------------------------------
(* The division of a fill.                                                    *)

Division(shares) == [error |-> "no", shares |-> shares]
Refused(error) == [error |-> error]

\* proportional_allocations: each key of a positive weight gets its share of
\* the total, but no more than is left, and the last one all that is left.
\* (The product of total and weight is not rounded before it is divided.)
Proportional(total, weights) ==
  LET keys == {c \in Components : weights[c] > 0}
      Share(c, left) == IF c \notin keys THEN 0
                        ELSE IF c = Max(keys) THEN left
                        ELSE Lesser(Quotient(total * weights[c], FoldTotal(weights)), left)
      remaining[n \in 0..ComponentCount] ==
        IF n = 0 THEN total ELSE AsDecimal(remaining[n - 1] - Share(n, remaining[n - 1]))
  IN  [c \in Components |-> Share(c, remaining[c - 1])]

\* The weights themselves, if they are the total, or shares by them; then the
\* last key is given what makes the total (canonicalize_allocation_total).
Allocated(total, weights) ==
  LET shares == IF total = FoldTotal(weights) THEN weights ELSE Proportional(total, weights)
      anchor == Max({c \in Components : weights[c] > 0})
      residual == AsDecimal(total - FoldTotal([shares EXCEPT ![anchor] = 0]))
  IN  IF residual < 0 THEN Refused("NegativeResidual")
      ELSE Division([shares EXCEPT ![anchor] = residual])

\* absolute_directional_component_targets: the target divided between the
\* components that want its side.
ComponentTargets(wanted, target) ==
  LET directional == [c \in Components |-> IF SideOf(wanted[c]) = SideOf(target) THEN Amount(wanted[c]) ELSE 0]
      divided == Proportional(Amount(target), directional)
  IN  IF target = 0 THEN [c \in Components |-> 0]
      ELSE [c \in Components |-> SideOf(target) * divided[c]]

\* Fault: the closing fill is divided between the components again.
FlattenDivided(positions, filled, side) ==
  LET open == {c \in Components : positions[c] # 0}
  IN  IF open = {} \/ \E c \in open : SideOf(positions[c]) = side
      THEN Refused("FlattenNotExclusive")
      ELSE Allocated(filled, [c \in Components |-> Amount(positions[c])])

\* The whole portfolio is closed: every component by what it has, dust and all.
FlattenPartition(positions, filled, side) ==
  LET open == {c \in Components : positions[c] # 0}
      closes == [c \in Components |-> Amount(positions[c])]
  IN  IF open = {} \/ \E c \in open : SideOf(positions[c]) = side
      THEN Refused("FlattenNotExclusive")
      ELSE IF ~Reconciled(FoldTotal(closes), filled) THEN Refused("FlattenNotReconciled")
      ELSE Division(closes)

\* The fill goes through zero: closes in full, opens with the rest.
CrossingPartition(positions, side, filled, targets, before) ==
  LET closes == [c \in Components |-> IF SideOf(positions[c]) = -side THEN Amount(positions[c]) ELSE 0]
      opening == AsDecimal(filled - FoldTotal(closes))
      wanted == [c \in Components |-> IF SideOf(targets[c]) = side THEN Amount(targets[c]) ELSE 0]
      opens == Allocated(opening, wanted)
      shares == [c \in Components |-> AsDecimal(closes[c] + opens.shares[c])]
      NoneOf(f) == \A c \in Components : f[c] = 0
  IN  IF NoneOf(closes) \/ ~Reconciled(FoldTotal(closes), Amount(before))
      THEN Refused("CrossingNotReconciled")
      ELSE IF opening <= 0 THEN Refused("NothingToOpen")
      ELSE IF NoneOf(wanted) THEN Refused("NoNewSideTarget")
      ELSE IF opens.error # "no" THEN opens
      ELSE IF ~Reconciled(FoldTotal(shares), filled) THEN Refused("PartitionNotReconciled")
      ELSE Division(shares)

\* The fill stays on its side: divided by what each component has left to do.
DirectionalPartition(positions, side, filled, targets) ==
  LET left == [c \in Components |->
                 LET delta == AsDecimal(targets[c] - positions[c])
                 IN  IF SideOf(delta) = side THEN Amount(delta) ELSE 0]
      allocated == Allocated(filled, left)
  IN  IF \A c \in Components : left[c] = 0 THEN Refused("NoMatchingTarget")
      ELSE IF allocated.error # "no" THEN allocated
      ELSE IF FoldTotal(allocated.shares) # filled THEN Refused("FillNotReconciled")
      ELSE allocated

PartitionFill(positions, side, filled, targets, after) ==
  LET before == after - (side * filled) IN
  IF after = 0 THEN FlattenPartition(positions, filled, side)
  ELSE IF Opposite(before, after)
  THEN CrossingPartition(positions, side, filled, targets, before)
  ELSE DirectionalPartition(positions, side, filled, targets)

\* The check of a closed portfolio episode: the component episodes that the
\* same fill closed account for its result, but for a unit of the last digit
\* each, which assign_source_episode_economic_residuals books on one of them.
Accounted(whole, parts) ==
  LET closed == {c \in Components : parts[c].closed # <<>>}
      Attributed(field) == SumFunctionOnSet(
        [c \in Components |-> IF c \in closed THEN parts[c].closed[1][field] ELSE 0], closed)
  IN  whole.closed # <<>> =>
        \A field \in {"gross", "fees"} :
          Amount(Attributed(field) - whole.closed[1][field]) <= Cardinality(closed)

-----------------------------------------------------------------------------
\* A decision: what the components want, netted; a reversal that is large
\* enough to stand on its own closes first.
LedgerDecide ==
  \E wanted \in [Components -> Contributions] :
    LET target == SumOf([c \in Components |-> wanted[c] * Lot])
        staged == IF Opposite(portfolio.position, target) /\ Amount(target) >= OpeningFloor * Lot
                  THEN 0 ELSE target
        delta == staged - portfolio.position
    IN  /\ ledgerEnded = "no" /\ ledgerPending = NoOrder
        /\ delta # 0
        /\ ledgerPending' = [side |-> SideOf(delta), quantity |-> Amount(delta),
                             targets |-> ComponentTargets(wanted, staged)]
        /\ UNCHANGED <<portfolio, components, fills, ledgerEnded, sinceFlat>>

\* The order fills in full or in part, in whole lots; an error ends the engine.
LedgerFill ==
  /\ ledgerPending # NoOrder /\ ledgerEnded = "no" /\ fills < MaxFills
  /\ \E lots \in 1 .. (ledgerPending.quantity \div Lot), price \in Prices :
       LET side == ledgerPending.side
           filled == lots * Lot
           after == portfolio.position + (side * filled)
           division == PartitionFill(Positions, side, filled, ledgerPending.targets, after)
           whole == ApplyFill(portfolio, side * filled, price)
           parts == [c \in Components |->
                       ApplyFill(components[c], side * division.shares[c], price)]
           moved == [c \in Components |-> parts[c].book.position]
       IN  /\ fills' = fills + 1
           /\ ledgerPending' = NoOrder
           /\ IF division.error # "no"
              THEN /\ ledgerEnded' = division.error
                   /\ UNCHANGED <<portfolio, components, sinceFlat>>
              ELSE /\ portfolio' = whole.book
                   /\ components' = [c \in Components |-> parts[c].book]
                   /\ ledgerEnded' = IF ~Accounted(whole, parts) THEN "Unaccounted"
                                     ELSE IF ~Reconciled(FoldTotal(moved), after)
                                     THEN "SourcesNotReconciled" ELSE "no"
                   /\ sinceFlat' = IF after = 0 THEN 0 ELSE sinceFlat + 1

LedgerNext == LedgerDecide \/ LedgerFill
LedgerSpec == LedgerInit /\ [][LedgerNext]_ledgerVars

-----------------------------------------------------------------------------
\* The most that a fill can add to what the components' books are off by:
\* half a digit for each rounding on its way to them.
DustOfFill == ((2 * ComponentCount) + 1) * Digit

\* The tolerances are never what ends the engine, until so many fills have
\* come since the portfolio was flat that their dust could have reached them;
\* and a divided fill adds up to itself exactly.
ReconciliationHolds ==
  /\ ledgerEnded # "FillNotReconciled"
  /\ ledgerEnded \in {"SourcesNotReconciled", "FlattenNotReconciled"} =>
       (sinceFlat + 1) * DustOfFill > DustTolerance

\* The books agree: a book's position is the one of its open episode, to the
\* last digit, which a reload demands (DualLedger::validate); no dust is left
\* behind in the components when the portfolio is flat
\* (partition_component_fill); and until then they add up to the portfolio
\* but for the dust of the fills since.
BooksAgree ==
  /\ \A b \in {portfolio} \cup Range(components) : b.position = b.open.quantity
  /\ portfolio.position = 0 => \A c \in Components : components[c] = EmptyBook
  /\ Amount(SumOf(Positions) - portfolio.position) <= sinceFlat * DustOfFill
  /\ ReconciliationHolds

\* A closed episode of the portfolio is accounted for by its components
\* ("accounting invariant failure for portfolio episode ...: unassignable
\* {scope} residual", live_shadow.rs, try_execute_pending).  It does not hold:
\* a component that leaves first closes its episode with an earlier fill,
\* which is not looked at when the portfolio's closes.
EpisodesAccounted == ledgerEnded # "Unaccounted"
=============================================================================
