----------------------------- MODULE LedgerLots -----------------------------
(***************************************************************************)
(* The arithmetic of positions: average cost and realised result as the    *)
(* ledger computes them (domains/ledger/domain.py: apply_trade,            *)
(* compute_positions), as the simulation account computes them             *)
(* (domains/simulation/service.py: account_snapshot), and the FIFO         *)
(* matching of the performance view (match_closed_trades).                 *)
(*                                                                         *)
(* One instrument, fees zero.  A trade is [side, quantity, price]; amounts *)
(* are whole numbers of 1/Scale, so that the average cost over the few     *)
(* trades of an instance is exact and "about zero" is zero.                *)
(***************************************************************************)
EXTENDS Integers, SequencesExt

Scale == 36

Flat == [quantity |-> 0, cost |-> 0, realized |-> 0]

Smaller(a, b) == IF a <= b THEN a ELSE b

Added(size, cost, trade) ==
  (size * cost + trade.quantity * trade.price * Scale) \div (size + trade.quantity)

\* A trade in the direction of the position moves its average cost; one
\* against it realises a result, and beyond zero opens at the trade's price.
ApplyTrade(p, trade) ==
  LET buy    == trade.side = "buy"
      held   == IF buy THEN -p.quantity ELSE p.quantity     \* against the trade
      closed == Smaller(trade.quantity, held)
      gain   == IF buy THEN p.cost - trade.price * Scale ELSE trade.price * Scale - p.cost
      q      == IF buy THEN p.quantity + trade.quantity ELSE p.quantity - trade.quantity
  IN  IF held <= 0
      THEN [quantity |-> q, cost |-> Added(-held, p.cost, trade), realized |-> p.realized]
      ELSE [quantity |-> q,
            cost     |-> CASE trade.quantity > held -> trade.price * Scale
                           [] trade.quantity < held -> p.cost
                           [] OTHER                 -> 0,
            realized |-> p.realized + closed * gain]

\* compute_positions, for the one instrument.
ComputePosition(trades) == FoldLeft(ApplyTrade, Flat, trades)

\* The loop of account_snapshot: the cost is only touched when the position
\* reaches zero or reverses.
ApplyExecution(p, trade) ==
  LET pnl(size, gain) == p.realized + Smaller(trade.quantity, size) * gain
      up   == p.quantity + trade.quantity
      down == p.quantity - trade.quantity
      at   == trade.price * Scale
  IN  IF trade.side = "buy"
      THEN IF p.quantity >= 0
           THEN [quantity |-> up, cost |-> Added(p.quantity, p.cost, trade),
                 realized |-> p.realized]
           ELSE [quantity |-> up,
                 cost     |-> IF up < 0 THEN p.cost ELSE IF up > 0 THEN at ELSE 0,
                 realized |-> pnl(-p.quantity, p.cost - at)]
      ELSE IF p.quantity <= 0
           THEN [quantity |-> down, cost |-> Added(-p.quantity, p.cost, trade),
                 realized |-> p.realized]
           ELSE [quantity |-> down,
                 cost     |-> IF down > 0 THEN p.cost ELSE IF down < 0 THEN at ELSE 0,
                 realized |-> pnl(p.quantity, at - p.cost)]

AccountPosition(trades) == FoldLeft(ApplyExecution, Flat, trades)

\* Mutant: a matched lot is not taken off the open ones.
MatchLotStaysOpen(m, trade) ==
  LET sign == IF trade.side = "buy" THEN 1 ELSE -1
  IN  IF m.open # <<>> /\ Head(m.open).sign # sign
      THEN [open   |-> m.open,
            closed |-> m.closed + Head(m.open).sign * (trade.price - Head(m.open).price) * Scale]
      ELSE [open   |-> Append(m.open, [sign |-> sign, price |-> trade.price]),
            closed |-> m.closed]

\* One lot of a trade: it closes the oldest open lot of the other direction,
\* or is left open.
MatchLot(m, trade) ==
  LET sign == IF trade.side = "buy" THEN 1 ELSE -1
  IN  IF m.open # <<>> /\ Head(m.open).sign # sign
      THEN [open   |-> Tail(m.open),
            closed |-> m.closed + Head(m.open).sign * (trade.price - Head(m.open).price) * Scale]
      ELSE [open   |-> Append(m.open, [sign |-> sign, price |-> trade.price]),
            closed |-> m.closed]

MatchTrade(m, trade) ==
  FoldLeft(LAMBDA a, i : MatchLot(a, trade), m, [i \in 1..trade.quantity |-> i])

\* match_closed_trades: the lots still open and the gross result of the others.
MatchClosed(trades) == FoldLeft(MatchTrade, [open |-> <<>>, closed |-> 0], trades)

-----------------------------------------------------------------------------
\* What was paid and received, for the identity both methods must keep.
Paid(trade) ==
  (IF trade.side = "buy" THEN -1 ELSE 1) * trade.quantity * trade.price * Scale

CashFlow(trades)  == SumFunction([n \in DOMAIN trades |-> Paid(trades[n])])

OpenLotsAtCost(m) == SumFunction([n \in DOMAIN m.open |-> m.open[n].sign * m.open[n].price * Scale])

OpenLots(m)       == SumFunction([n \in DOMAIN m.open |-> m.open[n].sign])
=============================================================================
