------------------------- MODULE MCRunnerReconcile -------------------------
EXTENDS RunnerReconcile, TLC

CONSTANTS a1, a2

Symmetry == Permutations({a1, a2})

\* Bound: the balances are looked at without an order, or with one that has had
\* no answer and no trade.
OneAtATime ==
  row = NoOrders \/ (account = NoKeys /\ baseline = NoKeys) \/ (known = {} /\ trades = <<>>)

\* Bound: with an order, the passes beside the watched one are those that have
\* its one trade to import while the watched one runs; the lists do not show
\* them the order, and they ask for it in the words of the lists.
OthersImport ==
  row # NoOrders =>
    \A p \in {q \in Passes \ {Watched} : Running(q)} :
      /\ Running(Watched) /\ known # {} /\ Len(trades) = 1 /\ moves = 0
      /\ pc[p] # "account" => extFills[p] # {}
      /\ pc[p] \in {"fills", "recover"} => locKnown[p] # {} /\ locFills[p] = {}
      /\ pc[p] # "recover" => ext[p] = NoOrders
      /\ \A o \in Orders : ext[p][o] \in {Absent} \cup {ListWord[v] : v \in States}
=============================================================================
