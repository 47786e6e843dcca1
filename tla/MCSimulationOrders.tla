------------------------- MODULE MCSimulationOrders -------------------------
EXTENDS SimulationOrders, TLC

CONSTANTS i1, i2, s1

Body(i, s, isolated, side, n, reduce) ==
  [intent |-> i, signal |-> s, isolated |-> isolated, side |-> side, lots |-> n,
   reduce |-> reduce]

\* Two orders on one signal, a sale that closes it, a sale that turns the
\* position, and an order of the factor factory.
MCRequests ==
  {Body(i1, s1, FALSE, "buy", 1, FALSE), Body(i2, s1, FALSE, "buy", 1, FALSE),
   Body(i2, None, FALSE, "sell", 1, TRUE), Body(i2, None, FALSE, "sell", 2, FALSE),
   Body(i1, None, TRUE, "buy", 1, FALSE)}

MCPrices == <<3, 5, 2>>

Symmetry == Permutations(Threads)
=============================================================================
