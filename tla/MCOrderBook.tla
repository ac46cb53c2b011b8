----------------------------- MODULE MCOrderBook -----------------------------
(***************************************************************************)
(* Values of the order book's constants for TLC.                           *)
(***************************************************************************)
EXTENDS OrderBook

CONSTANTS aapl, msft, b1, b2

MCMessages == {<<aapl>>, <<msft>>, <<aapl, msft>>, <<msft, msft>>, <<aapl, Malformed>>}
MCRequested == {<<aapl, msft>>, <<msft>>}
MCLimit == [c \in Classes |-> 1]
=============================================================================
