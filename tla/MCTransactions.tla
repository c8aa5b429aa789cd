--------------------------- MODULE MCTransactions ---------------------------
(* Small instances of Transactions for TLC.                                *)
EXTENDS Transactions, TLC

CONSTANTS d1, d2, c1

MCOneData        == {d1}
MCTwoData        == {d1, d2}
MCNone           == {}
MCOneControl     == {c1}

\* The peer numbers its own primaries like we number our first request.
MCPeerIds == {1}
=============================================================================
