---------------------------- MODULE MCMySocket ----------------------------
(***************************************************************************)
(* Small instances of MySocket for TLC.                                    *)
(***************************************************************************)
EXTENDS MySocket

CONSTANTS c1, c2

TwoClients == { c1, c2 }
AllOrders == { "quit", "exit", "state" }
=============================================================================
