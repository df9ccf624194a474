-------------------------- MODULE MCMarketStore --------------------------
(* Instances of MarketStore for TLC: two workers of the live mode, each with an entry of  *)
(* its own, or the one worker of the demo mode, which writes every entry.                 *)
EXTENDS MarketStore

OwnNews == [w \in Refreshers |-> IF w = "offers" THEN {"p2p"} ELSE {"fee"}]
AllNews == [w \in Refreshers |-> Keys]
=============================================================================
