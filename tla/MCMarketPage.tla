----------------------------- MODULE MCMarketPage -----------------------------
(* Two pairs, the second in prices of its own, two timeframes of one and two   *)
(* units of the clock, rings, charts and lists of trades of two.               *)
EXTENDS MarketPage, TLC
MCPairs == {"P", "Q"}
MCTimeframes == {1, 2}
MCPairPrices == "P" :> {1, 2} @@ "Q" :> {11}
Level(p) == [price |-> p, quantity |-> 1]
MCPairBooks == "P" :> {[bids |-> {Level(1)}, asks |-> {Level(3), [price |-> 2, quantity |-> 2]}]}
            @@ "Q" :> {[bids |-> {}, asks |-> {}], [bids |-> {Level(11)}, asks |-> {}]}
MCDefaultPair == "P"
=============================================================================
