------------------------------ MODULE MCMarket ------------------------------
EXTENDS MarketCopy, TLC
MCLowered == ("a" :> 3) @@ ("b" :> 4)
\* Two devices in peace, and one in worlds where things go wrong.
MCWorlds ==
    {[devices |-> {"a", "b"}, commands |-> 3, ticks |-> 0, events |-> 0],
     [devices |-> {"a"}, commands |-> 1, ticks |-> 2, events |-> 1],
     [devices |-> {"a"}, commands |-> 2, ticks |-> 1, events |-> 1]}
====
