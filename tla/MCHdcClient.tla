--------------------------- MODULE MCHdcClient ---------------------------
(* Two clients; the pairs of commands whose order against each other matters. *)
EXTENDS HdcClient

MCClients == {"c1", "c2"}

MCCommandLines ==
    {[c1 |-> "run", c2 |-> "run"], [c1 |-> "run -t", c2 |-> "start"],
     [c1 |-> "run", c2 |-> "kill -r"], [c1 |-> "wait", c2 |-> "kill"],
     [c1 |-> "list", c2 |-> "start -r"], [c1 |-> "start", c2 |-> "wait"]}
=============================================================================
