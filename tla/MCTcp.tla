------------------------------- MODULE MCTcp -------------------------------
(* Requests of two segments, the second one short or too long for what is  *)
(* left of the window, and one of a single segment with an answer that     *)
(* fills the window, so that its end lies behind it.                       *)
EXTENDS Tcp

MCExchanges ==
    {[request |-> <<2, 3>>, answer |-> 1],
     [request |-> <<2, 4>>, answer |-> 0],
     [request |-> <<1>>, answer |-> 3]}
=============================================================================
