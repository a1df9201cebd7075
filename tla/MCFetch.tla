------------------------------ MODULE MCFetch ------------------------------
(***************************************************************************)
(* A small instance of Fetch: the spacings are shorter than the first      *)
(* sleep, as in the code.  A ping may be in time, measured later than its  *)
(* timeout, and too late for 16 bits.                                      *)
(***************************************************************************)
EXTENDS Fetch

TwoApis == {"amboss", "oneml"}
AllSources == TwoApis \cup {"ping", "gossip"}
ShortSpacing == [a \in TwoApis |-> IF a = "amboss" THEN 2 ELSE 1]
SomeTimes == {20, 7000, 70000}
=============================================================================
