----------------------------- MODULE MCCollect -----------------------------
(***************************************************************************)
(* Small instances of Collect: two rules that name different sources, one  *)
(* of which counts channels.                                               *)
(***************************************************************************)
EXTENDS Collect, TLC

MCRules == {"pingOneml", "multiAmboss"}
MCReads == [r \in MCRules |-> IF r = "pingOneml" THEN {"ping", "oneml"} ELSE {"amboss"}]
MCMulti == {"multiAmboss"}

MCOneRule == {"ping"}
MCOneReads == [r \in MCOneRule |-> {"ping"}]

MCSymmetry == Permutations(Calls) \cup Permutations(Openings)
=============================================================================
