---------------------------- MODULE MCListFiles ----------------------------
(***************************************************************************)
(* Small instances of ListFiles.                                           *)
(***************************************************************************)
EXTENDS ListFiles, TLC

OneSpelling == [s \in Spellings |-> s]

BothModes == {"allow", "deny"}
OnlyAllow == {"allow"}

ListSymmetry == Permutations(Calls) \cup Permutations(Keys)
=============================================================================
