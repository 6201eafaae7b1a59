----------------------------- MODULE MCFtpServer -----------------------------
(* FtpServer for TLC: clients take the slots in any order, so they are alike. *)
EXTENDS FtpServer, TLC

Symmetry == Permutations(Slots)
=============================================================================
