---------------------------- MODULE MCFullDuplex -----------------------------
(***************************************************************************)
(* The letters 'a' to 'e' through buffers of two cells: w and r wrap around *)
(* at 4, within the alphabet.                                              *)
(***************************************************************************)
EXTENDS FullDuplex

MCFirst == 97
MCLast == 101
=============================================================================
