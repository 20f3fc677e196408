---------------------------- MODULE MCMpaPubSub ----------------------------
(* The instances of MpaPubSub that TLC explores. *)
EXTENDS MpaPubSub

CONSTANTS s1, s2, s3

TwoSubs == {s1, s2}
ThreeSubs == {s1, s2, s3}
=============================================================================
