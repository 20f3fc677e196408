---------------------------- MODULE MCFdRegistry ----------------------------
(* The instances of FdRegistry that TLC explores. *)
EXTENDS FdRegistry

CONSTANTS t1, t2, t3, h1, h2, h3

OneThread == {t1}
TwoThreads == {t1, t2}
ThreeThreads == {t1, t2, t3}
TwoHandles == {h1, h2}
ThreeHandles == {h1, h2, h3}

\* With four slots, 4 and 8 share a home and 6 has one of its own; with three,
\* 3 and 6 share one.
HomesOf4 == {4, 6, 8}
OwnHome == {6}
SharedHome == {3, 6}
OneFd == {3}
=============================================================================
