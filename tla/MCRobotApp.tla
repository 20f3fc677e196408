----------------------------- MODULE MCRobotApp -----------------------------
EXTENDS RobotApp

Smooth(n, s) == [kind |-> "smooth", n |-> n, speed |-> s]
Checked(n) == [kind |-> "checked", n |-> n, speed |-> 0]
Instant == [kind |-> "instant", n |-> 0, speed |-> 0]
Unknown == [kind |-> "unknown", n |-> 0, speed |-> 0]

\* With Accel = 8 and a top speed of 4 a move stops short by one unit or not
\* at all: 6 = 4 + 2 arrives, 5 = 4 + 1 does not.
MCFiles == { <<Instant, Checked(3), Checked(2)>>,
             <<Smooth(6, 4), Checked(2)>>,
             <<Checked(2), Smooth(5, 4), Checked(1)>>,
             <<Checked(1), Smooth(0, 4), Unknown, Checked(2)>>,
             <<>> }
=============================================================================
