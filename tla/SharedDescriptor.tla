-------------------------- MODULE SharedDescriptor --------------------------
(***************************************************************************)
(* What SharedFileDescription promises: descriptors have owners, a         *)
(* descriptor that has lost its last owner is closed, once, and none is    *)
(* closed before that.                                                     *)
(***************************************************************************)
CONSTANTS Handles,  \* the SharedFileDescription objects
          Fds,      \* the descriptors
          NoFd      \* what an empty object holds

VARIABLES own,  \* the descriptor each object owns a share of
          open  \* the descriptors that are open

svars == <<own, open>>

Owners(f) == {h \in Handles : own[h] = f}

SInit == /\ own = [h \in Handles |-> NoFd]
         /\ open = {}

Acquire(h, f) == /\ own[h] = NoFd
                 /\ f \notin open
                 /\ open' = open \cup {f}
                 /\ own' = [own EXCEPT ![h] = f]

Share(h, g) == /\ own[h] = NoFd
               /\ own[g] # NoFd
               /\ own' = [own EXCEPT ![h] = own[g]]
               /\ UNCHANGED open

Pass(h, g) == /\ own[h] = NoFd
              /\ own[g] # NoFd
              /\ own' = [own EXCEPT ![h] = own[g], ![g] = NoFd]
              /\ UNCHANGED open

Drop(h) == /\ own[h] # NoFd
           /\ own' = [own EXCEPT ![h] = NoFd]
           /\ UNCHANGED open

CloseUnowned(f) == /\ f \in open
                   /\ Owners(f) = {}
                   /\ open' = open \ {f}
                   /\ UNCHANGED own

SNext == \/ \E h \in Handles : \/ \E f \in Fds : Acquire(h, f)
                               \/ \E g \in Handles : Share(h, g) \/ Pass(h, g)
                               \/ Drop(h)
         \/ \E f \in Fds : CloseUnowned(f)

SSpec == SInit /\ [][SNext]_svars /\ \A f \in Fds : WF_svars(CloseUnowned(f))
=============================================================================
