--------------------------- MODULE MCUploadQueue ---------------------------
(***************************************************************************)
(* Small instances of UploadQueue.                                         *)
(***************************************************************************)
EXTENDS UploadQueue, TLC

CONSTANTS c1, c2      \* two of the clients

\* Every client has its own I2P destination and its own user hash.
OwnDest == [c \in Clients |-> c]
NoTwins == [c \in Clients |-> c]

\* c1 and c2 say they are the same user.
Twins == [c \in Clients |-> IF c = c1 THEN c2 ELSE IF c = c2 THEN c1 ELSE c]

\* Clients that differ in nothing.
Peers == Permutations(IdChangers) \union Permutations(Clients \ IdChangers)
=============================================================================
