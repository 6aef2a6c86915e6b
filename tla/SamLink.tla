---- MODULE SamLink ----
\* What the connection with the I2P router promises: two parties, the program
\* and the router, each of which gets what the other one said, whole, in order
\* and once.  How messages are cut into reads and writes is not seen here.
EXTENDS Naturals, Sequences, SequencesExt

VARIABLES asked,   \* what the program said
          got,     \* what the router got of it
          told,    \* what the router said
          heard    \* what the program got of it

Init == asked = <<>> /\ got = <<>> /\ told = <<>> /\ heard = <<>>

Says(said) == IsPrefix(said, said')

Gets(received, said) ==
    \/ received' = received
    \/ /\ Len(received) < Len(said)
       /\ received' = Append(received, said[Len(received) + 1])

Program == Gets(heard, told) /\ Says(asked) /\ UNCHANGED <<got, told>>
Router  == Gets(got, asked) /\ Says(told) /\ UNCHANGED <<asked, heard>>

Next == Program \/ Router

vars == <<asked, got, told, heard>>

Spec == Init /\ [][Next]_vars
====
