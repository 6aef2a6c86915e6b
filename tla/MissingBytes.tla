---- MODULE MissingBytes ----
\* What a gap list promises: it is the set of the bytes of a file that are
\* still missing.  A call adds a range to them or removes one, and until it
\* returns nothing else happens to them.
EXTENDS Integers

CONSTANT FileSize

VARIABLES missing,
          doing      \* the call under way

vars == <<missing, doing>>

Bytes == 0 .. FileSize - 1

Start(op) == doing = "idle" /\ doing' = op

Lose(start, end)    == Start("add")  /\ missing' = missing \cup (start .. end)

Receive(start, end) == Start("fill") /\ missing' = missing \ (start .. end)

Done == doing # "idle" /\ doing' = "idle" /\ UNCHANGED missing

Reset == doing = "idle" /\ missing' \in {{}, Bytes} /\ UNCHANGED doing

Init == missing \in {{}, Bytes} /\ doing = "idle"

Next ==
    \/ \E start, end \in Bytes : start <= end /\ (Lose(start, end) \/ Receive(start, end))
    \/ Done
    \/ Reset

Spec == Init /\ [][Next]_vars
====
