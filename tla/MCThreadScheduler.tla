------------------------- MODULE MCThreadScheduler -------------------------
(* Two hashings, a second hashing of the first one's file, a completion, and *)
(* the synchronisation that follows the last hashing.                        *)
EXTENDS ThreadScheduler

CONSTANTS hash1, hash2, hash1again, completing, sync

MCTasks == {hash1, hash2, hash1again, completing, sync}

MCTypeOf == [t \in MCTasks |-> IF t = completing THEN "Completing"
                               ELSE IF t = sync THEN "AICH Syncronizing" ELSE "Hashing"]

MCDescOf == [t \in MCTasks |-> CASE t \in {hash1, hash1again} -> 1
                                 [] t = hash2 -> 2
                                 [] OTHER -> 0]

\* hash2 is that of a shared file: a part file's hashing has a high priority.
MCPriorityOf == [t \in MCTasks |-> CASE t = sync -> 0 [] t = hash2 -> 1 [] OTHER -> 2]

MCFollowUp == [t \in MCTasks |-> IF MCTypeOf[t] = "Hashing" THEN sync ELSE NoTask]
=============================================================================
