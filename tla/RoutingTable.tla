---- MODULE RoutingTable ----
(***************************************************************************)
(* What the Kad routing table promises to the rest of Kad: it knows some    *)
(* contacts, each by its id and its address, and no address twice.  How the *)
(* contacts are kept in zones and bins (module RoutingZone) is of no concern *)
(* to its users: splitting and merging zones is invisible here.             *)
(***************************************************************************)
EXTENDS FiniteSets

CONSTANTS
    Ids,    \* the ids of other nodes, as distances from our own
    Addrs   \* the addresses of other nodes

VARIABLE known  \* a partial function from ids to addresses

With(f, x, y) == [z \in DOMAIN f \cup {x} |-> IF z = x THEN y ELSE f[z]]

Taken == {known[id] : id \in DOMAIN known}

Init == DOMAIN known = {}

Learn(id, a) ==
    /\ id \notin DOMAIN known /\ a \notin Taken
    /\ known' = With(known, id, a)

Move(id, a) ==
    /\ a \notin Taken
    /\ known' = With(known, id, a)

Forget ==
    /\ DOMAIN known' \subseteq DOMAIN known
    /\ known' = [id \in DOMAIN known' |-> known[id]]

(* Kad starts with the contacts of a file.                                 *)
Load ==
    /\ DOMAIN known = {}
    /\ DOMAIN known' \subseteq Ids
    /\ known' \in [DOMAIN known' -> Addrs]
    /\ \A x, y \in DOMAIN known' : known'[x] = known'[y] => x = y

Next ==
    \/ \E id \in Ids, a \in Addrs : Learn(id, a)
    \/ \E id \in DOMAIN known, a \in Addrs : Move(id, a)
    \/ Forget
    \/ Load

Spec == Init /\ [][Next]_known
====
