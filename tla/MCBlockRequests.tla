---- MODULE MCBlockRequests ----
(* The block requests of a file of two parts, with a source that has all   *)
(* of it and one that lacks the last part.                                 *)
EXTENDS BlockRequests, TLC

CONSTANTS all, some

TwoSources == {all, some}
Has == (all :> {0, 1}) @@ (some :> {0})
====
