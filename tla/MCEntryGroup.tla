----------------------------- MODULE MCEntryGroup -----------------------------
(***************************************************************************)
(* Instances of EntryGroup for TLC: which group a service belongs to, and   *)
(* the path of its file.  MaxDepth is the only bound.                       *)
(***************************************************************************)
EXTENDS EntryGroupRefines, TLC

CONSTANTS g1, g2, s1, s2, f1, f2

\* Two services of one group, in files of their own.
OneGroupOf == s1 :> g1 @@ s2 :> g1

\* A service in each of two groups.
TwoGroupsOf == s1 :> g1 @@ s2 :> g2

OwnFiles   == s1 :> f1 @@ s2 :> f2
SharedFile == s1 :> f1 @@ s2 :> f1
===============================================================================
