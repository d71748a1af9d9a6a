--------------------------- MODULE EntryGroupRefines ---------------------------
(***************************************************************************)
(* EntryGroup implements Publication, as long as neither an unlink nor a    *)
(* reload is lost.                                                          *)
(***************************************************************************)
EXTENDS EntryGroup

\* What a group is doing is where its thread is, which call that is, and, in
\* the application's hands, the state it was told.
Phase(g) ==
  CASE pc[g] \in {"gone", "crashed"} -> "dead"
    [] pc[g] \in {"mkdir", "writing"} -> "publishing"
    [] pc[g] = "unlinking" -> "withdrawing"
    [] pc[g] = "reloading" -> (CASE op[g] = "commit" -> "publishing"
                                 [] op[g] = "thaw"   -> "published"
                                 [] OTHER            -> "withdrawing")
    [] OTHER -> (CASE state[g] = "ESTABLISHED" -> "published"
                   [] state[g] = "REGISTERING" -> "publishing"
                   [] OTHER                    -> "idle")

\* The paths of the services in the table.
Wanted(g) == {FileOf[s] : s \in Services(g)}

PhaseOf  == [g \in Group |-> Phase(g)]
WantedOf == [g \in Group |-> Wanted(g)]
FreshOf  == [f \in File |-> loaded[f] = disk[f]]

P == INSTANCE Publication WITH
       Nobody <- None, phase <- PhaseOf, wanted <- WantedOf,
       held <- created, shown <- owner, fresh <- FreshOf

(* Publishing is what Publication says: through nested commits, failures,    *)
(* thaws and kills, a group says ESTABLISHED only with every service in a    *)
(* file it will withdraw, and with resolved told; and it is unpublished, or  *)
(* failed, or gone, only with none of its files left at any path             *)
(* (ga_entry_group_commit, cleanup_dnssd_files).                             *)
Publishes == P!Spec
================================================================================
