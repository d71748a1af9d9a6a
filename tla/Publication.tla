------------------------------ MODULE Publication ------------------------------
(***************************************************************************)
(* What publishing promises, without directories, loops and system calls:   *)
(* a group is idle, publishing, published or withdrawing.  A group is only  *)
(* published once every path it wants is held, and it is only idle again    *)
(* once nothing it wrote is left to be seen.  Groups write to the paths in  *)
(* any order and may overwrite each other.                                  *)
(***************************************************************************)
CONSTANTS
  Group,
  File,
  Nobody       \* no group

VARIABLES
  phase,       \* what each group is doing
  wanted,      \* the paths of its services
  held,        \* the paths it has to withdraw
  shown,       \* whose file is at a path, as long as that group lives
  fresh        \* has systemd-resolved read what is at a path now?

vars == <<phase, wanted, held, shown, fresh>>

Init ==
  /\ phase  = [g \in Group |-> "idle"]
  /\ wanted = [g \in Group |-> {}]
  /\ held   = [g \in Group |-> {}]
  /\ shown  = [f \in File |-> Nobody]
  /\ fresh  = [f \in File |-> TRUE]

InUse(g) == phase[g] \in {"idle", "publishing", "published"}
AllFresh == [f \in File |-> TRUE]

Want(g, f) ==
  /\ InUse(g)
  /\ wanted' = [wanted EXCEPT ![g] = @ \cup {f}]
  /\ UNCHANGED <<phase, held, shown, fresh>>

Begin(g) ==
  /\ phase[g] \in {"idle", "published"}
  /\ phase' = [phase EXCEPT ![g] = "publishing"]
  /\ UNCHANGED <<wanted, held, shown, fresh>>

\* A path is written while publishing, and again while it is held.
Put(g, f) ==
  /\ \/ phase[g] = "publishing" /\ f \in wanted[g]
     \/ phase[g] = "published"  /\ f \in held[g]
  /\ held'  = [held EXCEPT ![g] = @ \cup {f}]
  /\ shown' = [shown EXCEPT ![f] = g]
  /\ \E b \in BOOLEAN : fresh' = [fresh EXCEPT ![f] = b]
  /\ UNCHANGED <<phase, wanted>>

Succeed(g) ==
  /\ phase[g] = "publishing"
  /\ wanted[g] \subseteq held[g]
  /\ phase' = [phase EXCEPT ![g] = "published"]
  /\ fresh' = AllFresh
  /\ UNCHANGED <<wanted, held, shown>>

\* A failure, a reset, the end of the object.
GiveUp(g) ==
  /\ InUse(g) /\ held[g] # {}
  /\ phase' = [phase EXCEPT ![g] = "withdrawing"]
  /\ UNCHANGED <<wanted, held, shown, fresh>>

Take(g, f) ==
  /\ phase[g] = "withdrawing" /\ f \in held[g]
  /\ shown' = [shown EXCEPT ![f] = Nobody]
  /\ \E b \in BOOLEAN : fresh' = [fresh EXCEPT ![f] = b]
  /\ UNCHANGED <<phase, wanted, held>>

Release(g) ==
  /\ phase[g] = "withdrawing"
  /\ \A f \in File : shown[f] # g
  /\ held' = [held EXCEPT ![g] = {}]
  /\ UNCHANGED <<phase, wanted, shown, fresh>>

\* What is left of a group that holds nothing: an object with its services or
\* without, or none.
ComesToRest(g) ==
  /\ held[g] = {}
  /\ \/ phase' = [phase EXCEPT ![g] = "idle"] /\ UNCHANGED wanted
     \/ /\ phase'  \in {[phase EXCEPT ![g] = p] : p \in {"idle", "dead"}}
        /\ wanted' = [wanted EXCEPT ![g] = {}]
  /\ UNCHANGED <<held, shown>>

Withdrawn(g) ==
  /\ phase[g] = "withdrawing"
  /\ ComesToRest(g)
  /\ fresh' = AllFresh

NothingToWithdraw(g) ==
  /\ InUse(g)
  /\ ComesToRest(g)
  /\ UNCHANGED fresh

\* The process is killed; what it wrote is nobody's.
Die(g) ==
  /\ phase[g] # "dead"
  /\ phase'  = [phase EXCEPT ![g] = "dead"]
  /\ wanted' = [wanted EXCEPT ![g] = {}]
  /\ held'   = [held EXCEPT ![g] = {}]
  /\ shown'  = [f \in File |-> IF shown[f] = g THEN Nobody ELSE shown[f]]
  /\ UNCHANGED fresh

Renew(g) ==
  /\ phase[g] = "dead"
  /\ phase' = [phase EXCEPT ![g] = "idle"]
  /\ UNCHANGED <<wanted, held, shown, fresh>>

Announce ==
  /\ fresh' = AllFresh
  /\ UNCHANGED <<phase, wanted, held, shown>>

Next ==
  \/ Announce
  \/ \E g \in Group :
       \/ Begin(g) \/ Succeed(g) \/ GiveUp(g) \/ Release(g) \/ Withdrawn(g)
       \/ NothingToWithdraw(g) \/ Die(g) \/ Renew(g)
       \/ \E f \in File : Want(g, f) \/ Put(g, f) \/ Take(g, f)

Spec == Init /\ [][Next]_vars

-----------------------------------------------------------------------------
(* Properties                                                              *)

TypeOK ==
  /\ phase  \in [Group -> {"idle", "publishing", "published", "withdrawing", "dead"}]
  /\ wanted \in [Group -> SUBSET File]
  /\ held   \in [Group -> SUBSET File]
  /\ shown  \in [File -> Group \cup {Nobody}]
  /\ fresh  \in [File -> BOOLEAN]

(* Who looks at the directory while a group is unpublished, failed or gone   *)
(* sees no file of it: whatever it wrote was withdrawn before.               *)
NothingShown ==
  \A g \in Group : phase[g] \in {"idle", "dead"} => \A f \in File : shown[f] # g
================================================================================
