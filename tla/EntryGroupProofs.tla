--------------------------- MODULE EntryGroupProofs ---------------------------
(***************************************************************************)
(* Theorems about EntryGroup, for any number of groups, services, paths and *)
(* TXT keys, any nesting of commits, and both ways of every switch unless a *)
(* theorem says otherwise.  Last, that EntryGroup implements Publication as  *)
(* long as neither an unlink nor a reload is lost.                          *)
(***************************************************************************)
EXTENDS EntryGroupRefines, TLAPS

-----------------------------------------------------------------------------
(* The inductive invariant                                                 *)

\* The paths that the services of g can be given.
Paths(g) == {FileOf[s] : s \in {t \in Service : GroupOf[t] = g}}

Withdrawing == {"abort", "reset", "dispose"}

\* What holds inside and between the calls of one group.
GroupInv(g) ==
  /\ \A s \in todo[g] : pc[g] = "writing" /\ GroupOf[s] = g /\ svc[s] # None
  /\ togo[g] # {} => pc[g] = "unlinking"
  /\ togo[g] \subseteq created[g]
  /\ created[g] \subseteq Paths(g)
  /\ created[g] # {} \/ pc[g] = "writing" => dir
  /\ pc[g] \in {"unlinking", "reloading"} <=> op[g] # "none"
  /\ pc[g] = "unlinking" => op[g] \in Withdrawing
  /\ pc[g] = "reloading" /\ op[g] \in Withdrawing => created[g] = {}
  /\ op[g] = "thaw" => state[g] = "ESTABLISHED"
  /\ pc[g] \in {"gone", "crashed"} =>
       created[g] = {} /\ \A s \in Service : GroupOf[s] = g => svc[s] = None
  /\ pc[g] \in {"app", "mkdir"} /\ state[g] \in {"UNCOMMITED", "FAILURE"} =>
       created[g] = {}

IInv == TypeOK /\ \A g \in Group : GroupInv(g)

-----------------------------------------------------------------------------
(* Type correctness                                                        *)

Op == {"none", "commit", "abort", "reset", "dispose", "thaw"}

\* The end of a call leaves its four variables in their types.
LEMMA FinishType ==
  ASSUME TypeOK, NEW g \in Group, NEW call \in Op, Finish(g, call)
  PROVE  /\ state' \in [Group -> GaEntryGroupState]
         /\ svc'   \in [Service -> Handle \cup {None}]
         /\ pc'    \in [Group -> {"app", "mkdir", "writing", "unlinking",
                                  "reloading", "gone", "crashed"}]
         /\ op'    \in [Group -> Op]
BY DEF TypeOK, Finish, Op, GaEntryGroupState

\* So does cleanup_dnssd_files, whether there is something to unlink or not.
LEMMA CleanupType ==
  ASSUME TypeOK, NEW g \in Group, NEW call \in Op, Cleanup(g, call)
  PROVE  /\ state' \in [Group -> GaEntryGroupState]
         /\ svc'   \in [Service -> Handle \cup {None}]
         /\ pc'    \in [Group -> {"app", "mkdir", "writing", "unlinking",
                                  "reloading", "gone", "crashed"}]
         /\ op'    \in [Group -> Op]
         /\ togo'  \in [Group -> SUBSET File]
<1>1. CASE Finish(g, call) /\ UNCHANGED togo
  BY <1>1, FinishType DEF TypeOK
<1>2. CASE /\ pc'   = [pc EXCEPT ![g] = "unlinking"]
           /\ op'   = [op EXCEPT ![g] = call]
           /\ togo' = [togo EXCEPT ![g] = created[g]]
           /\ UNCHANGED <<state, svc>>
  BY <1>2 DEF TypeOK, Op
<1> QED
  BY <1>1, <1>2 DEF Cleanup

\* Writing the file of a handle that is in use leaves content and a group.
LEMMA PutFileType ==
  ASSUME TypeOK, NEW s \in Service, svc[s] # None, PutFile(s)
  PROVE  /\ disk'  \in [File -> Content \cup {None}]
         /\ owner' \in [File -> Group \cup {None}]
<1>1. FileOf[s] \in File /\ GroupOf[s] \in Group
  BY FileOfType, GroupOfType
<1>2. svc[s] \in Handle
  BY DEF TypeOK
<1>3. Shown(s) \in Content
  BY <1>2 DEF Shown, Content, Handle
<1> QED
  BY <1>1, <1>3 DEF PutFile, TypeOK

\* A handle that is in use keeps its type through the calls that change it.
LEMMA HandleType ==
  ASSUME TypeOK, NEW s \in Service, svc[s] # None
  PROVE  /\ \A b \in BOOLEAN : [svc[s] EXCEPT !.frozen = b] \in Handle
         /\ \A k \in Key, v \in Value \cup {None} :
              [svc[s] EXCEPT !.txt[k] = v, !.dirty = TRUE] \in Handle
         /\ [svc EXCEPT ![s].frozen = FALSE, ![s].dirty = FALSE]
              \in [Service -> Handle \cup {None}]
         /\ [svc EXCEPT ![s].file = FileOf[s], ![s].dirty = FALSE]
              \in [Service -> Handle \cup {None}]
<1>1. svc[s] \in Handle /\ svc[s].txt \in Txt
  BY DEF TypeOK, Handle
<1>2. FileOf[s] \in File
  BY FileOfType
<1>3. \A k \in Key, v \in Value \cup {None} : [svc[s].txt EXCEPT ![k] = v] \in Txt
  BY <1>1 DEF Txt
<1>4. \A b \in BOOLEAN : [svc[s] EXCEPT !.frozen = b] \in Handle
  BY <1>1 DEF Handle
<1>5. \A k \in Key, v \in Value \cup {None} :
        [svc[s] EXCEPT !.txt[k] = v, !.dirty = TRUE] \in Handle
  BY <1>1, <1>3 DEF Handle
<1>6. [svc EXCEPT ![s].frozen = FALSE, ![s].dirty = FALSE]
        \in [Service -> Handle \cup {None}]
  BY <1>1 DEF TypeOK, Handle
<1>7. [svc EXCEPT ![s].file = FileOf[s], ![s].dirty = FALSE]
        \in [Service -> Handle \cup {None}]
  BY <1>1, <1>2 DEF TypeOK, Handle
<1> QED
  BY <1>4, <1>5, <1>6, <1>7

\* A new group, a new process: every variable has its type.
LEMMA InitType == Init => TypeOK
BY DepthType DEF Init, TypeOK, GaEntryGroupState

\* Calls on a service handle.
LEMMA ServiceCallType ==
  ASSUME TypeOK, NEW s \in Service, ServiceCall(s)
  PROVE  TypeOK'
<1> USE DEF AppRuns, local, shared
<1>1. GroupOf[s] \in Group
  BY GroupOfType
<1>2. ASSUME NEW t \in Txt, AddService(s, t)
      PROVE  TypeOK'
  <2>1. [txt |-> t, frozen |-> FALSE, file |-> None, dirty |-> TRUE] \in Handle
    BY DEF Handle
  <2> QED
    BY <1>2, <2>1 DEF AddService, TypeOK
<1>3. ASSUME NEW h \in Handle, UpdateHandle(s, h)
      PROVE  TypeOK'
  BY <1>3 DEF UpdateHandle, TypeOK
<1>4. ASSUME NEW k \in Key, NEW v \in Value \cup {None}, SetTxt(s, k, v)
      PROVE  TypeOK'
  BY <1>3, <1>4, HandleType DEF SetTxt, UpdateHandle
<1>5. CASE Freeze(s)
  BY <1>3, <1>5, HandleType DEF Freeze, UpdateHandle
<1>6. CASE ThawInMemory(s)
  BY <1>3, <1>6, HandleType DEF ThawInMemory
<1>7. CASE ThawFails(s)
  BY <1>3, <1>7, HandleType DEF ThawFails
<1>8. CASE ThawWrites(s)
  <2>1. svc[s] # None /\ PutFile(s)
    BY <1>8 DEF ThawWrites
  <2>2. /\ disk'  \in [File -> Content \cup {None}]
        /\ owner' \in [File -> Group \cup {None}]
        /\ svc'   \in [Service -> Handle \cup {None}]
    BY <1>8, <2>1, PutFileType, HandleType DEF ThawWrites
  <2> QED
    BY <1>1, <1>8, <2>2 DEF ThawWrites, TypeOK
<1> QED
  BY <1>2, <1>4, <1>5, <1>6, <1>7, <1>8 DEF ServiceCall

\* Calls on a group, the end of its handlers, a crash.
LEMMA GroupCallType ==
  ASSUME TypeOK, NEW g \in Group, GroupCall(g) \/ HandlersReturn(g) \/ Crash(g)
  PROVE  TypeOK'
<1> USE DEF AppRuns, local, shared
<1>1. CASE Commit(g)
  BY <1>1, DepthType DEF Commit, TypeOK, GaEntryGroupState
<1>2. CASE Reset(g)
  BY <1>2, CleanupType DEF Reset, TypeOK, Op
<1>3. CASE Dispose(g)
  BY <1>3, CleanupType DEF Dispose, TypeOK, Op
<1>4. CASE NewGroup(g)
  BY <1>4 DEF NewGroup, TypeOK, GaEntryGroupState
<1>5. CASE HandlersReturn(g)
  BY <1>5, DepthType DEF HandlersReturn, TypeOK
<1>6. CASE Crash(g)
  BY <1>6, DepthType DEF Crash, TypeOK
<1> QED
  BY <1>1, <1>2, <1>3, <1>4, <1>5, <1>6 DEF GroupCall

\* What the library does between two calls.
LEMMA StepType ==
  ASSUME IInv, NEW g \in Group, Step(g)
  PROVE  TypeOK'
<1> USE DEF IInv
<1> USE DEF local, shared
<1>1. CASE EnsureDir(g)
  BY <1>1 DEF EnsureDir, TypeOK, Services
<1>2. CASE EnsureDirFails(g)
  BY <1>2 DEF EnsureDirFails, TypeOK, GaEntryGroupState
<1>3. ASSUME NEW s \in Service, WriteService(g, s)
      PROVE  TypeOK'
  <2>0. svc[s] # None
    BY <1>3 DEF WriteService, GroupInv
  <2>1. FileOf[s] \in File
    BY FileOfType
  <2>2. /\ disk'  \in [File -> Content \cup {None}]
        /\ owner' \in [File -> Group \cup {None}]
        /\ svc'   \in [Service -> Handle \cup {None}]
    BY <1>3, <2>0, PutFileType, HandleType DEF WriteService
  <2> QED
    BY <1>3, <2>1, <2>2 DEF WriteService, TypeOK
<1>4. CASE WriteFails(g)
  BY <1>4, CleanupType DEF WriteFails, TypeOK, Op
<1>5. CASE AllWritten(g)
  BY <1>5 DEF AllWritten, TypeOK
<1>6. ASSUME NEW f \in File, Unlink(g, f)
      PROVE  TypeOK'
  BY <1>6 DEF Unlink, TypeOK
<1>7. CASE Unlinked(g)
  BY <1>7 DEF Unlinked, TypeOK
<1>8. CASE Reload(g)
  <2>1. op[g] \in Op
    BY DEF TypeOK, Op
  <2> QED
    BY <1>8, <2>1, FinishType DEF Reload, TypeOK, Op
<1> QED
  BY <1>1, <1>2, <1>3, <1>4, <1>5, <1>6, <1>7, <1>8 DEF Step

-----------------------------------------------------------------------------
(* The inductive invariant is an invariant                                 *)

\* What a call of one group leaves alone in every other.
Untouched(h) ==
  /\ state'[h] = state[h] /\ pc'[h] = pc[h] /\ op'[h] = op[h]
  /\ todo'[h] = todo[h] /\ togo'[h] = togo[h] /\ created'[h] = created[h]
  /\ \A s \in Service : GroupOf[s] = h => svc'[s] = svc[s]
  /\ dir => dir'

\* The invariant of a group survives any step that leaves its variables alone.
LEMMA UntouchedInv ==
  ASSUME IInv, NEW h \in Group, Untouched(h)
  PROVE  GroupInv(h)'
<1>1. todo[h] \subseteq Service
  BY DEF IInv, TypeOK
<1>2. Paths(h)' = Paths(h)
  BY DEF Paths
<1> QED
  BY <1>1, <1>2 DEF IInv, GroupInv, Untouched, Withdrawing

\* Every step of another group leaves this one alone.
LEMMA OtherUntouched ==
  ASSUME IInv, NEW g \in Group, NEW h \in Group, h # g,
         GroupCall(g) \/ HandlersReturn(g) \/ Crash(g) \/ Step(g)
  PROVE  Untouched(h)
<1> USE DEF AppRuns, local, shared
<1>1. ASSUME NEW s \in Service, WriteService(g, s)
      PROVE  Untouched(h)
  <2>1. GroupOf[s] = g
    BY <1>1 DEF WriteService, IInv, GroupInv
  <2> QED
    BY <1>1, <2>1 DEF WriteService, Untouched, IInv, TypeOK
<1>2. CASE WriteFails(g)
  BY <1>2 DEF WriteFails, Cleanup, Finish, Untouched, IInv, TypeOK
<1>3. CASE Reload(g)
  BY <1>3 DEF Reload, Finish, Untouched, IInv, TypeOK
<1>4. CASE EnsureDir(g) \/ EnsureDirFails(g) \/ AllWritten(g) \/ Unlinked(g)
  BY <1>4 DEF EnsureDir, EnsureDirFails, AllWritten, Unlinked, Untouched, IInv, TypeOK
<1>5. ASSUME NEW f \in File, Unlink(g, f)
      PROVE  Untouched(h)
  BY <1>5 DEF Unlink, Untouched, IInv, TypeOK
<1>6. CASE Reset(g) \/ Dispose(g)
  BY <1>6 DEF Reset, Dispose, Cleanup, Finish, Untouched, IInv, TypeOK
<1>7. CASE Commit(g) \/ NewGroup(g) \/ HandlersReturn(g) \/ Crash(g)
  BY <1>7 DEF Commit, NewGroup, HandlersReturn, Crash, Untouched, IInv, TypeOK
<1> QED
  BY <1>1, <1>2, <1>3, <1>4, <1>5, <1>6, <1>7 DEF GroupCall, Step

\* Where the end of a call leaves a group that has nothing left to withdraw, or
\* one that is established.
LEMMA FinishInv ==
  ASSUME IInv, NEW g \in Group, NEW call \in Op, Finish(g, call),
         todo'[g] = {}, togo'[g] = {}, created'[g] = created[g], dir' = dir,
         \/ call \in Withdrawing /\ created[g] = {}
         \/ call = "commit"
         \/ call = "thaw" /\ state[g] = "ESTABLISHED"
  PROVE  GroupInv(g)'
<1>1. /\ op'[g] = "none"
      /\ pc'[g] = IF call = "dispose" THEN "gone" ELSE "app"
      /\ \A s \in Service :
           svc'[s] = IF GroupOf[s] = g /\ call \in {"reset", "dispose"}
                     THEN None ELSE svc[s]
  BY DEF Finish, IInv, TypeOK
<1>2. /\ call = "commit" => state'[g] = "ESTABLISHED"
      /\ call = "thaw" => state'[g] = state[g]
  BY DEF Finish, IInv, TypeOK
<1>3. created[g] \subseteq Paths(g) /\ (created[g] # {} => dir) /\ Paths(g)' = Paths(g)
  BY DEF IInv, GroupInv, Paths
<1> QED
  BY <1>1, <1>2, <1>3 DEF GroupInv, Withdrawing

\* cleanup_dnssd_files, called with no write loop left.
LEMMA CleanupInv ==
  ASSUME IInv, NEW g \in Group, NEW call \in Withdrawing, Cleanup(g, call),
         todo'[g] = {}, togo[g] = {}, created' = created, dir' = dir
  PROVE  GroupInv(g)'
<1>1. created[g] \subseteq Paths(g) /\ (created[g] # {} => dir) /\ Paths(g)' = Paths(g)
  BY DEF IInv, GroupInv, Paths
<1>2. CASE created[g] = {} /\ Finish(g, call) /\ UNCHANGED togo
  BY <1>2, FinishInv DEF Withdrawing, Op
<1>3. CASE /\ created[g] # {}
           /\ pc'   = [pc EXCEPT ![g] = "unlinking"]
           /\ op'   = [op EXCEPT ![g] = call]
           /\ togo' = [togo EXCEPT ![g] = created[g]]
           /\ UNCHANGED <<state, svc>>
  <2>1. pc'[g] = "unlinking" /\ op'[g] = call /\ togo'[g] = created[g]
    BY <1>3 DEF IInv, TypeOK
  <2> QED
    BY <1>1, <1>3, <2>1 DEF GroupInv, Withdrawing
<1> QED
  BY <1>2, <1>3 DEF Cleanup

\* A call on a service handle.
LEMMA ServiceCallInv ==
  ASSUME IInv, NEW s \in Service, ServiceCall(s), NEW h \in Group
  PROVE  GroupInv(h)'
<1> DEFINE g == GroupOf[s]
<1> USE DEF AppRuns, local, shared
<1>1. g \in Group /\ pc[g] = "app"
  BY GroupOfType DEF ServiceCall, AddService, SetTxt, Freeze, ThawInMemory,
                     ThawWrites, ThawFails, UpdateHandle
<1>2. CASE h # g
  <2>1. Untouched(h)
    BY <1>1, <1>2 DEF IInv, TypeOK, Untouched, ServiceCall, AddService, SetTxt, Freeze,
                ThawInMemory, ThawWrites, ThawFails, UpdateHandle
  <2> QED
    BY <2>1, UntouchedInv
<1>3. CASE h = g /\ UNCHANGED <<local, dir>>
  BY <1>1, <1>3 DEF IInv, GroupInv, Paths, Withdrawing
<1>4. CASE h = g /\ ThawWrites(s)
  <2>1. pc'[g] = "reloading" /\ op'[g] = "thaw" /\ state'[g] = "ESTABLISHED"
    BY <1>1, <1>4 DEF ThawWrites, Rewrites, IInv, TypeOK
  <2> QED
    BY <1>1, <1>4, <2>1 DEF ThawWrites, IInv, GroupInv, Paths, Withdrawing
<1> QED
  BY <1>2, <1>3, <1>4 DEF ServiceCall, AddService, SetTxt, Freeze, ThawInMemory,
                          ThawFails, UpdateHandle

\* A call on a group, the end of its handlers, a crash.
LEMMA GroupCallInv ==
  ASSUME IInv, NEW g \in Group, GroupCall(g) \/ HandlersReturn(g) \/ Crash(g),
         NEW h \in Group
  PROVE  GroupInv(h)'
<1> USE DEF AppRuns, local, shared
<1>1. CASE h # g
  BY <1>1, OtherUntouched, UntouchedInv
<1>2. CASE h = g /\ Commit(g)
  BY <1>2 DEF Commit, IInv, TypeOK, GroupInv, Paths, Withdrawing
<1>3. CASE h = g /\ (Reset(g) \/ Dispose(g))
  <2>1. todo[g] = {} /\ togo[g] = {}
    BY <1>3 DEF Reset, Dispose, IInv, TypeOK, GroupInv
  <2> QED
    BY <1>3, <2>1, CleanupInv DEF Reset, Dispose, Withdrawing
<1>4. CASE h = g /\ NewGroup(g)
  BY <1>4 DEF NewGroup, IInv, TypeOK, GroupInv, Paths, Withdrawing
<1>5. CASE h = g /\ HandlersReturn(g)
  BY <1>5 DEF HandlersReturn, IInv, TypeOK, GroupInv, Paths, Withdrawing
<1>6. CASE h = g /\ Crash(g)
  BY <1>6 DEF Crash, IInv, TypeOK, GroupInv, Paths, Withdrawing
<1> QED
  BY <1>1, <1>2, <1>3, <1>4, <1>5, <1>6 DEF GroupCall

\* A step of the library inside a call.
LEMMA StepInv ==
  ASSUME IInv, NEW g \in Group, Step(g), NEW h \in Group
  PROVE  GroupInv(h)'
<1> USE DEF local, shared
<1>1. CASE h # g
  BY <1>1, OtherUntouched, UntouchedInv
<1>2. CASE h = g /\ EnsureDir(g)
  BY <1>2 DEF EnsureDir, Services, IInv, TypeOK, GroupInv, Paths, Withdrawing
<1>3. CASE h = g /\ EnsureDirFails(g)
  BY <1>3 DEF EnsureDirFails, IInv, TypeOK, GroupInv, Paths, Withdrawing
<1>4. ASSUME h = g, NEW s \in Service, WriteService(g, s)
      PROVE  GroupInv(h)'
  <2>1. FileOf[s] \in Paths(g) /\ Paths(g)' = Paths(g)
    BY <1>4 DEF WriteService, IInv, GroupInv, Paths
  <2>2. dir
    BY <1>4 DEF WriteService, IInv, GroupInv
  <2> QED
    BY <1>4, <2>1, <2>2 DEF WriteService, IInv, TypeOK, GroupInv, Withdrawing
<1>5. CASE h = g /\ WriteFails(g)
  <2>1. todo'[g] = {} /\ togo[g] = {}
    BY <1>5 DEF WriteFails, IInv, TypeOK, GroupInv
  <2> QED
    BY <1>5, <2>1, CleanupInv DEF WriteFails, Withdrawing
<1>6. CASE h = g /\ AllWritten(g)
  BY <1>6 DEF AllWritten, IInv, TypeOK, GroupInv, Paths, Withdrawing
<1>7. ASSUME h = g, NEW f \in File, Unlink(g, f)
      PROVE  GroupInv(h)'
  BY <1>7 DEF Unlink, IInv, TypeOK, GroupInv, Paths, Withdrawing
<1>8. CASE h = g /\ Unlinked(g)
  BY <1>8 DEF Unlinked, IInv, TypeOK, GroupInv, Paths, Withdrawing
<1>9. CASE h = g /\ Reload(g)
  <2>1. todo[g] = {} /\ togo[g] = {} /\ op[g] \in Op
    BY <1>9 DEF Reload, IInv, TypeOK, GroupInv, Op
  <2>2. \/ op[g] \in Withdrawing /\ created[g] = {}
        \/ op[g] = "commit"
        \/ op[g] = "thaw" /\ state[g] = "ESTABLISHED"
    BY <1>9, <2>1 DEF Reload, IInv, GroupInv, Op, Withdrawing
  <2> QED
    BY <1>9, <2>1, <2>2, FinishInv DEF Reload
<1> QED
  BY <1>1, <1>2, <1>3, <1>4, <1>5, <1>6, <1>7, <1>8, <1>9 DEF Step

\* A group that was never committed has nothing to withdraw.
LEMMA InitInv == Init => IInv
<1> SUFFICES ASSUME Init PROVE IInv
  OBVIOUS
<1>1. TypeOK
  BY InitType
<1>2. ASSUME NEW g \in Group PROVE GroupInv(g)
  BY DEF Init, GroupInv, Withdrawing
<1> QED
  BY <1>1, <1>2 DEF IInv

\* The types and the invariant of every group are inductive: each action is one
\* group's own, or leaves it untouched.
LEMMA NextInv == IInv /\ [Next]_vars => IInv'
<1> SUFFICES ASSUME IInv, [Next]_vars PROVE IInv'
  OBVIOUS
<1>1. CASE UNCHANGED vars
  BY <1>1 DEF vars, local, shared, IInv, TypeOK, GroupInv, Paths
<1>2. ASSUME NEW s \in Service, ServiceCall(s)
      PROVE  IInv'
  BY <1>2, ServiceCallType, ServiceCallInv DEF IInv
<1>3. ASSUME NEW g \in Group, GroupCall(g) \/ HandlersReturn(g) \/ Crash(g)
      PROVE  IInv'
  BY <1>3, GroupCallType, GroupCallInv DEF IInv
<1>4. ASSUME NEW g \in Group, Step(g)
      PROVE  IInv'
  BY <1>4, StepType, StepInv DEF IInv
<1>5. CASE ResolvedReloads
  BY <1>5 DEF ResolvedReloads, local, shared, IInv, TypeOK, GroupInv, Paths
<1> QED
  BY <1>1, <1>2, <1>3, <1>4, <1>5 DEF Next

\* The strengthening of the type invariant and of CleanAtRest holds of every
\* behaviour: what a failed, reset or gone group has left to withdraw is nothing,
\* at every point of the call that makes it so.
THEOREM Invariance == Spec => []IInv
BY InitInv, NextInv, PTL DEF Spec

(* Every variable of every group keeps its type: in particular the loops     *)
(* only ever hold services of their group that are in use, and paths.        *)
THEOREM TypeCorrect == Spec => []TypeOK
<1>1. IInv => TypeOK
  BY DEF IInv
<1> QED
  BY <1>1, Invariance, PTL

(* A group that was reset or has failed, and an object that is gone, has no  *)
(* file left to withdraw, with any reload or unlink failure and any crash.   *)
THEOREM NothingLeft == Spec => []CleanAtRest
<1>1. IInv => CleanAtRest
  BY DEF IInv, GroupInv, CleanAtRest
<1> QED
  BY <1>1, Invariance, PTL

-----------------------------------------------------------------------------
(* A path of one's own                                                     *)

\* Writing the file of another service leaves a path of one's own alone.
LEMMA PutFileElsewhere ==
  ASSUME TypeOK, NEW s \in Service, Sole(s), NEW t \in Service, t # s, PutFile(t)
  PROVE  disk'[FileOf[s]] = disk[FileOf[s]]
BY FileOfType DEF PutFile, Sole, TypeOK

\* So does every step of another group, and of the service calls of others.
LEMMA OtherGroup ==
  ASSUME IInv, NEW s \in Service, Sole(s), NEW g \in Group, GroupOf[s] # g,
         GroupCall(g) \/ HandlersReturn(g) \/ Crash(g) \/ Step(g)
  PROVE  disk'[FileOf[s]] = disk[FileOf[s]]
<1> USE DEF local, shared
<1>1. ASSUME NEW t \in Service, WriteService(g, t)
      PROVE  disk'[FileOf[s]] = disk[FileOf[s]]
  <2>1. t # s
    BY <1>1 DEF WriteService, IInv, GroupInv
  <2> QED
    BY <1>1, <2>1, PutFileElsewhere DEF WriteService, IInv
<1>2. ASSUME NEW f \in File, Unlink(g, f)
      PROVE  disk'[FileOf[s]] = disk[FileOf[s]]
  <2>1. f \in Paths(g)
    BY <1>2 DEF Unlink, IInv, GroupInv
  <2>2. f # FileOf[s]
    BY <2>1 DEF Paths, Sole
  <2> QED
    BY <1>2, <2>2, FileOfType DEF Unlink, IInv, TypeOK
<1>3. CASE UNCHANGED disk
  BY <1>3
<1> QED
  BY <1>1, <1>2, <1>3
  DEF GroupCall, Commit, Reset, Dispose, NewGroup, HandlersReturn, Step, EnsureDir,
      EnsureDirFails, WriteFails, AllWritten, Unlinked, Reload, Crash

(* The file of a service whose path is its own is never changed by another   *)
(* group's call.                                                             *)
THEOREM NotDisturbed == Spec => Undisturbed
<1> DEFINE Same ==
      \A s \in Service :
        Sole(s) /\ pc[GroupOf[s]] = "app" /\ pc'[GroupOf[s]] = "app"
          => disk'[FileOf[s]] = disk[FileOf[s]]
<1>1. ASSUME IInv, [Next]_vars PROVE [Same]_vars
  <2> SUFFICES ASSUME NEW s \in Service, Sole(s), pc[GroupOf[s]] = "app",
                      pc'[GroupOf[s]] = "app"
               PROVE  disk'[FileOf[s]] = disk[FileOf[s]]
    OBVIOUS
  <2>1. ASSUME NEW t \in Service, ServiceCall(t)
        PROVE  disk'[FileOf[s]] = disk[FileOf[s]]
    <3>1. CASE ThawWrites(t)
      <4>1. t # s
        BY <1>1, <3>1, GroupOfType DEF ThawWrites, IInv, TypeOK
      <4> QED
        BY <1>1, <3>1, <4>1, PutFileElsewhere DEF ThawWrites, IInv
    <3>2. CASE UNCHANGED disk
      BY <3>2
    <3> QED
      BY <2>1, <3>1, <3>2 DEF ServiceCall, AddService, SetTxt, Freeze, ThawInMemory,
                              ThawFails, UpdateHandle, shared
  <2>2. ASSUME NEW g \in Group,
               GroupCall(g) \/ HandlersReturn(g) \/ Crash(g) \/ Step(g)
        PROVE  disk'[FileOf[s]] = disk[FileOf[s]]
    <3>1. CASE GroupOf[s] # g
      BY <1>1, <2>2, <3>1, OtherGroup
    <3>2. CASE GroupOf[s] = g
      BY <2>2, <3>2
      DEF GroupCall, Commit, Reset, Dispose, NewGroup, HandlersReturn, Crash, Step,
          EnsureDir, EnsureDirFails, WriteService, WriteFails, AllWritten, Unlink,
          Unlinked, Reload, shared
    <3> QED
      BY <3>1, <3>2
  <2>3. CASE ResolvedReloads \/ UNCHANGED vars
    BY <2>3 DEF ResolvedReloads, vars, shared
  <2> QED
    BY <1>1, <2>1, <2>2, <2>3 DEF Next
<1> QED
  BY <1>1, Invariance, PTL DEF Spec, Undisturbed

-----------------------------------------------------------------------------
(* What an established group has on the disk                               *)

\* The file of s is tracked and, if the path is its own, up to date on the disk.
Current(s) ==
  /\ FileOf[s] \in created[GroupOf[s]]
  /\ Sole(s) => /\ disk[FileOf[s]] # None
                /\ disk[FileOf[s]].service = s
                /\ ~svc[s].dirty => disk[FileOf[s]].txt = svc[s].txt

\* A commit makes its services current, one by one, and they stay current
\* while the group is established.
CommitInv(s) ==
  LET g == GroupOf[s] IN
    svc[s] # None =>
      /\ pc[g] = "writing" /\ s \notin todo[g] => Current(s)
      /\ op[g] = "commit" => Current(s)
      /\ state[g] = "ESTABLISHED" /\ op[g] \notin Withdrawing /\ svc[s].file # None
           => Current(s)

\* A file that nobody touches stays current: a TXT entry that changes after it
\* was written makes the handle dirty.
LEMMA CurrentStays ==
  ASSUME NEW s \in Service, Current(s),
         \/ svc'[s].dirty
         \/ svc'[s].dirty = svc[s].dirty /\ svc'[s].txt = svc[s].txt,
         created[GroupOf[s]] \subseteq created'[GroupOf[s]],
         Sole(s) => disk'[FileOf[s]] = disk[FileOf[s]]
  PROVE  Current(s)'
BY DEF Current, Sole

\* A file that was just written is current.
LEMMA PutFileCurrent ==
  ASSUME TypeOK, NEW s \in Service, svc[s] # None, PutFile(s),
         svc'[s].txt = svc[s].txt, FileOf[s] \in created'[GroupOf[s]]
  PROVE  Current(s)'
<1>1. disk'[FileOf[s]] = Shown(s)
  BY FileOfType DEF PutFile, TypeOK
<1>2. Shown(s) \in Content
  BY DEF Shown, Content, Handle, TypeOK
<1>3. Shown(s) # None /\ Shown(s).service = s /\ Shown(s).txt = svc[s].txt
  BY <1>2, NoneIsNew DEF Shown
<1> QED
  BY <1>1, <1>3 DEF Current, Sole

\* Calls on the handles of a group: only a thaw writes, and it writes its own file.
LEMMA ServiceCallCommit ==
  ASSUME IInv, NEW s \in Service, CommitInv(s), NEW t \in Service, ServiceCall(t)
  PROVE  CommitInv(s)'
<1> DEFINE g == GroupOf[s]
<1> USE DEF AppRuns, local, shared
<1> SUFFICES ASSUME svc'[s] # None PROVE CommitInv(s)'
  BY DEF CommitInv
<1>1. g \in Group /\ GroupOf[t] \in Group
  BY GroupOfType
<1>2. pc[GroupOf[t]] = "app" /\ op[GroupOf[t]] = "none"
  BY <1>1 DEF ServiceCall, AddService, SetTxt, Freeze, ThawInMemory, ThawWrites,
              ThawFails, UpdateHandle, IInv, GroupInv
<1>3. CASE t # s /\ ThawWrites(t)
  <2>1. svc'[s] = svc[s]
    BY <1>3 DEF ThawWrites, IInv, TypeOK
  <2>2. Current(s) => Current(s)'
    BY <1>3, <2>1, CurrentStays, PutFileElsewhere DEF ThawWrites, IInv
  <2>3. /\ state'[g] = state[g] /\ todo'[g] = todo[g]
        /\ \/ pc'[g] = pc[g] /\ op'[g] = op[g]
           \/ op[g] = "none" /\ op'[g] = "thaw" /\ pc'[g] = "reloading"
    BY <1>1, <1>2, <1>3 DEF ThawWrites, IInv, TypeOK
  <2> QED
    BY <2>1, <2>2, <2>3 DEF CommitInv, Withdrawing
<1>4. CASE t # s /\ UNCHANGED <<local, disk>> /\ svc'[s] = svc[s]
  <2>1. Current(s) => Current(s)'
    BY <1>4, CurrentStays
  <2> QED
    BY <1>4, <2>1 DEF CommitInv
<1>5. CASE t = s /\ \E v \in Txt : AddService(s, v)
  <2>1. svc'[s].file = None
    BY <1>5 DEF AddService, IInv, TypeOK
  <2> QED
    BY <1>2, <1>5, <2>1 DEF AddService, CommitInv
<1>6. ASSUME t = s, UNCHANGED <<local, disk>>, svc[s] # None,
             svc'[s].file = svc[s].file,
             \/ svc'[s].dirty
             \/ svc'[s].dirty = svc[s].dirty /\ svc'[s].txt = svc[s].txt
      PROVE  CommitInv(s)'
  <2>1. Current(s) => Current(s)'
    BY <1>6, CurrentStays
  <2> QED
    BY <1>6, <2>1 DEF CommitInv
<1>7. ASSUME t = s, NEW k \in Key, NEW v \in Value \cup {None}, SetTxt(s, k, v)
      PROVE  CommitInv(s)'
  <2>1. svc'[s] = [svc[s] EXCEPT !.txt[k] = v, !.dirty = TRUE] /\ svc[s] \in Handle
    BY <1>7 DEF SetTxt, UpdateHandle, IInv, TypeOK
  <2>2. svc'[s].dirty /\ svc'[s].file = svc[s].file
    BY <2>1 DEF Handle
  <2> QED
    BY <1>6, <1>7, <2>2 DEF SetTxt, UpdateHandle
<1>8. CASE t = s /\ (Freeze(s) \/ ThawInMemory(s) \/ ThawFails(s))
  <2>1. \E b \in BOOLEAN : svc'[s] = [svc[s] EXCEPT !.frozen = b] /\ svc[s] \in Handle
    BY <1>8 DEF Freeze, ThawInMemory, ThawFails, UpdateHandle, IInv, TypeOK
  <2>2. /\ svc'[s].file = svc[s].file
        /\ svc'[s].dirty = svc[s].dirty /\ svc'[s].txt = svc[s].txt
    BY <2>1 DEF Handle
  <2> QED
    BY <1>6, <1>8, <2>2 DEF Freeze, ThawInMemory, ThawFails, UpdateHandle
<1>9. CASE t = s /\ ThawWrites(s)
  <2>1. svc'[s].txt = svc[s].txt
    BY <1>9 DEF ThawWrites, Handle, IInv, TypeOK
  <2>2. Current(s)
    BY <1>2, <1>9 DEF CommitInv, ThawWrites, Rewrites, Withdrawing
  <2>3. Current(s)'
    BY <1>9, <2>1, <2>2, PutFileCurrent DEF ThawWrites, Current, IInv
  <2> QED
    BY <2>3 DEF CommitInv
<1> QED
  BY <1>3, <1>4, <1>5, <1>7, <1>8, <1>9
  DEF ServiceCall, AddService, SetTxt, Freeze, ThawInMemory, ThawFails, UpdateHandle,
      IInv, TypeOK

\* The steps of another group.
LEMMA OtherGroupCommit ==
  ASSUME IInv, NEW s \in Service, CommitInv(s), NEW g \in Group, GroupOf[s] # g,
         GroupCall(g) \/ HandlersReturn(g) \/ Crash(g) \/ Step(g)
  PROVE  CommitInv(s)'
<1>1. Untouched(GroupOf[s])
  BY GroupOfType, OtherUntouched
<1>2. Current(s) => Current(s)'
  BY <1>1, OtherGroup, CurrentStays DEF Untouched
<1> QED
  BY <1>1, <1>2 DEF Untouched, CommitInv

\* The calls and the steps of the service's own group.
LEMMA OwnGroupCommit ==
  ASSUME IInv, NEW s \in Service, CommitInv(s), NEW g \in Group, GroupOf[s] = g,
         GroupCall(g) \/ HandlersReturn(g) \/ Crash(g) \/ Step(g)
  PROVE  CommitInv(s)'
<1> USE DEF AppRuns, local, shared
<1> SUFFICES ASSUME svc'[s] # None PROVE CommitInv(s)'
  BY DEF CommitInv
<1>1. ASSUME UNCHANGED disk, created'[g] = created[g], svc'[s] = svc[s]
      PROVE  Current(s) => Current(s)'
  BY <1>1, CurrentStays
<1>2. CASE Commit(g)
  BY <1>2 DEF Commit, CommitInv, IInv, TypeOK, GroupInv
<1>3. CASE Reset(g) \/ Dispose(g)
  <2>1. CASE created[g] # {}
    BY <1>3, <2>1 DEF Reset, Dispose, Cleanup, CommitInv, Withdrawing, IInv, TypeOK
  <2>2. CASE created[g] = {}
    BY <1>3, <2>2 DEF Reset, Dispose, Cleanup, Finish
  <2> QED
    BY <2>1, <2>2
<1>4. CASE NewGroup(g) \/ Crash(g)
  BY <1>4 DEF NewGroup, Crash, IInv, TypeOK, GroupInv
<1>5. CASE HandlersReturn(g)
  BY <1>1, <1>5 DEF HandlersReturn, CommitInv, IInv, TypeOK
<1>6. CASE EnsureDir(g)
  BY <1>1, <1>6 DEF EnsureDir, Services, CommitInv, IInv, TypeOK
<1>7. CASE EnsureDirFails(g)
  BY <1>7 DEF EnsureDirFails, CommitInv, IInv, TypeOK, GroupInv
<1>8. CASE WriteService(g, s)
  <2>1. svc[s] # None /\ svc'[s].txt = svc[s].txt
    BY <1>8 DEF WriteService, Handle, IInv, TypeOK, GroupInv
  <2>2. FileOf[s] \in created'[g]
    BY <1>8 DEF WriteService, IInv, TypeOK
  <2>3. Current(s)'
    BY <1>8, <2>1, <2>2, PutFileCurrent DEF WriteService, IInv
  <2> QED
    BY <2>3 DEF CommitInv
<1>9. ASSUME NEW t \in Service, t # s, WriteService(g, t)
      PROVE  CommitInv(s)'
  <2>1. /\ svc'[s] = svc[s] /\ created[g] \subseteq created'[g]
        /\ todo'[g] = todo[g] \ {t}
    BY <1>9 DEF WriteService, IInv, TypeOK
  <2>2. Current(s) => Current(s)'
    BY <1>9, <2>1, PutFileElsewhere, CurrentStays DEF WriteService, IInv
  <2> QED
    BY <1>9, <2>1, <2>2 DEF WriteService, CommitInv
<1>10. CASE WriteFails(g)
  <2>1. CASE created[g] # {}
    BY <1>10, <2>1 DEF WriteFails, Cleanup, CommitInv, Withdrawing, IInv, TypeOK
  <2>2. CASE created[g] = {}
    <3>1. state'[g] = "FAILURE" /\ pc'[g] = "app" /\ op'[g] = "none"
      BY <1>10, <2>2 DEF WriteFails, Cleanup, Finish, IInv, TypeOK
    <3> QED
      BY <3>1 DEF CommitInv
  <2> QED
    BY <2>1, <2>2
<1>11. CASE AllWritten(g)
  BY <1>1, <1>11 DEF AllWritten, CommitInv, IInv, TypeOK
<1>12. ASSUME NEW f \in File, Unlink(g, f)
       PROVE  CommitInv(s)'
  BY <1>12 DEF Unlink, CommitInv, Withdrawing, IInv, GroupInv
<1>13. CASE Unlinked(g)
  BY <1>13 DEF Unlinked, CommitInv, Withdrawing, IInv, TypeOK, GroupInv
<1>14. CASE Reload(g)
  <2>1. /\ pc'[g] # "writing" /\ op'[g] = "none" /\ svc'[s] = svc[s]
        /\ op[g] \notin {"reset", "dispose"} /\ op[g] \in Op
    BY <1>14 DEF Reload, Finish, IInv, TypeOK, Op
  <2>2. /\ op[g] = "commit" => state'[g] = "ESTABLISHED"
        /\ op[g] = "abort" => state'[g] = "FAILURE"
        /\ op[g] \notin {"commit", "abort"} => state'[g] = state[g]
    BY <1>14, <2>1 DEF Reload, Finish, IInv, TypeOK
  <2>3. Current(s) => Current(s)'
    BY <1>1, <1>14, <2>1 DEF Reload
  <2> QED
    BY <2>1, <2>2, <2>3 DEF CommitInv, Withdrawing
<1> QED
  BY <1>2, <1>3, <1>4, <1>5, <1>6, <1>7, <1>8, <1>9, <1>10, <1>11, <1>12, <1>13, <1>14
  DEF GroupCall, Step

CInv == \A s \in Service : CommitInv(s)

\* Nothing was committed yet.
LEMMA InitCommit == Init => CInv
BY GroupOfType DEF Init, CInv, CommitInv

\* The invariant of the write loop is inductive.
LEMMA NextCommit == IInv /\ CInv /\ [Next]_vars => CInv'
<1> SUFFICES ASSUME IInv, CInv, [Next]_vars, NEW s \in Service
             PROVE  CommitInv(s)'
  BY DEF CInv
<1>1. CASE UNCHANGED vars \/ ResolvedReloads
  BY <1>1 DEF vars, local, shared, ResolvedReloads, CInv, CommitInv, Current, Sole
<1>2. ASSUME NEW t \in Service, ServiceCall(t)
      PROVE  CommitInv(s)'
  BY <1>2, ServiceCallCommit DEF CInv
<1>3. ASSUME NEW g \in Group,
             GroupCall(g) \/ HandlersReturn(g) \/ Crash(g) \/ Step(g)
      PROVE  CommitInv(s)'
  BY <1>3, OtherGroupCommit, OwnGroupCommit DEF CInv
<1> QED
  BY <1>1, <1>2, <1>3 DEF Next

\* The strengthening of EstablishedOnDisk: the services the write loop has behind
\* it, and those of an established group, are on the disk and up to date.
THEOREM CommitInvariance == Spec => []CInv
BY InitCommit, NextCommit, Invariance, PTL DEF Spec

(* While a group is established, every committed service of it is on the     *)
(* disk, up to date, for any number of services and any order of calls.      *)
THEOREM EstablishedStaysOnDisk == Spec => []EstablishedOnDisk
<1>1. IInv /\ CInv => EstablishedOnDisk
  <2> SUFFICES ASSUME IInv, CInv, NEW s \in Service, Established(s), Sole(s)
               PROVE  Current(s)
    BY DEF EstablishedOnDisk, Current
  <2>1. GroupOf[s] \in Group
    BY GroupOfType
  <2> QED
    BY <2>1 DEF Established, CInv, CommitInv, IInv, GroupInv, Withdrawing
<1> QED
  BY <1>1, Invariance, CommitInvariance, PTL

-----------------------------------------------------------------------------
(* What is tracked                                                         *)

\* What a group owns is tracked and, while it cleans up, has still to be unlinked.
OwnerInv ==
  \A g \in Group, f \in File :
    owner[f] = g => /\ f \in created[g]
                    /\ pc[g] = "unlinking" => f \in togo[g]

\* The owner of a file tracks it, and while it unlinks, has it still to unlink.
LEMMA NextOwner ==
  ASSUME UnlinkMayFail = FALSE, IInv, CInv, OwnerInv, [Next]_vars
  PROVE  OwnerInv'
<1> USE DEF AppRuns, local, shared
<1> SUFFICES ASSUME NEW h \in Group, NEW f \in File, owner'[f] = h
             PROVE  /\ f \in created'[h]
                    /\ pc'[h] = "unlinking" => f \in togo'[h]
  BY DEF OwnerInv
<1>1. CASE UNCHANGED <<created, pc, togo, owner>>
  BY <1>1 DEF OwnerInv
<1>2. ASSUME NEW s \in Service, ThawWrites(s)
      PROVE  f \in created'[h] /\ (pc'[h] = "unlinking" => f \in togo'[h])
  <2>1. GroupOf[s] \in Group /\ FileOf[s] \in File
    BY GroupOfType, FileOfType
  <2>2. op[GroupOf[s]] = "none"
    BY <1>2, <2>1 DEF ThawWrites, IInv, GroupInv
  <2>3. FileOf[s] \in created[GroupOf[s]]
    BY <1>2, <2>2 DEF ThawWrites, Rewrites, CInv, CommitInv, Current, Withdrawing
  <2>4. owner'[f] = IF f = FileOf[s] THEN GroupOf[s] ELSE owner[f]
    BY <1>2, <2>1 DEF ThawWrites, PutFile, IInv, TypeOK
  <2>5. pc'[h] = IF h = GroupOf[s] THEN "reloading" ELSE pc[h]
    BY <1>2 DEF ThawWrites, IInv, TypeOK
  <2> QED
    BY <1>2, <2>3, <2>4, <2>5 DEF ThawWrites, OwnerInv
<1>3. ASSUME NEW s \in Service, ServiceCall(s), ~ThawWrites(s)
      PROVE  UNCHANGED <<created, pc, togo, owner>>
  BY <1>3 DEF ServiceCall, AddService, SetTxt, Freeze, ThawInMemory, ThawFails,
              UpdateHandle
<1>4. ASSUME NEW g \in Group, NEW call \in Withdrawing, Cleanup(g, call),
             UNCHANGED <<created, owner>>
      PROVE  f \in created'[h] /\ (pc'[h] = "unlinking" => f \in togo'[h])
  <2>1. CASE created[g] # {}
    BY <1>4, <2>1 DEF Cleanup, OwnerInv, IInv, TypeOK
  <2>2. CASE created[g] = {}
    <3>1. pc'[h] = "unlinking" => pc[h] = "unlinking"
      BY <1>4, <2>2 DEF Cleanup, Finish, IInv, TypeOK
    <3> QED
      BY <1>4, <2>2, <3>1 DEF Cleanup, OwnerInv
  <2> QED
    BY <2>1, <2>2
<1>5. ASSUME NEW g \in Group, Reset(g) \/ Dispose(g) \/ WriteFails(g)
      PROVE  f \in created'[h] /\ (pc'[h] = "unlinking" => f \in togo'[h])
  BY <1>4, <1>5 DEF Reset, Dispose, WriteFails, Withdrawing
<1>6. ASSUME NEW g \in Group,
             \/ Commit(g) \/ NewGroup(g) \/ HandlersReturn(g) \/ EnsureDir(g)
             \/ EnsureDirFails(g) \/ AllWritten(g)
      PROVE  f \in created'[h] /\ (pc'[h] = "unlinking" => f \in togo'[h])
  BY <1>6 DEF Commit, NewGroup, HandlersReturn, EnsureDir, EnsureDirFails, AllWritten,
              OwnerInv, IInv, TypeOK
<1>7. ASSUME NEW g \in Group, Crash(g)
      PROVE  f \in created'[h] /\ (pc'[h] = "unlinking" => f \in togo'[h])
  <2>1. h # g
    BY <1>7, NoneIsNew DEF Crash
  <2>2. owner[f] = h
    BY <1>7, <2>1, NoneIsNew DEF Crash
  <2> QED
    BY <1>7, <2>1, <2>2 DEF Crash, OwnerInv, IInv, TypeOK
<1>8. ASSUME NEW g \in Group, NEW s \in Service, WriteService(g, s)
      PROVE  f \in created'[h] /\ (pc'[h] = "unlinking" => f \in togo'[h])
  <2>1. GroupOf[s] = g /\ FileOf[s] \in File
    BY <1>8, FileOfType DEF WriteService, IInv, GroupInv
  <2>2. owner'[f] = IF f = FileOf[s] THEN g ELSE owner[f]
    BY <1>8, <2>1 DEF WriteService, PutFile, IInv, TypeOK
  <2> QED
    BY <1>8, <2>1, <2>2 DEF WriteService, OwnerInv, IInv, TypeOK
<1>9. ASSUME NEW g \in Group, NEW e \in File, Unlink(g, e)
      PROVE  f \in created'[h] /\ (pc'[h] = "unlinking" => f \in togo'[h])
  <2>1. owner'[f] = IF f = e THEN None ELSE owner[f]
    BY <1>9 DEF Unlink, IInv, TypeOK
  <2>2. f # e /\ owner[f] = h
    BY <2>1, NoneIsNew
  <2> QED
    BY <1>9, <2>2 DEF Unlink, OwnerInv, IInv, TypeOK
<1>10. ASSUME NEW g \in Group, Unlinked(g)
       PROVE  f \in created'[h] /\ (pc'[h] = "unlinking" => f \in togo'[h])
  BY <1>10 DEF Unlinked, OwnerInv, IInv, TypeOK
<1>11. ASSUME NEW g \in Group, Reload(g)
       PROVE  f \in created'[h] /\ (pc'[h] = "unlinking" => f \in togo'[h])
  <2>1. pc'[h] = "unlinking" => pc[h] = "unlinking"
    BY <1>11 DEF Reload, Finish, IInv, TypeOK
  <2> QED
    BY <1>11, <2>1 DEF Reload, OwnerInv
<1> QED
  BY <1>1, <1>2, <1>3, <1>5, <1>6, <1>7, <1>8, <1>9, <1>10, <1>11
  DEF Next, GroupCall, Step, ResolvedReloads, vars

(* As long as unlink does not fail, no live group forgets a file it wrote.   *)
THEOREM NothingForgotten ==
  ASSUME UnlinkMayFail = FALSE
  PROVE  Spec => []Tracked
<1>1. Init => OwnerInv
  BY NoneIsNew DEF Init, OwnerInv
<1>2. IInv /\ CInv /\ OwnerInv /\ [Next]_vars => OwnerInv'
  BY NextOwner
<1>3. OwnerInv => Tracked
  BY DEF OwnerInv, Tracked
<1> QED
  BY <1>1, <1>2, <1>3, Invariance, CommitInvariance, PTL DEF Spec

-----------------------------------------------------------------------------
(* What systemd-resolved has read                                          *)

\* Where a file of group g may be newer than what was loaded: between a write
\* or an unlink and the reload that every such call ends with.
Behind(g, f) ==
  \/ pc[g] \in {"unlinking", "reloading"}
  \/ pc[g] = "writing" /\ f \in created[g]

\* A group stays behind until it reloads, unless its process is killed.
LEMMA BehindStays ==
  ASSUME ReloadMayFail = FALSE, IInv, [Next]_vars,
         NEW g \in Group, NEW f \in File, Behind(g, f), loaded' # disk'
  PROVE  Behind(g, f)' \/ (MayCrash # FALSE /\ pc'[g] = "crashed")
<1> USE DEF AppRuns, local, shared
<1>1. CASE UNCHANGED <<pc, created>>
  BY <1>1 DEF Behind
<1>2. ASSUME NEW s \in Service, ThawWrites(s)
      PROVE  Behind(g, f)'
  BY <1>2 DEF ThawWrites, Behind, IInv, TypeOK
<1>3. ASSUME NEW s \in Service, ServiceCall(s), ~ThawWrites(s)
      PROVE  UNCHANGED <<pc, created>>
  BY <1>3 DEF ServiceCall, AddService, SetTxt, Freeze, ThawInMemory, ThawFails,
              UpdateHandle
<1>4. ASSUME NEW h \in Group, h # g,
             GroupCall(h) \/ HandlersReturn(h) \/ Crash(h) \/ Step(h)
      PROVE  Behind(g, f)'
  BY <1>4, OtherUntouched DEF Behind, Untouched
<1>5. CASE GroupCall(g) \/ HandlersReturn(g)
  BY <1>5 DEF GroupCall, Commit, Reset, Dispose, NewGroup, HandlersReturn, Behind
<1>6. CASE Crash(g)
  BY <1>6 DEF Crash, IInv, TypeOK
<1>7. CASE WriteFails(g)
  <2>1. created[g] # {}
    BY <1>7 DEF WriteFails, Behind
  <2> QED
    BY <1>7, <2>1 DEF WriteFails, Cleanup, Behind, IInv, TypeOK
<1>8. ASSUME NEW s \in Service, WriteService(g, s)
      PROVE  Behind(g, f)'
  BY <1>8 DEF WriteService, Behind, IInv, TypeOK
<1>9. CASE AllWritten(g) \/ Unlinked(g)
  BY <1>9 DEF AllWritten, Unlinked, Behind, IInv, TypeOK
<1>10. ASSUME NEW e \in File, Unlink(g, e)
       PROVE  Behind(g, f)'
  BY <1>10 DEF Unlink, Behind
<1>11. ~EnsureDir(g) /\ ~EnsureDirFails(g) /\ ~Reload(g)
  BY DEF EnsureDir, EnsureDirFails, Reload, Behind
<1> QED
  BY <1>1, <1>2, <1>3, <1>4, <1>5, <1>6, <1>7, <1>8, <1>9, <1>10, <1>11
  DEF Next, Step, ResolvedReloads, vars

\* A step that writes or unlinks a file leaves its group behind.
LEMMA ChangeIsBehind ==
  ASSUME IInv, [Next]_vars, NEW f \in File,
         disk'[f] # disk[f] \/ owner'[f] # owner[f]
  PROVE  \/ disk'[f] = disk[f] /\ owner'[f] = None
         \/ \E g \in Group : Behind(g, f)' /\ owner'[f] \in {g, None}
<1> USE DEF local, shared
<1>1. ASSUME NEW s \in Service, PutFile(s)
      PROVE  f = FileOf[s] /\ owner'[f] = GroupOf[s]
  BY <1>1, FileOfType DEF PutFile, IInv, TypeOK
<1>2. ASSUME NEW s \in Service, ThawWrites(s)
      PROVE  Behind(GroupOf[s], f)' /\ owner'[f] = GroupOf[s]
  BY <1>1, <1>2, GroupOfType DEF ThawWrites, Behind, IInv, TypeOK
<1>3. ASSUME NEW g \in Group, NEW s \in Service, WriteService(g, s)
      PROVE  Behind(g, f)' /\ owner'[f] = g
  <2>1. GroupOf[s] = g
    BY <1>3 DEF WriteService, IInv, GroupInv
  <2> QED
    BY <1>1, <1>3, <2>1 DEF WriteService, Behind, IInv, TypeOK
<1>4. ASSUME NEW g \in Group, NEW e \in File, Unlink(g, e)
      PROVE  Behind(g, f)' /\ owner'[f] = None
  BY <1>4 DEF Unlink, Behind, IInv, TypeOK
<1>5. ASSUME NEW g \in Group, Crash(g)
      PROVE  disk'[f] = disk[f] /\ owner'[f] = None
  BY <1>5 DEF Crash
<1>6. CASE UNCHANGED <<disk, owner>>
  BY <1>6
<1> QED
  BY <1>2, <1>3, <1>4, <1>5, <1>6, GroupOfType
  DEF Next, vars, ServiceCall, AddService, SetTxt, Freeze, ThawInMemory, ThawFails,
      UpdateHandle, GroupCall, Commit, Reset, Dispose, NewGroup, HandlersReturn,
      Step, EnsureDir, EnsureDirFails, WriteFails, AllWritten, Unlinked, Reload,
      ResolvedReloads

\* Only a reload changes what is loaded.
LEMMA LoadedChange ==
  ASSUME ReloadMayFail = FALSE, [Next]_vars
  PROVE  loaded' = loaded \/ loaded' = disk'
BY DEF Next, vars, local, shared, ServiceCall, AddService, SetTxt, Freeze,
       ThawInMemory, ThawWrites, ThawFails, UpdateHandle, GroupCall, Commit, Reset,
       Dispose, NewGroup, HandlersReturn, Step, EnsureDir, EnsureDirFails,
       WriteService, WriteFails, AllWritten, Unlink, Unlinked, Reload, Crash,
       ResolvedReloads

\* A killed process owns nothing, and becomes one only by being killed.
LEMMA CrashDisowns ==
  ASSUME IInv, [Next]_vars, NEW g \in Group, NEW f \in File,
         pc'[g] = "crashed", owner'[f] = g
  PROVE  pc[g] = "crashed" /\ owner[f] = g
<1> USE DEF AppRuns, local, shared
<1>1. ~Crash(g)
  BY NoneIsNew DEF Crash
<1>2. pc[g] = "crashed"
  <2>1. ASSUME NEW s \in Service, ServiceCall(s)
        PROVE  pc'[g] = pc[g] \/ pc'[g] = "reloading"
    BY <2>1 DEF ServiceCall, AddService, SetTxt, Freeze, ThawInMemory, ThawWrites,
                ThawFails, UpdateHandle, IInv, TypeOK
  <2>2. ASSUME NEW h \in Group, h # g,
               GroupCall(h) \/ HandlersReturn(h) \/ Crash(h) \/ Step(h)
        PROVE  pc'[g] = pc[g]
    BY <2>2, OtherUntouched DEF Untouched
  <2>3. CASE GroupCall(g) \/ HandlersReturn(g) \/ Step(g)
    BY <2>3
    DEF GroupCall, Commit, Reset, Dispose, NewGroup, HandlersReturn, Step, EnsureDir,
        EnsureDirFails, WriteService, WriteFails, AllWritten, Unlink, Unlinked,
        Reload, Cleanup, Finish, IInv, TypeOK
  <2> QED
    BY <1>1, <2>1, <2>2, <2>3 DEF Next, vars, ResolvedReloads
<1>3. owner[f] = g
  BY ChangeIsBehind, NoneIsNew DEF Behind
<1> QED
  BY <1>2, <1>3

LoadedInv ==
  \A g \in Group, f \in File :
    owner[f] = g => pc[g] # "crashed" /\ (Behind(g, f) \/ loaded[f] = disk[f])

(* As long as the reload call is not lost, what a group at rest wrote last   *)
(* is what systemd-resolved read, whatever crashes and failures there were.  *)
THEOREM OwnedStaysLoaded ==
  ASSUME ReloadMayFail = FALSE
  PROVE  Spec => []OwnedIsLoaded
<1>1. Init => LoadedInv
  BY NoneIsNew DEF Init, LoadedInv
<1>2. IInv /\ LoadedInv /\ [Next]_vars => LoadedInv'
  <2> SUFFICES ASSUME IInv, LoadedInv, [Next]_vars,
                      NEW g \in Group, NEW f \in File, owner'[f] = g
               PROVE  pc'[g] # "crashed" /\ (Behind(g, f)' \/ loaded'[f] = disk'[f])
    BY DEF LoadedInv
  <2>1. pc'[g] # "crashed"
    BY CrashDisowns DEF LoadedInv
  <2>2. CASE loaded' = disk'
    BY <2>1, <2>2
  <2>3. CASE loaded' # disk' /\ (disk'[f] # disk[f] \/ owner'[f] # owner[f])
    BY <2>1, <2>3, ChangeIsBehind, NoneIsNew
  <2>4. CASE loaded' # disk' /\ disk'[f] = disk[f] /\ owner'[f] = owner[f]
    BY <2>1, <2>4, BehindStays, LoadedChange DEF LoadedInv
  <2> QED
    BY <2>2, <2>3, <2>4
<1>3. LoadedInv => OwnedIsLoaded
  BY DEF LoadedInv, OwnedIsLoaded, AtRest, Behind
<1> QED
  BY <1>1, <1>2, <1>3, Invariance, PTL DEF Spec

(* Without lost reloads and without kills, systemd-resolved publishes the    *)
(* directory as it is whenever no call is under way.                         *)
THEOREM QuietStaysInSync ==
  ASSUME ReloadMayFail = FALSE, MayCrash = FALSE
  PROVE  Spec => []QuietInSync
<1> DEFINE SyncInv ==
      \A f \in File : loaded[f] = disk[f] \/ \E g \in Group : Behind(g, f)
<1>1. Init => SyncInv
  BY DEF Init
<1>2. IInv /\ SyncInv /\ [Next]_vars => SyncInv'
  <2> SUFFICES ASSUME IInv, SyncInv, [Next]_vars, NEW f \in File, loaded'[f] # disk'[f]
               PROVE  \E g \in Group : Behind(g, f)'
    OBVIOUS
  <2>1. loaded' # disk' /\ loaded' = loaded
    BY LoadedChange
  <2>2. CASE disk'[f] # disk[f]
    BY <2>2, ChangeIsBehind
  <2>3. CASE disk'[f] = disk[f]
    BY <2>1, <2>3, BehindStays
  <2> QED
    BY <2>2, <2>3
<1>3. IInv /\ SyncInv => QuietInSync
  <2> SUFFICES ASSUME IInv, SyncInv, \A g \in Group : AtRest(g)
               PROVE  loaded = disk
    BY DEF QuietInSync
  <2>1. \A f \in File : loaded[f] = disk[f]
    BY DEF AtRest, Behind
  <2> QED
    BY <2>1 DEF IInv, TypeOK
<1> QED
  BY <1>1, <1>2, <1>3, Invariance, PTL DEF Spec

-----------------------------------------------------------------------------
(* EntryGroup implements Publication                                        *)

\* What the proof knows of every state.
RInv == IInv /\ CInv /\ OwnerInv

-----------------------------------------------------------------------------
(* The mapping, group by group                                             *)

\* A group that a step leaves alone is mapped to what it was.
LEMMA UntouchedMap ==
  ASSUME NEW h \in Group, Untouched(h)
  PROVE  Phase(h)' = Phase(h) /\ Wanted(h)' = Wanted(h)
<1>1. Services(h)' = Services(h)
  BY DEF Services, Untouched
<1>2. Wanted(h)' = Wanted(h)
  BY <1>1 DEF Wanted
<1>3. Phase(h)' = Phase(h)
  BY DEF Phase, Untouched
<1> QED
  BY <1>2, <1>3

\* A step of one group changes the mapped functions at that group only.
LEMMA OneGroupMap ==
  ASSUME NEW g \in Group,
         \A h \in Group \ {g} : Phase(h)' = Phase(h) /\ Wanted(h)' = Wanted(h)
  PROVE  /\ PhaseOf'  = [PhaseOf EXCEPT ![g] = Phase(g)']
         /\ WantedOf' = [WantedOf EXCEPT ![g] = Wanted(g)']
         /\ Phase(g)' = Phase(g) => PhaseOf' = PhaseOf
         /\ Wanted(g)' = Wanted(g) => WantedOf' = WantedOf
         /\ PhaseOf[g] = Phase(g) /\ WantedOf[g] = Wanted(g)
BY DEF PhaseOf, WantedOf

\* That is so for every step of a group.
LEMMA StepMap ==
  ASSUME IInv, NEW g \in Group,
         GroupCall(g) \/ HandlersReturn(g) \/ Crash(g) \/ Step(g)
  PROVE  /\ PhaseOf'  = [PhaseOf EXCEPT ![g] = Phase(g)']
         /\ WantedOf' = [WantedOf EXCEPT ![g] = Wanted(g)']
         /\ Phase(g)' = Phase(g) => PhaseOf' = PhaseOf
         /\ Wanted(g)' = Wanted(g) => WantedOf' = WantedOf
         /\ PhaseOf[g] = Phase(g) /\ WantedOf[g] = Wanted(g)
<1>1. \A h \in Group \ {g} : Phase(h)' = Phase(h) /\ Wanted(h)' = Wanted(h)
  BY OtherUntouched, UntouchedMap
<1> QED
  BY <1>1, OneGroupMap

\* What resolved has read of the paths that a step does not change.
LEMMA FreshMap ==
  /\ UNCHANGED <<disk, loaded>> => FreshOf' = FreshOf
  /\ loaded' = disk' => FreshOf' = P!AllFresh
  /\ \A f \in File :
       loaded' = loaded /\ (\A e \in File \ {f} : disk'[e] = disk[e])
         => \E b \in BOOLEAN : FreshOf' = [FreshOf EXCEPT ![f] = b]
<1>1. UNCHANGED <<disk, loaded>> => FreshOf' = FreshOf
  BY DEF FreshOf
<1>2. loaded' = disk' => FreshOf' = P!AllFresh
  BY DEF FreshOf, P!AllFresh
<1>3. ASSUME NEW f \in File, loaded' = loaded,
             \A e \in File \ {f} : disk'[e] = disk[e]
      PROVE  \E b \in BOOLEAN : FreshOf' = [FreshOf EXCEPT ![f] = b]
  <2>1. FreshOf' = [FreshOf EXCEPT ![f] = (loaded'[f] = disk'[f])]
    BY <1>3 DEF FreshOf
  <2> QED
    BY <2>1
<1> QED
  BY <1>1, <1>2, <1>3

\* The services of a group that ends a call, with the table emptied or not.
LEMMA FinishMap ==
  ASSUME IInv, NEW g \in Group, NEW call \in Op, Finish(g, call)
  PROVE  /\ call = "dispose" => Phase(g)' = "dead"
         /\ call = "commit" => Phase(g)' = "published"
         /\ call \in {"abort", "reset"} => Phase(g)' = "idle"
         /\ call = "thaw" /\ state[g] = "ESTABLISHED" => Phase(g)' = "published"
         /\ call \in {"reset", "dispose"} => Wanted(g)' = {}
         /\ call \notin {"reset", "dispose"} => Wanted(g)' = Wanted(g)
<1>1. /\ pc'[g] = IF call = "dispose" THEN "gone" ELSE "app"
      /\ state'[g] = CASE call = "commit" -> "ESTABLISHED"
                       [] call = "abort"  -> "FAILURE"
                       [] call = "reset"  -> "UNCOMMITED"
                       [] OTHER           -> state[g]
  BY DEF Finish, IInv, TypeOK
<1>2. \A s \in Service :
        svc'[s] = IF GroupOf[s] = g /\ call \in {"reset", "dispose"}
                  THEN None ELSE svc[s]
  BY DEF Finish
<1>3. call \in {"reset", "dispose"} => Services(g)' = {}
  BY <1>2 DEF Services
<1>4. call \notin {"reset", "dispose"} => Services(g)' = Services(g)
  BY <1>2 DEF Services
<1>5. call \in {"reset", "dispose"} => Wanted(g)' = {}
  BY <1>3 DEF Wanted
<1>6. call \notin {"reset", "dispose"} => Wanted(g)' = Wanted(g)
  BY <1>4 DEF Wanted
<1>7. call = "dispose" => Phase(g)' = "dead"
  BY <1>1 DEF Phase
<1>8. call = "commit" => Phase(g)' = "published"
  BY <1>1 DEF Phase
<1>9. call \in {"abort", "reset"} => Phase(g)' = "idle"
  BY <1>1 DEF Phase
<1>10. call = "thaw" /\ state[g] = "ESTABLISHED" => Phase(g)' = "published"
  BY <1>1 DEF Phase
<1> QED
  BY <1>5, <1>6, <1>7, <1>8, <1>9, <1>10

-----------------------------------------------------------------------------
(* Steps                                                                   *)

\* cleanup_dnssd_files, from the application or from a commit that fails.
LEMMA CleanupSimulates ==
  ASSUME RInv, NEW g \in Group, NEW call \in Withdrawing, Cleanup(g, call),
         GroupCall(g) \/ HandlersReturn(g) \/ Crash(g) \/ Step(g),
         pc[g] \in {"app", "writing"}, UNCHANGED <<created, disk, loaded, owner>>
  PROVE  P!GiveUp(g) \/ P!NothingToWithdraw(g)
<1>1. Phase(g) \in {"idle", "publishing", "published"}
  BY DEF Phase
<1>2. PhaseOf[g] = Phase(g)
  BY DEF PhaseOf
<1>3. FreshOf' = FreshOf
  BY FreshMap
<1>4. PhaseOf'  = [PhaseOf EXCEPT ![g] = Phase(g)']
  BY StepMap DEF RInv
<1>5. WantedOf' = [WantedOf EXCEPT ![g] = Wanted(g)']
  BY StepMap DEF RInv
<1>6. CASE created[g] = {}
  <2>1. Finish(g, call) /\ call \in Op
    BY <1>6 DEF Cleanup, Withdrawing, Op
  <2>2. /\ call = "dispose" => Phase(g)' = "dead" /\ Wanted(g)' = {}
        /\ call = "reset" => Phase(g)' = "idle" /\ Wanted(g)' = {}
        /\ call = "abort" => Phase(g)' = "idle" /\ Wanted(g)' = Wanted(g)
    BY <2>1, FinishMap DEF RInv
  <2>3. Wanted(g)' = Wanted(g) => WantedOf' = WantedOf
    BY StepMap DEF RInv
  <2>4. P!ComesToRest(g)
    BY <1>4, <1>5, <1>6, <2>2, <2>3 DEF P!ComesToRest, Withdrawing
  <2> QED
    BY <1>1, <1>2, <1>3, <2>4 DEF P!NothingToWithdraw, P!InUse
<1>7. CASE created[g] # {}
  <2>1. pc'[g] = "unlinking" /\ svc' = svc
    BY <1>7 DEF Cleanup, RInv, IInv, TypeOK
  <2>2. Phase(g)' = "withdrawing"
    BY <2>1 DEF Phase
  <2>3. WantedOf' = WantedOf
    BY <2>1 DEF WantedOf, Wanted, Services
  <2> QED
    BY <1>1, <1>2, <1>3, <1>4, <1>7, <2>2, <2>3 DEF P!GiveUp, P!InUse
<1> QED
  BY <1>6, <1>7

\* Unlinks and reloads.
LEMMA UnlinkSimulates ==
  ASSUME UnlinkMayFail = FALSE, RInv, NEW g \in Group, NEW f \in File, Unlink(g, f)
  PROVE  P!Take(g, f)
<1>1. Step(g)
  BY DEF Step
<1>2. f \in created[g]
  BY DEF Unlink, RInv, IInv, GroupInv
<1>3. Phase(g) = "withdrawing" /\ Phase(g)' = "withdrawing"
  BY DEF Unlink, Phase
<1>4. Wanted(g)' = Wanted(g)
  BY DEF Unlink, Wanted, Services
<1>5. PhaseOf' = PhaseOf /\ WantedOf' = WantedOf /\ PhaseOf[g] = "withdrawing"
  BY <1>1, <1>3, <1>4, StepMap DEF RInv
<1>6. \A e \in File \ {f} : disk'[e] = disk[e]
  BY DEF Unlink, RInv, IInv, TypeOK
<1>7. \E b \in BOOLEAN : FreshOf' = [FreshOf EXCEPT ![f] = b]
  BY <1>6, FreshMap DEF Unlink
<1> QED
  BY <1>2, <1>5, <1>7 DEF Unlink, P!Take

LEMMA UnlinkedSimulates ==
  ASSUME RInv, NEW g \in Group, Unlinked(g)
  PROVE  P!Release(g)
<1>1. Step(g)
  BY DEF Step
<1>2. \A f \in File : owner[f] # g
  BY DEF Unlinked, RInv, OwnerInv
<1>3. op[g] \in Withdrawing
  BY DEF Unlinked, RInv, IInv, GroupInv
<1>4. Phase(g) = "withdrawing"
  BY DEF Unlinked, Phase
<1>5. pc'[g] = "reloading" /\ op'[g] = op[g]
  BY DEF Unlinked, RInv, IInv, TypeOK
<1>6. Phase(g)' = "withdrawing"
  BY <1>3, <1>5 DEF Phase, Withdrawing
<1>7. Wanted(g)' = Wanted(g)
  BY DEF Unlinked, Wanted, Services
<1>8. PhaseOf' = PhaseOf /\ WantedOf' = WantedOf /\ PhaseOf[g] = "withdrawing"
  BY <1>1, <1>4, <1>6, <1>7, StepMap DEF RInv
<1> QED
  BY <1>2, <1>8, FreshMap DEF Unlinked, shared, P!Release

LEMMA ReloadSimulates ==
  ASSUME ReloadMayFail = FALSE, RInv, NEW g \in Group, Reload(g)
  PROVE  P!Succeed(g) \/ P!Withdrawn(g) \/ P!Announce
<1>1. Step(g)
  BY DEF Step
<1>2. pc[g] = "reloading" /\ Finish(g, op[g]) /\ op[g] \in Op /\ op[g] # "none"
  BY DEF Reload, RInv, IInv, TypeOK, GroupInv, Op
<1>3. FreshOf' = P!AllFresh
  BY FreshMap DEF Reload
<1>4. PhaseOf' = [PhaseOf EXCEPT ![g] = Phase(g)'] /\ PhaseOf[g] = Phase(g)
  BY <1>1, StepMap DEF RInv
<1>5. WantedOf' = [WantedOf EXCEPT ![g] = Wanted(g)'] /\ WantedOf[g] = Wanted(g)
  BY <1>1, StepMap DEF RInv
<1>6. Wanted(g)' = Wanted(g) => WantedOf' = WantedOf
  BY <1>1, StepMap DEF RInv
<1>7. CASE op[g] = "commit"
  <2>1. Phase(g) = "publishing"
    BY <1>2, <1>7 DEF Phase
  <2>2. Phase(g)' = "published" /\ Wanted(g)' = Wanted(g)
    BY <1>2, <1>7, FinishMap DEF RInv
  <2>3. \A s \in Services(g) : FileOf[s] \in created[g]
    BY <1>7 DEF Services, RInv, CInv, CommitInv, Current
  <2>4. Wanted(g) \subseteq created[g]
    BY <2>3 DEF Wanted
  <2> QED
    BY <1>3, <1>4, <1>5, <1>6, <2>1, <2>2, <2>4 DEF P!Succeed, Reload
<1>8. CASE op[g] = "thaw"
  <2>1. state[g] = "ESTABLISHED"
    BY <1>8 DEF RInv, IInv, GroupInv
  <2>2. Phase(g) = "published"
    BY <1>2, <1>8 DEF Phase
  <2>3. Phase(g)' = "published" /\ Wanted(g)' = Wanted(g)
    BY <1>2, <1>8, <2>1, FinishMap DEF RInv
  <2>4. PhaseOf' = PhaseOf
    BY <1>1, <2>2, <2>3, StepMap DEF RInv
  <2> QED
    BY <1>3, <1>6, <2>3, <2>4 DEF P!Announce, Reload
<1>9. CASE op[g] \in Withdrawing
  <2>1. created[g] = {}
    BY <1>2, <1>9 DEF RInv, IInv, GroupInv
  <2>2. Phase(g) = "withdrawing"
    BY <1>2, <1>9 DEF Phase, Withdrawing
  <2>3. /\ op[g] = "dispose" => Phase(g)' = "dead" /\ Wanted(g)' = {}
        /\ op[g] = "reset" => Phase(g)' = "idle" /\ Wanted(g)' = {}
        /\ op[g] = "abort" => Phase(g)' = "idle" /\ Wanted(g)' = Wanted(g)
    BY <1>2, FinishMap DEF RInv
  <2>4. P!ComesToRest(g)
    BY <1>4, <1>5, <1>6, <1>9, <2>1, <2>3 DEF P!ComesToRest, Reload, Withdrawing
  <2> QED
    BY <1>3, <1>4, <2>2, <2>4 DEF P!Withdrawn
<1> QED
  BY <1>2, <1>7, <1>8, <1>9 DEF Op, Withdrawing

\* Where the mapping goes through the steps that write nothing.
LEMMA CallSimulates ==
  ASSUME RInv, NEW g \in Group,
         Commit(g) \/ HandlersReturn(g) \/ NewGroup(g) \/ EnsureDir(g) \/ AllWritten(g)
  PROVE  P!Begin(g) \/ P!Renew(g) \/ UNCHANGED P!vars
<1> USE DEF AppRuns, shared
<1>1. GroupCall(g) \/ HandlersReturn(g) \/ Crash(g) \/ Step(g)
  BY DEF GroupCall, Step
<1>2. svc' = svc /\ UNCHANGED <<created, owner, disk, loaded>>
  BY DEF Commit, HandlersReturn, NewGroup, EnsureDir, AllWritten
<1>3. Wanted(g)' = Wanted(g)
  BY <1>2 DEF Wanted, Services
<1>4. FreshOf' = FreshOf
  BY <1>2, FreshMap
<1>5. PhaseOf'  = [PhaseOf EXCEPT ![g] = Phase(g)'] /\ PhaseOf[g] = Phase(g)
  BY <1>1, StepMap DEF RInv
<1>6. WantedOf' = WantedOf
  BY <1>1, <1>3, StepMap DEF RInv
<1>7. Phase(g)' = Phase(g) => PhaseOf' = PhaseOf
  BY <1>1, StepMap DEF RInv
<1>8. \/ Phase(g)' = Phase(g)
      \/ Phase(g) = "dead" /\ Phase(g)' = "idle"
      \/ Phase(g) \in {"idle", "published"} /\ Phase(g)' = "publishing"
  <2>1. CASE Commit(g)
    <3>1. pc'[g] = "app" /\ state'[g] = "REGISTERING" /\ pc[g] = "app"
      BY <2>1 DEF Commit, RInv, IInv, TypeOK
    <3>2. Phase(g)' = "publishing"
      BY <3>1 DEF Phase
    <3>3. Phase(g) \in {"idle", "published", "publishing"}
      BY <3>1 DEF Phase
    <3> QED
      BY <3>2, <3>3
  <2>2. CASE HandlersReturn(g)
    <3>1. pc'[g] = "mkdir" /\ pc[g] = "app"
      BY <2>2 DEF HandlersReturn, RInv, IInv, TypeOK
    <3>2. Phase(g)' = "publishing"
      BY <3>1 DEF Phase
    <3>3. Phase(g) \in {"idle", "published", "publishing"}
      BY <3>1 DEF Phase
    <3> QED
      BY <3>2, <3>3
  <2>3. CASE NewGroup(g)
    <3>1. pc'[g] = "app" /\ state'[g] = "UNCOMMITED" /\ pc[g] \in {"gone", "crashed"}
      BY <2>3 DEF NewGroup, RInv, IInv, TypeOK
    <3> QED
      BY <3>1 DEF Phase
  <2>4. CASE EnsureDir(g)
    <3>1. pc'[g] = "writing" /\ pc[g] = "mkdir"
      BY <2>4 DEF EnsureDir, RInv, IInv, TypeOK
    <3> QED
      BY <3>1 DEF Phase
  <2>5. CASE AllWritten(g)
    <3>1. pc'[g] = "reloading" /\ op'[g] = "commit" /\ pc[g] = "writing"
      BY <2>5 DEF AllWritten, RInv, IInv, TypeOK
    <3> QED
      BY <3>1 DEF Phase
  <2> QED
    BY <2>1, <2>2, <2>3, <2>4, <2>5
<1> QED
  BY <1>2, <1>4, <1>5, <1>6, <1>7, <1>8 DEF P!Begin, P!Renew, P!vars

\* The directory cannot be made; nothing has been created.
LEMMA EnsureDirFailsSimulates ==
  ASSUME RInv, NEW g \in Group, EnsureDirFails(g)
  PROVE  P!NothingToWithdraw(g)
<1> USE DEF shared
<1>1. Step(g)
  BY DEF Step
<1>2. created[g] = {}
  BY DEF EnsureDirFails, RInv, IInv, GroupInv
<1>3. pc[g] = "mkdir" /\ pc'[g] = "app" /\ state'[g] = "FAILURE"
  BY DEF EnsureDirFails, RInv, IInv, TypeOK
<1>4. Phase(g) = "publishing" /\ Phase(g)' = "idle"
  BY <1>3 DEF Phase
<1>5. Wanted(g)' = Wanted(g)
  BY DEF EnsureDirFails, Wanted, Services
<1>6. WantedOf' = WantedOf
  BY <1>1, <1>5, StepMap DEF RInv
<1>7. PhaseOf' = [PhaseOf EXCEPT ![g] = "idle"] /\ PhaseOf[g] = "publishing"
  BY <1>1, <1>4, StepMap DEF RInv
<1>8. FreshOf' = FreshOf
  BY FreshMap DEF EnsureDirFails
<1> QED
  BY <1>2, <1>6, <1>7, <1>8
  DEF P!NothingToWithdraw, P!ComesToRest, P!InUse, EnsureDirFails

\* A service is written.
LEMMA WriteSimulates ==
  ASSUME RInv, NEW g \in Group, NEW s \in Service, WriteService(g, s)
  PROVE  P!Put(g, FileOf[s])
<1> DEFINE f == FileOf[s]
<1>1. Step(g) /\ f \in File
  BY FileOfType DEF Step
<1>2. GroupOf[s] = g /\ svc[s] # None
  BY DEF WriteService, RInv, IInv, GroupInv
<1>3. f \in Wanted(g)
  BY <1>2 DEF Wanted, Services
<1>4. pc[g] = "writing" /\ pc' = pc
  BY DEF WriteService
<1>5. Phase(g) = "publishing" /\ Phase(g)' = "publishing"
  BY <1>4 DEF Phase
<1>6. \A t \in Service : svc'[t] # None <=> svc[t] # None
  <2>1. [svc EXCEPT ![s].file = f, ![s].dirty = FALSE] \in [Service -> Handle \cup {None}]
    BY <1>2, HandleType DEF RInv, IInv
  <2>2. svc[s] \in Handle
    BY <1>2 DEF RInv, IInv, TypeOK
  <2>3. svc'[s] = [svc[s] EXCEPT !.file = f, !.dirty = FALSE]
    BY <2>2 DEF WriteService, RInv, IInv, TypeOK
  <2>4. [svc[s] EXCEPT !.file = f, !.dirty = FALSE] \in Handle
    BY <1>1, <2>2 DEF Handle
  <2>5. svc'[s] # None
    BY <2>3, <2>4, NoneIsNew
  <2>6. \A t \in Service \ {s} : svc'[t] = svc[t]
    BY DEF WriteService, RInv, IInv, TypeOK
  <2> QED
    BY <1>2, <2>5, <2>6
<1>7. Wanted(g)' = Wanted(g)
  BY <1>6 DEF Wanted, Services
<1>8. /\ PhaseOf' = PhaseOf /\ PhaseOf[g] = "publishing"
      /\ WantedOf' = WantedOf /\ WantedOf[g] = Wanted(g)
  BY <1>1, <1>5, <1>7, StepMap DEF RInv
<1>9. \A e \in File \ {f} : disk'[e] = disk[e]
  BY DEF WriteService, PutFile, RInv, IInv, TypeOK
<1>10. \E b \in BOOLEAN : FreshOf' = [FreshOf EXCEPT ![f] = b]
  BY <1>1, <1>9, FreshMap DEF WriteService
<1> QED
  BY <1>2, <1>3, <1>8, <1>10 DEF WriteService, PutFile, P!Put

\* The process is killed.
LEMMA CrashSimulates ==
  ASSUME RInv, NEW g \in Group, Crash(g)
  PROVE  P!Die(g)
<1>1. pc[g] \notin {"gone", "crashed"} /\ pc'[g] = "crashed"
  BY DEF Crash, RInv, IInv, TypeOK
<1>2. Phase(g) # "dead"
  BY <1>1 DEF Phase
<1>3. Phase(g)' = "dead"
  BY <1>1 DEF Phase
<1>4. Services(g)' = {}
  BY DEF Crash, Services
<1>5. Wanted(g)' = {}
  BY <1>4 DEF Wanted
<1>6. /\ PhaseOf' = [PhaseOf EXCEPT ![g] = "dead"] /\ PhaseOf[g] = Phase(g)
      /\ WantedOf' = [WantedOf EXCEPT ![g] = {}]
  BY <1>3, <1>5, StepMap DEF RInv
<1>7. FreshOf' = FreshOf
  BY FreshMap DEF Crash
<1> QED
  BY <1>2, <1>6, <1>7 DEF Crash, P!Die

\* Calls on a service handle.
LEMMA ServiceCallSimulates ==
  ASSUME RInv, NEW s \in Service, ServiceCall(s)
  PROVE  \/ P!Want(GroupOf[s], FileOf[s])
         \/ P!Put(GroupOf[s], FileOf[s])
         \/ UNCHANGED P!vars
<1> DEFINE g == GroupOf[s]
           f == FileOf[s]
<1> USE DEF AppRuns, local, shared
<1>1. g \in Group /\ f \in File
  BY GroupOfType, FileOfType
<1>2. pc[g] = "app"
  BY DEF ServiceCall, AddService, SetTxt, Freeze, ThawInMemory, ThawWrites,
         ThawFails, UpdateHandle
<1>3. Phase(g) \in {"idle", "publishing", "published"}
  BY <1>2 DEF Phase
<1>4. ASSUME NEW t \in Txt, AddService(s, t)
      PROVE  P!Want(g, f)
  <2>1. [txt |-> t, frozen |-> FALSE, file |-> None, dirty |-> TRUE] \in Handle
    BY DEF Handle
  <2>2. svc'[s] # None /\ \A u \in Service \ {s} : svc'[u] = svc[u]
    BY <1>4, <2>1, NoneIsNew DEF AddService, RInv, IInv, TypeOK
  <2>3. Services(g)' = Services(g) \cup {s}
    BY <2>2 DEF Services
  <2>4. Wanted(g)' = Wanted(g) \cup {f}
    BY <2>3 DEF Wanted
  <2>5. \A h \in Group \ {g} : Wanted(h)' = Wanted(h)
    BY <2>2 DEF Wanted, Services
  <2>6. \A h \in Group : Phase(h)' = Phase(h)
    BY <1>4 DEF AddService, Phase
  <2>7. /\ WantedOf' = [WantedOf EXCEPT ![g] = Wanted(g)'] /\ WantedOf[g] = Wanted(g)
        /\ PhaseOf' = PhaseOf /\ PhaseOf[g] = Phase(g)
    BY <1>1, <2>5, <2>6, OneGroupMap
  <2>8. FreshOf' = FreshOf
    BY <1>4, FreshMap DEF AddService
  <2> QED
    BY <1>3, <1>4, <2>4, <2>7, <2>8 DEF AddService, P!Want, P!InUse
<1>5. ASSUME NEW h \in Handle, UpdateHandle(s, h)
      PROVE  UNCHANGED P!vars
  <2>1. \A u \in Service : svc'[u] # None <=> svc[u] # None
    BY <1>5, NoneIsNew DEF UpdateHandle, RInv, IInv, TypeOK
  <2>2. \A x \in Group : Wanted(x)' = Wanted(x)
    BY <2>1 DEF Wanted, Services
  <2>3. \A x \in Group : Phase(x)' = Phase(x)
    BY <1>5 DEF UpdateHandle, Phase
  <2>4. WantedOf' = WantedOf /\ PhaseOf' = PhaseOf
    BY <2>2, <2>3 DEF WantedOf, PhaseOf
  <2>5. FreshOf' = FreshOf
    BY <1>5, FreshMap DEF UpdateHandle
  <2> QED
    BY <1>5, <2>4, <2>5 DEF UpdateHandle, P!vars
<1>6. CASE Freeze(s)
  BY <1>5, <1>6, HandleType DEF Freeze, UpdateHandle, RInv, IInv
<1>7. ASSUME NEW k \in Key, NEW v \in Value \cup {None}, SetTxt(s, k, v)
      PROVE  UNCHANGED P!vars
  BY <1>5, <1>7, HandleType DEF SetTxt, UpdateHandle, RInv, IInv
<1>8. CASE ThawInMemory(s)
  BY <1>5, <1>8, HandleType DEF ThawInMemory, RInv, IInv
<1>9. CASE ThawFails(s)
  BY <1>5, <1>9, HandleType DEF ThawFails, RInv, IInv
<1>10. CASE ThawWrites(s)
  <2>1. svc[s] # None /\ state[g] = "ESTABLISHED" /\ svc[s].file # None
    BY <1>10 DEF ThawWrites, Rewrites
  <2>2. op[g] = "none"
    BY <1>1, <1>2 DEF RInv, IInv, GroupInv
  <2>3. f \in created[g]
    BY <2>1, <2>2 DEF RInv, CInv, CommitInv, Current, Withdrawing
  <2>4. Phase(g) = "published"
    BY <1>2, <2>1 DEF Phase
  <2>5. pc'[g] = "reloading" /\ op'[g] = "thaw"
    BY <1>1, <1>10 DEF ThawWrites, RInv, IInv, TypeOK
  <2>6. Phase(g)' = "published"
    BY <2>5 DEF Phase
  <2>7. \A h \in Group \ {g} : pc'[h] = pc[h] /\ op'[h] = op[h] /\ state'[h] = state[h]
    BY <1>1, <1>10 DEF ThawWrites, RInv, IInv, TypeOK
  <2>8. \A h \in Group : Phase(h)' = Phase(h)
    BY <2>4, <2>6, <2>7 DEF Phase
  <2>9. \A u \in Service : svc'[u] # None <=> svc[u] # None
    <3>1. svc[s] \in Handle
      BY <2>1 DEF RInv, IInv, TypeOK
    <3>2. svc'[s] = [svc[s] EXCEPT !.frozen = FALSE, !.dirty = FALSE]
      BY <1>10, <3>1 DEF ThawWrites, RInv, IInv, TypeOK
    <3>3. [svc[s] EXCEPT !.frozen = FALSE, !.dirty = FALSE] \in Handle
      BY <3>1 DEF Handle
    <3>4. svc'[s] # None
      BY <3>2, <3>3, NoneIsNew
    <3>5. \A u \in Service \ {s} : svc'[u] = svc[u]
      BY <1>10 DEF ThawWrites, RInv, IInv, TypeOK
    <3> QED
      BY <2>1, <3>4, <3>5
  <2>10. \A h \in Group : Wanted(h)' = Wanted(h)
    BY <2>9 DEF Wanted, Services
  <2>11. WantedOf' = WantedOf /\ PhaseOf' = PhaseOf /\ PhaseOf[g] = "published"
    BY <1>1, <2>4, <2>8, <2>10 DEF WantedOf, PhaseOf
  <2>12. \A e \in File \ {f} : disk'[e] = disk[e]
    BY <1>10 DEF ThawWrites, PutFile, RInv, IInv, TypeOK
  <2>13. \E b \in BOOLEAN : FreshOf' = [FreshOf EXCEPT ![f] = b]
    BY <1>1, <1>10, <2>12, FreshMap DEF ThawWrites
  <2>14. created' = [created EXCEPT ![g] = @ \cup {f}]
    BY <1>1, <1>10, <2>3 DEF ThawWrites, RInv, IInv, TypeOK
  <2> QED
    BY <1>10, <2>3, <2>11, <2>13, <2>14 DEF ThawWrites, PutFile, P!Put
<1> QED
  BY <1>4, <1>6, <1>7, <1>8, <1>9, <1>10 DEF ServiceCall

\* Every step is one of Publication's, or none.
LEMMA NextSimulates ==
  ASSUME UnlinkMayFail = FALSE, ReloadMayFail = FALSE, RInv, [Next]_vars
  PROVE  [P!Next]_P!vars
<1> USE DEF local, shared
<1>1. ASSUME NEW s \in Service, ServiceCall(s)
      PROVE  [P!Next]_P!vars
  <2>1. GroupOf[s] \in Group /\ FileOf[s] \in File
    BY GroupOfType, FileOfType
  <2> QED
    BY <1>1, <2>1, ServiceCallSimulates DEF P!Next
<1>2. ASSUME NEW g \in Group, GroupCall(g) \/ HandlersReturn(g) \/ Crash(g) \/ Step(g)
      PROVE  [P!Next]_P!vars
  <2>1. CASE Commit(g) \/ HandlersReturn(g) \/ NewGroup(g) \/ EnsureDir(g) \/ AllWritten(g)
    BY <2>1, CallSimulates DEF P!Next
  <2>2. CASE EnsureDirFails(g)
    BY <2>2, EnsureDirFailsSimulates DEF P!Next
  <2>3. ASSUME NEW s \in Service, WriteService(g, s)
        PROVE  [P!Next]_P!vars
    BY <2>3, FileOfType, WriteSimulates DEF P!Next
  <2>4. CASE Crash(g)
    BY <2>4, CrashSimulates DEF P!Next
  <2>5. ASSUME NEW call \in Withdrawing, Cleanup(g, call), pc[g] \in {"app", "writing"},
               UNCHANGED <<created, disk, loaded, owner>>
        PROVE  [P!Next]_P!vars
    BY <1>2, <2>5, CleanupSimulates DEF P!Next
  <2>6. CASE Reset(g) \/ Dispose(g) \/ WriteFails(g)
    BY <2>5, <2>6 DEF Reset, Dispose, WriteFails, Withdrawing, AppRuns
  <2>7. ASSUME NEW f \in File, Unlink(g, f)
        PROVE  [P!Next]_P!vars
    BY <2>7, UnlinkSimulates DEF P!Next
  <2>8. CASE Unlinked(g)
    BY <2>8, UnlinkedSimulates DEF P!Next
  <2>9. CASE Reload(g)
    BY <2>9, ReloadSimulates DEF P!Next
  <2> QED
    BY <1>2, <2>1, <2>2, <2>3, <2>4, <2>6, <2>7, <2>8, <2>9 DEF GroupCall, Step
<1>3. CASE ResolvedReloads
  <2>1. PhaseOf' = PhaseOf /\ WantedOf' = WantedOf
    BY <1>3 DEF ResolvedReloads, PhaseOf, Phase, WantedOf, Wanted, Services
  <2>2. FreshOf' = P!AllFresh
    BY <1>3, FreshMap DEF ResolvedReloads
  <2> QED
    BY <1>3, <2>1, <2>2 DEF ResolvedReloads, P!Announce, P!Next
<1>4. CASE UNCHANGED vars
  <2>1. PhaseOf' = PhaseOf /\ WantedOf' = WantedOf
    BY <1>4 DEF vars, PhaseOf, Phase, WantedOf, Wanted, Services
  <2>2. FreshOf' = FreshOf
    BY <1>4, FreshMap DEF vars
  <2> QED
    BY <1>4, <2>1, <2>2 DEF vars, P!vars
<1> QED
  BY <1>1, <1>2, <1>3, <1>4 DEF Next

\* New groups have published nothing.
LEMMA InitSimulates == Init => P!Init
<1> SUFFICES ASSUME Init PROVE P!Init
  OBVIOUS
<1>1. PhaseOf = [g \in Group |-> "idle"]
  BY DEF Init, PhaseOf, Phase
<1>2. \A g \in Group : Services(g) = {}
  BY DEF Init, Services
<1>3. WantedOf = [g \in Group |-> {}]
  BY <1>2 DEF WantedOf, Wanted
<1>4. FreshOf = [f \in File |-> TRUE]
  BY DEF Init, FreshOf
<1> QED
  BY <1>1, <1>3, <1>4 DEF Init, P!Init

(* Publishing is what Publication says: ga_entry_group_commit reports        *)
(* ESTABLISHED only with every service in a file the group will withdraw and *)
(* with resolved told, and no failure, reset, dispose, thaw, nested commit   *)
(* or kill leaves a file of an idle group behind.                            *)
THEOREM PublicationImplemented ==
  ASSUME UnlinkMayFail = FALSE, ReloadMayFail = FALSE
  PROVE  Spec => Publishes
<1>1. Init => P!Init
  BY InitSimulates
<1>2. RInv /\ [Next]_vars => [P!Next]_P!vars
  BY NextSimulates
<1>3. Init => OwnerInv
  BY NoneIsNew DEF Init, OwnerInv
<1>4. IInv /\ CInv /\ OwnerInv /\ [Next]_vars => OwnerInv'
  BY NextOwner
<1>5. Spec => []RInv
  BY <1>3, <1>4, Invariance, CommitInvariance, PTL DEF Spec, RInv
<1> QED
  BY <1>1, <1>2, <1>5, PTL DEF Spec, Publishes, P!Spec

-----------------------------------------------------------------------------
(* What Publication promises                                                *)

\* A file that shows is held, and only a group at work holds files.
PInv ==
  /\ P!TypeOK
  /\ \A g \in Group : PhaseOf[g] \in {"idle", "dead"} => created[g] = {}
  /\ \A g \in Group, f \in File : owner[f] = g => f \in created[g]

LEMMA PromiseStarts == P!Init => PInv
BY NoneIsNew DEF P!Init, PInv, P!TypeOK

LEMMA PromiseStays == PInv /\ [P!Next]_(P!vars) => PInv'
<1> SUFFICES ASSUME PInv, [P!Next]_(P!vars) PROVE PInv'
  OBVIOUS
<1> USE DEF PInv, P!TypeOK
<1>1. CASE P!Announce
  BY <1>1 DEF P!Announce, P!AllFresh
<1>2. CASE UNCHANGED P!vars
  BY <1>2 DEF P!vars
<1>3. ASSUME NEW g \in Group, P!Begin(g) \/ P!GiveUp(g) \/ P!Renew(g) PROVE PInv'
  BY <1>3 DEF P!Begin, P!GiveUp, P!Renew, P!InUse
<1>4. ASSUME NEW g \in Group, P!Succeed(g) PROVE PInv'
  BY <1>4 DEF P!Succeed, P!AllFresh
<1>5. ASSUME NEW g \in Group, P!Release(g) PROVE PInv'
  BY <1>5 DEF P!Release
<1>6. ASSUME NEW g \in Group, P!Withdrawn(g) \/ P!NothingToWithdraw(g) PROVE PInv'
  <2>1. PICK p \in {"idle", "dead"} : PhaseOf' = [PhaseOf EXCEPT ![g] = p]
    BY <1>6 DEF P!Withdrawn, P!NothingToWithdraw, P!ComesToRest
  <2>2. created[g] = {} /\ UNCHANGED <<created, owner>>
    BY <1>6 DEF P!Withdrawn, P!NothingToWithdraw, P!ComesToRest
  <2>3. FreshOf' \in [File -> BOOLEAN]
    BY <1>6 DEF P!Withdrawn, P!NothingToWithdraw, P!AllFresh
  <2>4. WantedOf' \in [Group -> SUBSET File]
    BY <1>6 DEF P!Withdrawn, P!NothingToWithdraw, P!ComesToRest
  <2> QED
    BY <2>1, <2>2, <2>3, <2>4
<1>7. ASSUME NEW g \in Group, P!Die(g) PROVE PInv'
  BY <1>7, NoneIsNew DEF P!Die
<1>8. ASSUME NEW g \in Group, NEW f \in File, P!Want(g, f) PROVE PInv'
  BY <1>8 DEF P!Want, P!InUse
<1>9. ASSUME NEW g \in Group, NEW f \in File, P!Put(g, f) PROVE PInv'
  BY <1>9 DEF P!Put
<1>10. ASSUME NEW g \in Group, NEW f \in File, P!Take(g, f) PROVE PInv'
  BY <1>10, NoneIsNew DEF P!Take
<1> QED
  BY <1>1, <1>2, <1>3, <1>4, <1>5, <1>6, <1>7, <1>8, <1>9, <1>10 DEF P!Next

\* Publication is a specification worth implementing: in whatever implements it a
\* group that is unpublished, failed or gone shows no file.
THEOREM PublicationKeepsPromise == Publishes => []P!NothingShown
<1>1. PInv => P!NothingShown
  BY DEF PInv, P!NothingShown
<1> QED
  BY <1>1, PromiseStarts, PromiseStays, PTL DEF Publishes, P!Spec

===============================================================================
