------------------------------ MODULE EntryGroup ------------------------------
(***************************************************************************)
(* GaEntryGroup (ga-entry-group.c): publishing services by writing .dnssd  *)
(* files into the shared directory /run/systemd/dnssd and asking           *)
(* systemd-resolved to reload it.                                          *)
(*                                                                         *)
(* Every group lives in a process of its own, so groups interleave at      *)
(* every system call: the mkdir, each file written, each file unlinked and *)
(* the ReloadDNSSD call is a step.  Inside a group the calls are           *)
(* sequential but re-entrant: ga_entry_group_commit emits "state-changed"  *)
(* for REGISTERING before it touches the disk, and the application's       *)
(* handler may call back into the group.  Every other emission is the last *)
(* thing its call does, so its handlers are the application code that      *)
(* follows the call.  A suspended commit has no local state yet, so the    *)
(* stack of suspended commits is a number, depth[g].                       *)
(***************************************************************************)
EXTENDS Naturals

CONSTANTS
  Group,          \* the GaEntryGroup objects
  Service,        \* the GaEntryGroupService handles: a group, a name, a type, a port
  File,           \* paths of .dnssd files
  GroupOf,        \* [Service -> Group], the group a handle is added to
  FileOf,         \* [Service -> File], what generate_dnssd_filename makes of it
  Key, Value,     \* keys of TXT entries, and what a key can be set to
  MaxDepth,       \* bound: commits of a group nested in its own handlers
  ReloadMayFail,  \* can the ReloadDNSSD call be lost (no bus, unknown method)?
  UnlinkMayFail,  \* can unlink fail with an errno other than ENOENT?
  MayCrash,       \* can a publishing process be killed?
  None            \* no file, no content, no owner, no entry, a handle not in use

Txt     == [Key -> Value \cup {None}]
Content == [service : Service, txt : Txt]
Handle  == [txt : Txt, frozen : BOOLEAN, file : File \cup {None}, dirty : BOOLEAN]

GaEntryGroupState ==
  {"UNCOMMITED", "REGISTERING", "ESTABLISHED", "COLLISION", "FAILURE"}

ASSUME GroupOfType == GroupOf \in [Service -> Group]
ASSUME FileOfType  == FileOf \in [Service -> File]
ASSUME DepthType   == MaxDepth \in Nat
ASSUME SwitchType  == {ReloadMayFail, UnlinkMayFail, MayCrash} \subseteq BOOLEAN
ASSUME NoneIsNew   == /\ None \notin Group
                      /\ None \notin File
                      /\ None \notin Value
                      /\ None \notin Content
                      /\ None \notin Handle

VARIABLES
  state,    \* priv->state of every group
  svc,      \* the handles in the groups' service tables (None: not in use)
  created,  \* priv->created_files; a set, unlinking a path twice is harmless
  pc,       \* where the thread that uses the group is
  op,       \* the call that is cleaning up or reloading
  depth,    \* commits suspended in the REGISTERING emission
  todo,     \* commit: services the loop has still to write
  togo,     \* cleanup_dnssd_files: paths the loop has still to unlink
  dir,      \* does /run/systemd/dnssd exist?
  disk,     \* its .dnssd files
  loaded,   \* what systemd-resolved read at its last (re)load
  owner     \* history: the group object that wrote a file last, while it lives

local  == <<state, created, pc, op, depth, todo, togo>>
shared == <<dir, disk, loaded, owner>>
vars   == <<local, svc, shared>>

Services(g) == {s \in Service : GroupOf[s] = g /\ svc[s] # None}
Shown(s)    == [service |-> s, txt |-> svc[s].txt]

\* The application (or one of its handlers) may call into group g.
AppRuns(g) == pc[g] = "app"

TypeOK ==
  /\ state   \in [Group -> GaEntryGroupState]
  /\ svc     \in [Service -> Handle \cup {None}]
  /\ created \in [Group -> SUBSET File]
  /\ pc      \in [Group -> {"app", "mkdir", "writing", "unlinking",
                            "reloading", "gone", "crashed"}]
  /\ op      \in [Group -> {"none", "commit", "abort", "reset", "dispose", "thaw"}]
  /\ depth   \in [Group -> 0..MaxDepth]
  /\ todo    \in [Group -> SUBSET Service]
  /\ togo    \in [Group -> SUBSET File]
  /\ dir     \in BOOLEAN
  /\ disk    \in [File -> Content \cup {None}]
  /\ loaded  \in [File -> Content \cup {None}]
  /\ owner   \in [File -> Group \cup {None}]

Init ==
  /\ state   = [g \in Group |-> "UNCOMMITED"]
  /\ svc     = [s \in Service |-> None]
  /\ created = [g \in Group |-> {}]
  /\ pc      = [g \in Group |-> "app"]
  /\ op      = [g \in Group |-> "none"]
  /\ depth   = [g \in Group |-> 0]
  /\ todo    = [g \in Group |-> {}]
  /\ togo    = [g \in Group |-> {}]
  /\ dir     \in BOOLEAN
  /\ disk    = [f \in File |-> None]
  /\ loaded  = [f \in File |-> None]
  /\ owner   = [f \in File |-> None]

-----------------------------------------------------------------------------
(* The service table: calls that only touch memory.                        *)

\* ga_entry_group_add_service and its variants; t is the parsed string list.
AddService(s, t) ==
  /\ AppRuns(GroupOf[s])
  /\ svc[s] = None
  /\ svc' = [svc EXCEPT ![s] =
               [txt |-> t, frozen |-> FALSE, file |-> None, dirty |-> TRUE]]
  /\ UNCHANGED <<local, shared>>

UpdateHandle(s, h) ==
  /\ AppRuns(GroupOf[s])
  /\ svc[s] # None
  /\ svc' = [svc EXCEPT ![s] = h]
  /\ UNCHANGED <<local, shared>>

Freeze(s) == UpdateHandle(s, [svc[s] EXCEPT !.frozen = TRUE])

\* service_set, service_set_arbitrary and service_remove_key (v = None).  The
\* frozen flag is not looked at and nothing is written.
SetTxt(s, k, v) ==
  UpdateHandle(s, [svc[s] EXCEPT !.txt[k] = v, !.dirty = TRUE])

-----------------------------------------------------------------------------
(* Steps that write, unlink and reload.                                    *)

\* g_file_set_contents replaces the file atomically.
PutFile(s) ==
  /\ disk'  = [disk EXCEPT ![FileOf[s]] = Shown(s)]
  /\ owner' = [owner EXCEPT ![FileOf[s]] = GroupOf[s]]

\* Mutant: the two outcomes of a commit are swapped in the failure branch.
FinishEstablished(g, call) ==
  /\ pc' = [pc EXCEPT ![g] = IF call = "dispose" THEN "gone" ELSE "app"]
  /\ op' = [op EXCEPT ![g] = "none"]
  /\ state' = [state EXCEPT ![g] =
                 CASE call \in {"commit", "abort"} -> "ESTABLISHED"
                   [] call = "reset" -> "UNCOMMITED"
                   [] OTHER          -> @]
  /\ svc' = [s \in Service |->
               IF GroupOf[s] = g /\ call \in {"reset", "dispose"} THEN None ELSE svc[s]]

\* The end of a call: the state it leaves the group in, and its services.
Finish(g, call) ==
  /\ pc' = [pc EXCEPT ![g] = IF call = "dispose" THEN "gone" ELSE "app"]
  /\ op' = [op EXCEPT ![g] = "none"]
  /\ state' = [state EXCEPT ![g] =
                 CASE call = "commit" -> "ESTABLISHED"
                   [] call = "abort"  -> "FAILURE"
                   [] call = "reset"  -> "UNCOMMITED"
                   [] OTHER           -> @]
  /\ svc' = [s \in Service |->
               IF GroupOf[s] = g /\ call \in {"reset", "dispose"} THEN None ELSE svc[s]]

\* Mutant: everything in the directory is removed, not only what was created.
CleanupDirectory(g, call) ==
  \/ /\ created[g] = {}
     /\ Finish(g, call)
     /\ UNCHANGED togo
  \/ /\ created[g] # {}
     /\ pc'   = [pc EXCEPT ![g] = "unlinking"]
     /\ op'   = [op EXCEPT ![g] = call]
     /\ togo' = [togo EXCEPT ![g] = File]
     /\ UNCHANGED <<state, svc>>

\* cleanup_dnssd_files(): with nothing created it does not even reload.
Cleanup(g, call) ==
  \/ /\ created[g] = {}
     /\ Finish(g, call)
     /\ UNCHANGED togo
  \/ /\ created[g] # {}
     /\ pc'   = [pc EXCEPT ![g] = "unlinking"]
     /\ op'   = [op EXCEPT ![g] = call]
     /\ togo' = [togo EXCEPT ![g] = created[g]]
     /\ UNCHANGED <<state, svc>>

\* Mutant: the index of the loop is not advanced.
UnlinkAgain(g, f) ==
  /\ pc[g] = "unlinking"
  /\ f \in togo[g]
  /\ disk'  = [disk EXCEPT ![f] = None]
  /\ owner' = [owner EXCEPT ![f] = None]
  /\ UNCHANGED <<state, created, pc, op, depth, todo, togo, svc, dir, loaded>>

Unlink(g, f) ==
  /\ pc[g] = "unlinking"
  /\ f \in togo[g]
  /\ togo' = [togo EXCEPT ![g] = @ \ {f}]
  /\ \/ /\ disk'  = [disk EXCEPT ![f] = None]
        /\ owner' = [owner EXCEPT ![f] = None]
     \/ UnlinkMayFail /\ UNCHANGED <<disk, owner>>
  /\ UNCHANGED <<state, created, pc, op, depth, todo, svc, dir, loaded>>

\* Mutant: g_ptr_array_set_size is missing.
UnlinkedKeepsArray(g) ==
  /\ pc[g] = "unlinking"
  /\ togo[g] = {}
  /\ pc' = [pc EXCEPT ![g] = "reloading"]
  /\ UNCHANGED <<state, created, op, depth, todo, togo, svc, shared>>

\* Mutant: nobody is told that the files are gone.
UnlinkedQuietly(g) ==
  /\ pc[g] = "unlinking"
  /\ togo[g] = {}
  /\ created' = [created EXCEPT ![g] = {}]
  /\ Finish(g, op[g])
  /\ UNCHANGED <<depth, todo, togo, shared>>

\* The array of created files is emptied whatever the unlinks returned.
Unlinked(g) ==
  /\ pc[g] = "unlinking"
  /\ togo[g] = {}
  /\ created' = [created EXCEPT ![g] = {}]
  /\ pc'      = [pc EXCEPT ![g] = "reloading"]
  /\ UNCHANGED <<state, op, depth, todo, togo, svc, shared>>

\* The ReloadDNSSD call, whose result nobody looks at, and the rest of the call.
Reload(g) ==
  /\ pc[g] = "reloading"
  /\ \/ loaded' = disk
     \/ ReloadMayFail /\ UNCHANGED loaded
  /\ Finish(g, op[g])
  /\ UNCHANGED <<created, depth, todo, togo, dir, disk, owner>>

-----------------------------------------------------------------------------
(* ga_entry_group_service_thaw                                             *)

\* It writes only for a group that is established and a service committed before.
Rewrites(s) == state[GroupOf[s]] = "ESTABLISHED" /\ svc[s].file # None

ThawInMemory(s) ==
  /\ svc[s] # None /\ ~Rewrites(s)
  /\ UpdateHandle(s, [svc[s] EXCEPT !.frozen = FALSE])

\* Mutant: the reload after the write is missing.
ThawWritesOnly(s) ==
  /\ svc[s] # None /\ Rewrites(s)
  /\ AppRuns(GroupOf[s])
  /\ PutFile(s)
  /\ svc' = [svc EXCEPT ![s].frozen = FALSE, ![s].dirty = FALSE]
  /\ UNCHANGED <<local, dir, loaded>>

ThawWrites(s) ==
  /\ AppRuns(GroupOf[s])
  /\ svc[s] # None /\ Rewrites(s)
  /\ PutFile(s)
  /\ svc' = [svc EXCEPT ![s].frozen = FALSE, ![s].dirty = FALSE]
  /\ pc'  = [pc EXCEPT ![GroupOf[s]] = "reloading"]
  /\ op'  = [op EXCEPT ![GroupOf[s]] = "thaw"]
  /\ UNCHANGED <<state, created, depth, todo, togo, dir, loaded>>

ThawFails(s) ==
  /\ svc[s] # None /\ Rewrites(s)
  /\ UpdateHandle(s, [svc[s] EXCEPT !.frozen = FALSE])

-----------------------------------------------------------------------------
(* ga_entry_group_commit                                                   *)

\* REGISTERING is set and emitted: the application's handlers run next.
Commit(g) ==
  /\ AppRuns(g)
  /\ depth[g] < MaxDepth
  /\ state' = [state EXCEPT ![g] = "REGISTERING"]
  /\ depth' = [depth EXCEPT ![g] = @ + 1]
  /\ UNCHANGED <<created, pc, op, todo, togo, svc, shared>>

\* The handlers of the innermost suspended commit return, and it goes on.
HandlersReturn(g) ==
  /\ AppRuns(g)
  /\ depth[g] > 0
  /\ depth' = [depth EXCEPT ![g] = @ - 1]
  /\ pc'    = [pc EXCEPT ![g] = "mkdir"]
  /\ UNCHANGED <<state, created, op, todo, togo, svc, shared>>

EnsureDir(g) ==
  /\ pc[g] = "mkdir"
  /\ dir'  = TRUE
  /\ pc'   = [pc EXCEPT ![g] = "writing"]
  /\ todo' = [todo EXCEPT ![g] = Services(g)]
  /\ UNCHANGED <<state, created, op, depth, togo, svc, disk, loaded, owner>>

\* Mutant: the early return forgets the state.
EnsureDirFailsSilently(g) ==
  /\ pc[g] = "mkdir"
  /\ ~dir
  /\ pc' = [pc EXCEPT ![g] = "app"]
  /\ UNCHANGED <<state, created, op, depth, todo, togo, svc, shared>>

\* g_mkdir_with_parents cannot fail on a directory that exists.  This return
\* skips cleanup_dnssd_files.
EnsureDirFails(g) ==
  /\ pc[g] = "mkdir"
  /\ ~dir
  /\ state' = [state EXCEPT ![g] = "FAILURE"]
  /\ pc'    = [pc EXCEPT ![g] = "app"]
  /\ UNCHANGED <<created, op, depth, todo, togo, svc, shared>>

\* Mutant: the handle is added to the array, not the path.
WriteServiceTracksHandle(g, s) ==
  /\ pc[g] = "writing"
  /\ s \in todo[g]
  /\ PutFile(s)
  /\ created' = [created EXCEPT ![g] = @ \cup {s}]
  /\ svc'     = [svc EXCEPT ![s].file = FileOf[s], ![s].dirty = FALSE]
  /\ todo'    = [todo EXCEPT ![g] = @ \ {s}]
  /\ UNCHANGED <<state, pc, op, depth, togo, dir, loaded>>

\* Mutant: the path is only tracked the first time the service is committed.
WriteServiceTracksOnce(g, s) ==
  /\ pc[g] = "writing"
  /\ s \in todo[g]
  /\ PutFile(s)
  /\ created' = [created EXCEPT ![g] = IF svc[s].file = None
                                      THEN @ \cup {FileOf[s]} ELSE @]
  /\ svc'     = [svc EXCEPT ![s].file = FileOf[s], ![s].dirty = FALSE]
  /\ todo'    = [todo EXCEPT ![g] = @ \ {s}]
  /\ UNCHANGED <<state, pc, op, depth, togo, dir, loaded>>

WriteService(g, s) ==
  /\ pc[g] = "writing"
  /\ s \in todo[g]
  /\ PutFile(s)
  /\ created' = [created EXCEPT ![g] = @ \cup {FileOf[s]}]
  /\ svc'     = [svc EXCEPT ![s].file = FileOf[s], ![s].dirty = FALSE]
  /\ todo'    = [todo EXCEPT ![g] = @ \ {s}]
  /\ UNCHANGED <<state, pc, op, depth, togo, dir, loaded>>

\* The loop is left at the first file that cannot be written.
WriteFails(g) ==
  /\ pc[g] = "writing"
  /\ todo[g] # {}
  /\ todo' = [todo EXCEPT ![g] = {}]
  /\ Cleanup(g, "abort")
  /\ UNCHANGED <<created, depth, shared>>

\* Mutant: signal_resolved_reload is missing.
AllWrittenNoReload(g) ==
  /\ pc[g] = "writing"
  /\ todo[g] = {}
  /\ Finish(g, "commit")
  /\ UNCHANGED <<created, depth, todo, togo, shared>>

AllWritten(g) ==
  /\ pc[g] = "writing"
  /\ todo[g] = {}
  /\ pc' = [pc EXCEPT ![g] = "reloading"]
  /\ op' = [op EXCEPT ![g] = "commit"]
  /\ UNCHANGED <<state, created, depth, todo, togo, svc, shared>>

-----------------------------------------------------------------------------
(* ga_entry_group_reset, the life of the object, and the world around it   *)

Reset(g) ==
  /\ AppRuns(g)
  /\ Cleanup(g, "reset")
  /\ UNCHANGED <<created, depth, todo, shared>>

\* The last reference is dropped, by code that is not inside a commit.
Dispose(g) ==
  /\ AppRuns(g)
  /\ depth[g] = 0
  /\ Cleanup(g, "dispose")
  /\ UNCHANGED <<created, depth, todo, shared>>

\* The process is killed: its memory is gone, the files stay where they are.
Crash(g) ==
  /\ MayCrash
  /\ pc[g] \notin {"gone", "crashed"}
  /\ pc'      = [pc EXCEPT ![g] = "crashed"]
  /\ op'      = [op EXCEPT ![g] = "none"]
  /\ depth'   = [depth EXCEPT ![g] = 0]
  /\ todo'    = [todo EXCEPT ![g] = {}]
  /\ togo'    = [togo EXCEPT ![g] = {}]
  /\ created' = [created EXCEPT ![g] = {}]
  /\ svc'     = [s \in Service |-> IF GroupOf[s] = g THEN None ELSE svc[s]]
  /\ owner'   = [f \in File |-> IF owner[f] = g THEN None ELSE owner[f]]
  /\ UNCHANGED <<state, dir, disk, loaded>>

\* ga_entry_group_new, in this process or in the one that replaces it.
NewGroup(g) ==
  /\ pc[g] \in {"gone", "crashed"}
  /\ state' = [state EXCEPT ![g] = "UNCOMMITED"]
  /\ pc'    = [pc EXCEPT ![g] = "app"]
  /\ UNCHANGED <<created, op, depth, todo, togo, svc, shared>>

\* systemd-resolved restarts, or another program asks it to reload.
ResolvedReloads ==
  /\ loaded' = disk
  /\ UNCHANGED <<local, svc, dir, disk, owner>>

-----------------------------------------------------------------------------

ServiceCall(s) ==
  \/ \E t \in Txt : AddService(s, t)
  \/ \E k \in Key, v \in Value \cup {None} : SetTxt(s, k, v)
  \/ Freeze(s)
  \/ ThawInMemory(s)
  \/ ThawWrites(s)
  \/ ThawFails(s)

GroupCall(g) == Commit(g) \/ Reset(g) \/ Dispose(g) \/ NewGroup(g)

\* What the library does between two calls of the application.
Step(g) ==
  \/ EnsureDir(g)
  \/ EnsureDirFails(g)
  \/ \E s \in Service : WriteService(g, s)
  \/ WriteFails(g)
  \/ AllWritten(g)
  \/ \E f \in File : Unlink(g, f)
  \/ Unlinked(g)
  \/ Reload(g)

Next ==
  \/ \E s \in Service : ServiceCall(s)
  \/ \E g \in Group : GroupCall(g) \/ HandlersReturn(g) \/ Step(g) \/ Crash(g)
  \/ ResolvedReloads

Spec == Init /\ [][Next]_vars

\* A call of the library runs to its end, and so does a handler it waits for.
Fairness ==
  \A g \in Group : WF_vars(Step(g)) /\ SF_vars(HandlersReturn(g))

FairSpec == Spec /\ Fairness

-----------------------------------------------------------------------------
(* Properties                                                              *)

\* No other service, of this group or of another, is given the path of s.
Sole(s) == \A t \in Service : FileOf[t] = FileOf[s] => t = s

\* s was committed, and its group, back with the application, is established.
Established(s) ==
  /\ pc[GroupOf[s]] = "app"
  /\ state[GroupOf[s]] = "ESTABLISHED"
  /\ svc[s] # None
  /\ svc[s].file # None

\* g is in the application's hands, or about to start its work on the disk.
AtRest(g) == pc[g] \in {"app", "mkdir", "gone"}

(* Every file that a live group wrote and nobody has replaced or unlinked    *)
(* since is in its created_files, through failed commits, commits nested in  *)
(* handlers and thaws: "Track .dnssd files we created" (ga-entry-group.c:42).*)
(* A file that is not tracked would outlive the group.  When an unlink fails *)
(* it is forgotten: the array is emptied whatever unlink returned.           *)
Tracked == \A g \in Group, f \in File : owner[f] = g => f \in created[g]

(* A group that was reset, or whose commit failed, and an object that is     *)
(* gone, has no file left to withdraw: the failure return that skips         *)
(* cleanup_dnssd_files (the mkdir) can only be taken when there is none.     *)
CleanAtRest ==
  \A g \in Group :
    /\ pc[g] = "gone" => created[g] = {}
    /\ pc[g] = "app" /\ state[g] \in {"UNCOMMITED", "FAILURE"} => created[g] = {}

(* While a group is established, every service of it that was committed is   *)
(* on the disk, and with the TXT entries it has now unless they were changed *)
(* since: no failed commit, thaw or nested commit leaves an established      *)
(* group with a file that is missing or stale.  For services whose path is   *)
(* theirs alone.                                                             *)
EstablishedOnDisk ==
  \A s \in Service :
    Established(s) /\ Sole(s) =>
      /\ disk[FileOf[s]] # None
      /\ disk[FileOf[s]].service = s
      /\ ~svc[s].dirty => disk[FileOf[s]].txt = svc[s].txt

(* What a group wrote last, and still owns, is what systemd-resolved read:   *)
(* no call returns between a write and the reload that announces it.         *)
(* Another group's reload may have loaded the file earlier, never later.     *)
OwnedIsLoaded ==
  \A g \in Group, f \in File :
    owner[f] = g /\ AtRest(g) => loaded[f] = disk[f]

(* When no call is under way, systemd-resolved publishes the files of the    *)
(* directory and nothing else: each call that wrote or unlinked a file has   *)
(* reloaded after its last one.  (Processes are not killed in this run.)     *)
QuietInSync == (\A g \in Group : AtRest(g)) => loaded = disk

(* A path that is one service's alone changes only while a call of its own   *)
(* group is writing or unlinking: no other group's commit, failure cleanup,  *)
(* reset or dispose disturbs the file of a group that is at rest.            *)
Undisturbed ==
  [][\A s \in Service :
       LET g == GroupOf[s] IN
         Sole(s) /\ pc[g] = "app" /\ pc'[g] = "app"
           => disk'[FileOf[s]] = disk[FileOf[s]]]_vars

(* A call ends: the write and unlink loops and the reload, in every order    *)
(* and with any failure, give control back to the application.               *)
CallsEnd == \A g \in Group : ~AtRest(g) ~> pc[g] \in {"app", "gone", "crashed"}

(* REGISTERING is a passing state: a commit that announced it always goes on *)
(* to another state, even when its handlers reset the group or commit again. *)
RegisteringEnds ==
  \A g \in Group :
    state[g] = "REGISTERING" ~> state[g] # "REGISTERING" \/ pc[g] = "crashed"

=============================================================================
