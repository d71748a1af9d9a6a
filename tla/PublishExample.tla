---------------------------- MODULE PublishExample ----------------------------
(***************************************************************************)
(* example-publish.c: a program that publishes one service until Ctrl+C.    *)
(*                                                                         *)
(* SIGINT and SIGTERM run on_signal in the main thread, between any two of  *)
(* its steps, those inside ga_entry_group_commit and the final unref         *)
(* included.  The main thread stands still until the handler returns.  Each  *)
(* signal is blocked in its own handler only, so the other one may interrupt *)
(* the handler in turn.  Steps are as fine as a handler can tell them apart; *)
(* a call of a container of GLib is one.                                     *)
(*                                                                         *)
(* The handler resets the group, which frees the service the main thread    *)
(* may be using, and its pointers outlive what they point to.  A use of     *)
(* freed memory either goes on with the old contents or ends the process.   *)
(* The handler prints, allocates and quits a loop: when it interrupts code  *)
(* that holds a lock of stdio, malloc or the main context, which            *)
(* g_main_loop_run holds whenever it is not in poll(), it never returns.    *)
(***************************************************************************)
EXTENDS Naturals, Sequences

CONSTANTS
  MaxSignals,     \* bound: how many signals the process gets
  MayHang,        \* can a handler wait for a lock of what it interrupts?
  UnlinkMayFail,  \* can unlink fail with an errno other than ENOENT?
  None            \* no file

ASSUME BoundsType == /\ MaxSignals \in Nat
                     /\ {MayHang, UnlinkMayFail} \subseteq BOOLEAN

\* The service's TXT entries, in the order they are set.
Keys == <<"path", "version", "info">>

VARIABLES
  main,       \* what the main thread does next
  status,     \* the status main is going to return
  ended,      \* how the process ended
  group,      \* what the variable group points to
  loop,       \* what the variable loop points to
  running,    \* is_running of the main loop
  clientRefs, \* references to the client
  state,      \* the group's state
  service,    \* what the variable service points to
  entries,    \* how many of the TXT entries it has
  filed,      \* has it the name of a file of its own?
  created,    \* is its path in created_files?
  dir,        \* does /run/systemd/dnssd exist?
  file,       \* the entries in its .dnssd file
  loaded,     \* what systemd-resolved has read of it
  stuck,      \* history: did an unlink of the file fail?
  handler,    \* what on_signal does next, the innermost one if there are two
  outer,      \* what the handler that it interrupted does next
  signals,    \* how many signals there were
  pressed     \* history: what the main thread was about to do at each

objects == <<group, loop, running, clientRefs>>
entry   == <<state, service, entries, filed, created>>
outside == <<dir, file, loaded, stuck>>
handling == <<handler, outer, signals, pressed>>
vars    == <<main, status, ended, objects, entry, outside, handling>>

HandlerPc == {"none", "group", "unlink", "forget", "reload", "clear", "loop"}

TypeOK ==
  /\ main \in {"client", "group", "attach", "add", "set", "commit", "handlers",
               "mkdir", "next", "write", "copy", "track", "name", "written",
               "reload", "announce", "print", "mainloop", "run", "polling",
               "unrefloop", "unrefgroup", "release", "unrefclient"}
  /\ status \in 0..1
  /\ ended \in {"no", "returned", "crashed", "hung"}
  /\ group \in {"null", "live", "freed"} /\ loop \in {"null", "live", "freed"}
  /\ running \in BOOLEAN
  /\ clientRefs \in 0..2
  /\ state \in {"UNCOMMITED", "REGISTERING", "ESTABLISHED", "FAILURE"}
  /\ service \in {"null", "live", "freed"}
  /\ entries \in 0..Len(Keys)
  /\ filed \in BOOLEAN /\ created \in BOOLEAN /\ dir \in BOOLEAN
  /\ file \in 0..Len(Keys) \cup {None}
  /\ loaded \in 0..Len(Keys) \cup {None}
  /\ stuck \in BOOLEAN
  /\ handler \in HandlerPc /\ outer \in HandlerPc
  /\ signals \in 0..MaxSignals
  /\ (signals = 0) <=> (pressed = {})

Init ==
  /\ main = "client" /\ status = 0 /\ ended = "no"
  /\ group = "null" /\ loop = "null" /\ running = FALSE /\ clientRefs = 0
  /\ state = "UNCOMMITED" /\ service = "null" /\ entries = 0
  /\ filed = FALSE /\ created = FALSE
  /\ dir \in BOOLEAN /\ file = None /\ loaded = None
  /\ stuck = FALSE /\ handler = "none" /\ outer = "none"
  /\ signals = 0 /\ pressed = {}

-----------------------------------------------------------------------------
(* The main thread                                                         *)

Runs(at) == ended = "no" /\ handler = "none" /\ main = at

Goes(from, to) ==
  /\ Runs(from)
  /\ main' = to
  /\ UNCHANGED handling

Ends(how) ==
  /\ ended' = how
  /\ UNCHANGED <<status, objects, entry, outside, handling>>

\* ga_client_new and ga_client_start, which may fail.
StartClient ==
  \/ /\ Goes("client", "group")
     /\ clientRefs' = 1
     /\ UNCHANGED <<status, ended, group, loop, running, entry, outside>>
  \/ /\ Runs("client")
     /\ ended' = "returned" /\ status' = 1
     /\ clientRefs' = 1
     /\ UNCHANGED <<main, group, loop, running, entry, outside, handling>>

NewGroup ==
  /\ Goes("group", "attach")
  /\ group' = "live"
  /\ UNCHANGED <<status, ended, loop, running, clientRefs, entry, outside>>

\* ga_entry_group_attach keeps a reference to the client.
Attach ==
  /\ Goes("attach", "add")
  /\ clientRefs' = clientRefs + 1
  /\ UNCHANGED <<status, ended, group, loop, running, entry, outside>>

Add ==
  /\ Goes("add", "set")
  /\ service' = "live"
  /\ UNCHANGED <<status, ended, objects, state, entries, filed, created, outside>>

\* What the main thread does to a service that a reset has freed.
UsesFreed(where) ==
  /\ Runs(where)
  /\ service = "freed"
  /\ Ends("crashed")
  /\ UNCHANGED main

SetEntry ==
  \/ /\ Goes("set", IF entries + 1 = Len(Keys) THEN "commit" ELSE "set")
     /\ entries' = entries + 1
     /\ UNCHANGED <<status, ended, objects, state, service, filed, created, outside>>
  \/ UsesFreed("set")

-----------------------------------------------------------------------------
(* ga_entry_group_commit                                                   *)

Register ==
  /\ Goes("commit", "handlers")
  /\ state' = "REGISTERING"
  /\ UNCHANGED <<status, ended, objects, service, entries, filed, created, outside>>

HandlersReturn ==
  /\ Goes("handlers", "mkdir")
  /\ UNCHANGED <<status, ended, objects, entry, outside>>

\* on_state_changed quits a loop that does not exist, and main returns 1.
Fails(from) ==
  /\ Goes(from, "unrefgroup")
  /\ state' = "FAILURE" /\ status' = 1
  /\ UNCHANGED <<ended, objects, service, entries, filed, created, outside>>

MakeDir ==
  \/ /\ Goes("mkdir", "next")
     /\ dir' = TRUE
     /\ UNCHANGED <<status, ended, objects, entry, file, loaded, stuck>>
  \/ ~dir /\ Fails("mkdir")

\* The table of services, which a reset empties, is read for the loop.
NextService ==
  /\ Goes("next", IF service = "live" THEN "write" ELSE "written")
  /\ UNCHANGED <<status, ended, objects, entry, outside>>

Write ==
  \/ /\ Goes("write", "copy")
     /\ file' = entries
     /\ UNCHANGED <<status, ended, objects, entry, dir, loaded, stuck>>
  \/ Fails("write")
  \/ UsesFreed("write")

\* The path is duplicated, ...
Copy ==
  /\ Goes("copy", "track")
  /\ UNCHANGED <<status, ended, objects, entry, outside>>

\* Mutant: the path is added only when the group has not been reset meanwhile.
TrackRegistering ==
  /\ Goes("track", "name")
  /\ created' = (state = "REGISTERING")
  /\ UNCHANGED <<status, ended, objects, state, service, entries, filed, outside>>

\* ... and added to created_files.
Track ==
  /\ Goes("track", "name")
  /\ created' = TRUE
  /\ UNCHANGED <<status, ended, objects, state, service, entries, filed, outside>>

NameFile ==
  \/ /\ Goes("name", "written")
     /\ filed' = TRUE
     /\ UNCHANGED <<status, ended, objects, state, service, entries, created, outside>>
  \/ UsesFreed("name")

\* Mutant: the group is announced without asking resolved to reload.
WrittenNoReload ==
  /\ Goes("written", "announce")
  /\ UNCHANGED <<status, ended, objects, entry, outside>>

Written ==
  /\ Goes("written", "reload")
  /\ UNCHANGED <<status, ended, objects, entry, outside>>

\* signal_resolved_reload, whose result nobody looks at.
Reload ==
  /\ Goes("reload", "announce")
  /\ loaded' \in {file, loaded}
  /\ UNCHANGED <<status, ended, objects, entry, dir, file, stuck>>

Establish ==
  /\ Goes("announce", "print")
  /\ state' = "ESTABLISHED"
  /\ UNCHANGED <<status, ended, objects, service, entries, filed, created, outside>>

-----------------------------------------------------------------------------
(* The main loop, and the end of main                                      *)

\* "Service published! Press Ctrl+C to stop."
Tell ==
  /\ Goes("print", "mainloop")
  /\ UNCHANGED <<status, ended, objects, entry, outside>>

NewLoop ==
  /\ Goes("mainloop", "run")
  /\ loop' = "live"
  /\ UNCHANGED <<status, ended, group, running, clientRefs, entry, outside>>

\* g_main_loop_run sets is_running whatever was done to the loop before.
Run ==
  /\ Goes("run", "polling")
  /\ running' = TRUE
  /\ UNCHANGED <<status, ended, group, loop, clientRefs, entry, outside>>

LoopEnds ==
  /\ Goes("polling", "unrefloop")
  /\ ~running
  /\ UNCHANGED <<status, ended, objects, entry, outside>>

UnrefLoop ==
  /\ Goes("unrefloop", "unrefgroup")
  /\ loop' = "freed"
  /\ UNCHANGED <<status, ended, group, running, clientRefs, entry, outside>>

\* The unlink of cleanup_dnssd_files, whose failure is only printed.
UnlinkFile ==
  /\ file' \in IF UnlinkMayFail THEN {None, file} ELSE {None}
  /\ stuck' = (stuck \/ file' # None)

\* cleanup_dnssd_files, when nothing interrupts it.
Withdraw ==
  IF created THEN UnlinkFile /\ created' = FALSE /\ loaded' \in {file', loaded}
             ELSE UNCHANGED <<file, stuck, created, loaded>>

\* g_object_unref(group): ga_entry_group_dispose withdraws what was created.  It
\* is one step: nothing is left there by then, for only a handler ends the loop,
\* and it has reset the group, and a commit that failed has tracked nothing.
UnrefGroup ==
  /\ Goes("unrefgroup", "release")
  /\ Withdraw
  /\ UNCHANGED <<status, ended, objects, state, service, entries, filed, dir>>

\* The rest of dispose, and finalize; the variable group is not cleared.
Release ==
  /\ Goes("release", "unrefclient")
  /\ group' = "freed" /\ clientRefs' = clientRefs - 1
  /\ service' = IF service = "live" THEN "freed" ELSE service
  /\ UNCHANGED <<status, ended, loop, running, state, entries, filed, created, outside>>

\* Mutant: main drops the group's reference to the client as well.
ReturnUnrefsBoth ==
  /\ Runs("unrefclient")
  /\ clientRefs' = clientRefs - 2
  /\ ended' = "returned"
  /\ UNCHANGED <<main, status, group, loop, running, entry, outside, handling>>

Return ==
  /\ Runs("unrefclient")
  /\ clientRefs' = clientRefs - 1
  /\ ended' = "returned"
  /\ UNCHANGED <<main, status, group, loop, running, entry, outside, handling>>

-----------------------------------------------------------------------------
(* on_signal                                                               *)

\* SIGINT, or SIGTERM: one while the main thread runs, the other one while the
\* handler of the first does.
Signal ==
  /\ ended = "no"
  /\ signals < MaxSignals /\ outer = "none"
  /\ signals' = signals + 1
  /\ pressed' = pressed \cup {main}
  /\ handler' = "group" /\ outer' = handler
  /\ UNCHANGED <<main, status, ended, objects, entry, outside>>

Handles(from, to) ==
  /\ ended = "no" /\ handler = from
  /\ handler' = to
  /\ UNCHANGED <<main, status, ended, outer, signals, pressed>>

\* Is there a group, and has it created anything?  One that was freed has not.
TestGroup ==
  /\ Handles("group", IF group # "live" THEN "loop"
                      ELSE IF created THEN "unlink" ELSE "clear")
  /\ UNCHANGED <<objects, entry, outside>>

\* A handler that came between has freed the path; whatever it names is no file.
Unlink ==
  /\ Handles("unlink", "forget")
  /\ IF created THEN UnlinkFile ELSE UNCHANGED <<file, stuck>>
  /\ UNCHANGED <<objects, entry, dir, loaded>>

\* The array is emptied whatever the unlink returned.
Forget ==
  /\ Handles("forget", "reload")
  /\ created' = FALSE
  /\ UNCHANGED <<objects, state, service, entries, filed, outside>>

ReloadUnlinked ==
  /\ Handles("reload", "clear")
  /\ loaded' \in {file, loaded}
  /\ UNCHANGED <<objects, entry, dir, file, stuck>>

\* The rest of ga_entry_group_reset.
Clear ==
  /\ Handles("clear", "loop")
  /\ service' = IF service = "live" THEN "freed" ELSE service
  /\ state'   = "UNCOMMITED"
  /\ UNCHANGED <<objects, entries, filed, created, outside>>

\* Mutant: the loop is quit only while there is something to withdraw.
QuitLoopIfCreated == running' = (running /\ ~created)

\* g_main_loop_quit, which has no effect on a loop that does not run yet.
QuitLoop == running' = (running /\ loop # "live")

HandlerReturns ==
  /\ ended = "no" /\ handler = "loop"
  /\ QuitLoop
  /\ handler' = outer /\ outer' = "none"
  /\ UNCHANGED <<main, status, ended, group, loop, clientRefs, entry, outside,
                 signals, pressed>>

\* A handler uses a group, a path or a loop that was freed, ...
HandlerCrashes ==
  /\ ended = "no"
  /\ \/ handler = "group" /\ group = "freed"
     \/ handler = "unlink" /\ ~created
     \/ handler = "loop" /\ loop = "freed"
  /\ Ends("crashed")
  /\ UNCHANGED main

\* ... or waits for a lock for ever.
HandlerHangs ==
  /\ ended = "no"
  /\ MayHang /\ handler # "none"
  /\ Ends("hung")
  /\ UNCHANGED main

HandlerStep ==
  TestGroup \/ Unlink \/ Forget \/ ReloadUnlinked \/ Clear \/ HandlerReturns

MainStep ==
  \/ StartClient \/ NewGroup \/ Attach \/ Add \/ SetEntry
  \/ Register \/ HandlersReturn \/ MakeDir \/ NextService \/ Write \/ Copy
  \/ Track \/ NameFile \/ Written \/ Reload \/ Establish
  \/ Tell \/ NewLoop \/ Run \/ LoopEnds \/ UnrefLoop
  \/ UnrefGroup \/ Release \/ Return

Next == MainStep \/ Signal \/ HandlerStep \/ HandlerCrashes \/ HandlerHangs

\* The system schedules the main thread, which runs the handlers.
Spec == Init /\ [][Next]_vars /\ WF_vars(MainStep \/ HandlerStep)

-----------------------------------------------------------------------------
(* The same state, as EntryGroup sees it: one group with one service.  The   *)
(* path is tracked in the step that writes it there, and the state is set    *)
(* in the step that reloads.                                                 *)

EntriesSet(n) ==
  [k \in {Keys[i] : i \in DOMAIN Keys} |->
     IF \E i \in 1..n : Keys[i] = k THEN "set" ELSE None]

ContentOf(n) == IF n = None THEN None ELSE [service |-> "service", txt |-> EntriesSet(n)]

OnDisk == main \in {"copy", "track", "name"} \/ filed

Handle ==
  IF service = "live" /\ main # "release"
  THEN [txt |-> EntriesSet(entries), frozen |-> FALSE,
        file |-> IF OnDisk THEN "file" ELSE None, dirty |-> ~OnDisk]
  ELSE None

GroupPc ==
  CASE main = "mkdir"                         -> "mkdir"
    [] main \in {"next", "write", "copy",
                 "track", "name", "written"}  -> "writing"
    [] main = "reload"                        -> "reloading"
    [] main \in {"release", "unrefclient"}    -> "gone"
    [] OTHER                                  -> "app"

GroupOp      == IF main = "reload" THEN "commit" ELSE "none"
GroupState   == IF main = "announce" THEN "ESTABLISHED" ELSE state
GroupCreated == IF created \/ main \in {"copy", "track"} THEN {"file"} ELSE {}
GroupDepth   == IF main = "handlers" THEN 1 ELSE 0
GroupTodo    == IF main \in {"next", "write"} THEN {"service"} ELSE {}
FileOwner    == IF file = None THEN None ELSE "group"

OfGroup(x)   == [g \in {"group"} |-> x]
OfService(x) == [t \in {"service"} |-> x]
OfFile(x)    == [f \in {"file"} |-> x]

E == INSTANCE EntryGroup WITH
  Group <- {"group"}, Service <- {"service"}, File <- {"file"},
  GroupOf <- OfService("group"), FileOf <- OfService("file"),
  Key <- {Keys[i] : i \in DOMAIN Keys}, Value <- {"set"}, MaxDepth <- 1,
  ReloadMayFail <- TRUE, UnlinkMayFail <- UnlinkMayFail, MayCrash <- FALSE,
  state   <- OfGroup(GroupState),
  svc     <- OfService(Handle),
  created <- OfGroup(GroupCreated),
  pc      <- OfGroup(GroupPc),
  op      <- OfGroup(GroupOp),
  depth   <- OfGroup(GroupDepth),
  todo    <- OfGroup(GroupTodo),
  togo    <- OfGroup({}),
  disk    <- OfFile(ContentOf(file)),
  loaded  <- OfFile(ContentOf(loaded)),
  owner   <- OfFile(FileOwner)

\* None is no number of entries, and none of the values that EntryGroup sees.
ASSUME NoneIsNew == /\ None \notin 0..Len(Keys)
                    /\ None \notin {"group", "file", "set"}
                    /\ None \notin E!Content
                    /\ None \notin E!Handle

-----------------------------------------------------------------------------
(* Properties                                                              *)

(* A program that returns from main, with 0 or with 1, leaves no file        *)
(* behind, unless the unlink of it failed, and no reference to the client     *)
(* unless the client did not start: wherever signals interrupt the commit,    *)
(* the cleanup and one another, a file that is written is tracked before it   *)
(* can be forgotten, and unlinked before it is.                               *)
NothingLeftBehind ==
  ended = "returned" =>
    /\ file = None \/ stuck
    /\ clientRefs = IF group = "null" THEN 1 ELSE 0

(* Until the first signal, the program calls the group the way EntryGroup's  *)
(* application may, and sees what EntryGroup promises: every step of it is   *)
(* one of EntryGroup's, or none.                                             *)
UsesGroup == E!Init /\ [][signals' = 0 => [E!Next]_(E!vars)]_vars

(* Ctrl+C in the main loop stops the program: the handler, others that       *)
(* interrupt it, and everything main does after the loop come to an end, main *)
(* returns or a later signal uses what was freed; provided that no handler    *)
(* waits for ever for a lock, in which case nothing more happens.  (Between   *)
(* "Press Ctrl+C to stop", line 133, and g_main_loop_run it does not stop:    *)
(* the loop is not there to quit.)                                            *)
StopsFromLoop ==
  [](ended # "hung") =>
    ("polling" \in pressed ~> ended \in {"returned", "crashed"})

===============================================================================
