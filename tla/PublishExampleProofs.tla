------------------------- MODULE PublishExampleProofs -------------------------
(***************************************************************************)
(* However many signals interrupt it, wherever, and one another, a program  *)
(* that returns from main leaves no file behind that could be unlinked; and  *)
(* until the first of them it calls the group as EntryGroup's application    *)
(* may.                                                                    *)
(***************************************************************************)
EXTENDS PublishExample, TLAPS

\* The references to the client follow the main thread; only the return for a
\* client that did not start keeps one.
Refs ==
  /\ group = "null" <=> main \in {"client", "group"}
  /\ group = "freed" <=> main = "unrefclient"
  /\ clientRefs = IF ended = "returned" THEN IF main = "client" THEN 1 ELSE 0
                  ELSE IF main = "client" THEN 0
                  ELSE IF main \in {"group", "attach", "unrefclient"} THEN 1 ELSE 2
  /\ ended = "returned" => main \in {"client", "unrefclient"}

\* A path is tracked only after its file was written, and main does not leave
\* its loop before it is forgotten again.
After ==
  {"name", "written", "reload", "announce", "print", "mainloop", "run", "polling"}

\* A file is tracked, but for the steps between the write and the array, or an
\* unlink of it failed.
FileTracked ==
  /\ created => main \in After
  /\ file # None => created \/ main \in {"copy", "track"} \/ stuck

\* A handler interrupts another one at most; it forgets the path after the
\* unlink, and ends the loop after it has forgotten it.
Emptied == {"reload", "clear", "loop"}

Handlers ==
  /\ handler = "none" => outer = "none"
  /\ signals = 0 => handler = "none"
  /\ "unlink" \in {handler, outer} => main \in After
  /\ "forget" \in {handler, outer} => file = None \/ stuck
  /\ handler \in Emptied \/ outer \in Emptied => ~created
  /\ main = "polling" /\ ~running => ~created

\* The entries are set one after the other, each once.
Entries ==
  /\ main \in {"client", "group", "attach", "add"} => entries = 0
  /\ main = "set" => entries < Len(Keys)

IInv == TypeOK /\ Refs /\ FileTracked /\ Handlers /\ Entries

USE DEF objects, entry, outside, handling

LEMMA ThreeKeys == Len(Keys) = 3
BY DEF Keys

LEMMA ProgramStarts == Init => IInv
<1> SUFFICES ASSUME Init PROVE IInv
  OBVIOUS
<1>1. TypeOK
  <2>1. status \in 0..1 /\ clientRefs \in 0..2 /\ entries \in 0..Len(Keys)
    BY ThreeKeys DEF Init
  <2>2. /\ signals \in 0..MaxSignals
        /\ (signals = 0) <=> (pressed = {})
    BY BoundsType DEF Init
  <2>3. running \in BOOLEAN /\ filed \in BOOLEAN /\ created \in BOOLEAN /\ dir \in BOOLEAN
    BY DEF Init
  <2>4. stuck \in BOOLEAN /\ handler \in HandlerPc /\ outer \in HandlerPc
    BY DEF Init, HandlerPc
  <2> QED
    BY <2>1, <2>2, <2>3, <2>4 DEF Init, TypeOK
<1>2. Refs
  BY DEF Init, Refs
<1>3. FileTracked /\ Handlers
  BY DEF Init, FileTracked, Handlers, Emptied
<1>4. Entries
  BY ThreeKeys DEF Init, Entries
<1> QED
  BY <1>1, <1>2, <1>3, <1>4 DEF IInv

\* The steps that lead to the commit.
LEMMA KeepsPrepare ==
  ASSUME IInv, StartClient \/ NewGroup \/ Attach \/ Add \/ SetEntry \/ Register
               \/ HandlersReturn
  PROVE  IInv'
<1> USE ThreeKeys DEF IInv, Refs, FileTracked, Handlers, Entries, Runs, Goes, After, Emptied,
      HandlerPc, TypeOK
<1>1. CASE StartClient
  BY <1>1 DEF StartClient
<1>2. CASE NewGroup
  BY <1>2 DEF NewGroup
<1>3. CASE Attach
  BY <1>3 DEF Attach
<1>4. CASE Add
  BY <1>4 DEF Add
<1>5. CASE SetEntry
  BY <1>5 DEF SetEntry, UsesFreed, Ends
<1>6. CASE Register
  BY <1>6 DEF Register
<1>7. CASE HandlersReturn
  BY <1>7 DEF HandlersReturn
<1> QED
  BY <1>1, <1>2, <1>3, <1>4, <1>5, <1>6, <1>7

LEMMA KeepsCommit ==
  ASSUME IInv, MakeDir \/ NextService \/ Write \/ Copy \/ Track \/ NameFile \/ Written
               \/ Reload \/ Establish
  PROVE  IInv'
<1> USE ThreeKeys DEF IInv, Refs, FileTracked, Handlers, Entries, Runs, Goes, After, Emptied,
      HandlerPc, TypeOK
<1>1. CASE MakeDir
  <2>1. TypeOK'
    <3>1. filed' \in BOOLEAN /\ created' \in BOOLEAN /\ dir' \in BOOLEAN
      BY <1>1 DEF MakeDir, Fails
    <3>2. /\ signals' \in 0..MaxSignals
          /\ (signals' = 0) <=> (pressed' = {})
      BY <1>1 DEF MakeDir, Fails
    <3> QED
      BY <1>1, <3>1, <3>2 DEF MakeDir, Fails
  <2>2. Refs'
    BY <1>1 DEF MakeDir, Fails
  <2>3. FileTracked' /\ Handlers' /\ Entries'
    BY <1>1 DEF MakeDir, Fails
  <2> QED
    BY <2>1, <2>2, <2>3
<1>2. CASE NextService
  BY <1>2 DEF NextService
<1>3. CASE Write
  BY <1>3 DEF Write, Fails, UsesFreed, Ends
<1>4. CASE Track
  BY <1>4 DEF Track
<1>5. CASE NameFile
  <2>1. TypeOK'
    <3>1. filed' \in BOOLEAN /\ created' \in BOOLEAN /\ dir' \in BOOLEAN
      BY <1>5 DEF NameFile, UsesFreed, Ends
    <3>2. /\ signals' \in 0..MaxSignals
          /\ (signals' = 0) <=> (pressed' = {})
      BY <1>5 DEF NameFile, UsesFreed, Ends
    <3> QED
      BY <1>5, <3>1, <3>2 DEF NameFile, UsesFreed, Ends
  <2>2. Refs'
    BY <1>5 DEF NameFile, UsesFreed, Ends
  <2>3. FileTracked' /\ Handlers' /\ Entries'
    BY <1>5 DEF NameFile, UsesFreed, Ends
  <2> QED
    BY <2>1, <2>2, <2>3
<1>6. CASE Written
  BY <1>6 DEF Written
<1>7. CASE Reload
  BY <1>7 DEF Reload
<1>8. CASE Establish
  BY <1>8 DEF Establish
<1>9. CASE Copy
  BY <1>9 DEF Copy
<1> QED
  BY <1>1, <1>2, <1>3, <1>4, <1>5, <1>6, <1>7, <1>8, <1>9

LEMMA KeepsLoop ==
  ASSUME IInv, Tell \/ NewLoop \/ Run \/ LoopEnds \/ UnrefLoop
  PROVE  IInv'
<1> USE ThreeKeys DEF IInv, Refs, FileTracked, Handlers, Entries, Runs, Goes, After, Emptied,
      HandlerPc, TypeOK
<1>1. CASE Tell
  BY <1>1 DEF Tell
<1>2. CASE NewLoop
  BY <1>2 DEF NewLoop
<1>3. CASE Run
  BY <1>3 DEF Run
<1>4. CASE LoopEnds
  BY <1>4 DEF LoopEnds
<1>5. CASE UnrefLoop
  BY <1>5 DEF UnrefLoop
<1> QED
  BY <1>1, <1>2, <1>3, <1>4, <1>5

\* The end of main: whatever is tracked is unlinked before it is forgotten.
LEMMA KeepsEnd ==
  ASSUME IInv, UnrefGroup \/ Release \/ Return
  PROVE  IInv'
<1> USE ThreeKeys DEF IInv, Refs, FileTracked, Handlers, Entries, Runs, Goes, After, Emptied,
      HandlerPc, TypeOK
<1>1. CASE UnrefGroup
  <2>1. TypeOK'
    <3>1. filed' \in BOOLEAN /\ created' \in BOOLEAN /\ dir' \in BOOLEAN
      BY <1>1 DEF UnrefGroup, Withdraw
    <3>2. /\ signals' \in 0..MaxSignals
          /\ (signals' = 0) <=> (pressed' = {})
      BY <1>1 DEF UnrefGroup
    <3>3. file' \in 0..Len(Keys) \cup {None} /\ loaded' \in 0..Len(Keys) \cup {None}
      BY <1>1 DEF UnrefGroup, Withdraw
    <3>4. ~created /\ stuck' = stuck
      BY <1>1 DEF UnrefGroup, Withdraw
    <3> QED
      BY <1>1, <3>1, <3>2, <3>3, <3>4 DEF UnrefGroup
  <2>2. Refs'
    BY <1>1 DEF UnrefGroup
  <2>3. FileTracked' /\ Handlers' /\ Entries'
    BY <1>1 DEF UnrefGroup, Withdraw
  <2> QED
    BY <2>1, <2>2, <2>3
<1>2. CASE Release
  BY <1>2 DEF Release
<1>3. CASE Return
  BY <1>3 DEF Return
<1> QED
  BY <1>1, <1>2, <1>3

\* A signal starts a handler, and a handler withdraws what is tracked; neither
\* disturbs a count.
LEMMA KeepsSignal == ASSUME IInv, Signal PROVE IInv'
<1> USE ThreeKeys, BoundsType DEF IInv, Refs, FileTracked, Handlers, Entries, After,
      Emptied, HandlerPc, TypeOK
<1>1. /\ signals' = signals + 1 /\ pressed' = pressed \cup {main}
      /\ signals' \in 0..MaxSignals /\ pressed' # {} /\ signals' # 0
      /\ handler' = "group" /\ outer' = handler
      /\ UNCHANGED <<main, status, ended, objects, entry, outside>>
  BY DEF Signal
<1>2. TypeOK'
  BY <1>1
<1>3. Refs' /\ FileTracked' /\ Handlers' /\ Entries'
  BY <1>1
<1> QED
  BY <1>2, <1>3

LEMMA KeepsHandler ==
  ASSUME IInv, HandlerStep \/ HandlerCrashes \/ HandlerHangs
  PROVE  IInv'
<1> USE ThreeKeys DEF IInv, Refs, FileTracked, Handlers, Entries, After, Emptied,
      HandlerPc, TypeOK, Handles
<1>1. CASE TestGroup
  BY <1>1 DEF TestGroup
<1>2. CASE Unlink
  <2>1. CASE ~created
    BY <1>2, <2>1 DEF Unlink
  <2>2. CASE created /\ stuck'
    BY <1>2, <2>2 DEF Unlink, UnlinkFile
  <2>3. CASE created /\ ~stuck'
    <3>1. file' = None
      BY <1>2, <2>3 DEF Unlink, UnlinkFile
    <3>2. stuck' \in BOOLEAN
      BY <1>2, <2>3 DEF Unlink, UnlinkFile
    <3> QED
      BY <1>2, <2>3, <3>1, <3>2 DEF Unlink, UnlinkFile
  <2> QED
    BY <2>1, <2>2, <2>3
<1>3. CASE Forget
  <2>1. /\ handler = "forget" /\ handler' = "reload" /\ ~created' /\ created' \in BOOLEAN
        /\ file = None \/ stuck
        /\ UNCHANGED <<main, status, ended, outer, signals, pressed, objects, state, service,
                       entries, filed, outside>>
    BY <1>3 DEF Forget
  <2>2. Refs' /\ Entries'
    BY <2>1
  <2>3. FileTracked' /\ Handlers'
    BY <2>1
  <2>4. TypeOK'
    BY <2>1
  <2> QED
    BY <2>2, <2>3, <2>4
<1>4. CASE ReloadUnlinked
  BY <1>4 DEF ReloadUnlinked
<1>5. CASE Clear
  BY <1>5 DEF Clear
<1>6. CASE HandlerReturns
  <2>1. /\ handler = "loop" /\ handler' = outer /\ outer' = "none"
        /\ UNCHANGED <<main, status, ended, group, loop, clientRefs, entry, outside,
                       signals, pressed>>
    BY <1>6 DEF HandlerReturns
  <2>2. running' \in BOOLEAN
    BY <1>6 DEF HandlerReturns, QuitLoop
  <2>3. Refs'
    BY <2>1
  <2>4. FileTracked' /\ Handlers' /\ Entries'
    BY <2>1
  <2>5. TypeOK'
    BY <2>1, <2>2
  <2> QED
    BY <2>3, <2>4, <2>5
<1>7. CASE HandlerCrashes \/ HandlerHangs
  BY <1>7 DEF HandlerCrashes, HandlerHangs, Ends
<1> QED
  BY <1>1, <1>2, <1>3, <1>4, <1>5, <1>6, <1>7 DEF HandlerStep

LEMMA ProgramStays == IInv /\ [Next]_vars => IInv'
<1> SUFFICES ASSUME IInv, [Next]_vars PROVE IInv'
  OBVIOUS
<1>1. CASE MainStep
  BY <1>1, KeepsPrepare, KeepsCommit, KeepsLoop, KeepsEnd DEF MainStep
<1>2. CASE Signal
  BY <1>2, KeepsSignal
<1>3. CASE UNCHANGED vars
  BY <1>3 DEF vars, IInv, TypeOK, Refs, FileTracked, Handlers, Entries
<1>4. CASE HandlerStep \/ HandlerCrashes \/ HandlerHangs
  BY <1>4, KeepsHandler
<1> QED
  BY <1>1, <1>2, <1>3, <1>4 DEF Next

LEMMA ProgramInvariant == Spec => []IInv
<1> QED
  BY ProgramStarts, ProgramStays, PTL DEF Spec

\* Every variable of the program keeps its type, through any number of signals.
THEOREM ProgramTyped == Spec => []TypeOK
<1> QED
  BY ProgramInvariant, PTL DEF IInv

\* A program that returns has withdrawn its file, or has failed to unlink it,
\* wherever the handlers of SIGINT and SIGTERM (example-publish.c:55) interrupted
\* the commit, the cleanup and each other.
THEOREM ReturnsClean == Spec => []NothingLeftBehind
<1>1. IInv => NothingLeftBehind
  BY DEF IInv, TypeOK, Refs, FileTracked, After, NothingLeftBehind
<1> QED
  BY <1>1, ProgramInvariant, PTL

-----------------------------------------------------------------------------
(* Until the first signal the program is an application of EntryGroup       *)

Before    == {"client", "group", "attach", "add"}
Preparing == Before \cup {"set", "commit"}
Told      == {"print", "mainloop", "run", "polling"}
Leaving   == {"unrefgroup", "release", "unrefclient"}
FileNamed == {"written", "reload", "announce"} \cup Told

\* Where the main thread is says what the group, the service and the file are.
\* Nobody but the handler ends the loop, so main leaves only by way of a commit
\* that failed, with nothing written.
Uninterrupted ==
  /\ main # "unrefloop"
  /\ main = "polling" => running
  /\ service = IF main \in Before THEN "null"
               ELSE IF main = "unrefclient" THEN "freed" ELSE "live"
  /\ state = IF main \in Preparing THEN "UNCOMMITED"
             ELSE IF main \in Told THEN "ESTABLISHED"
             ELSE IF main \in Leaving THEN "FAILURE" ELSE "REGISTERING"
  /\ filed <=> main \in FileNamed
  /\ created <=> main \in FileNamed \cup {"name"}
  /\ file = IF created \/ main \in {"copy", "track"} THEN entries ELSE None

UInv == IInv /\ (signals = 0 => Uninterrupted)

LEMMA StartsUninterrupted == Init => UInv
<1> QED
  BY ProgramStarts DEF Init, UInv, Uninterrupted, Before, Preparing, Told, Leaving, FileNamed

\* Before the first signal, the main thread's steps lead where it says they do.
LEMMA MainUninterrupted ==
  ASSUME IInv, Uninterrupted, MainStep PROVE Uninterrupted'
<1> USE DEF Uninterrupted, Before, Preparing, Told, Leaving, FileNamed, Runs, Goes
<1>1. CASE StartClient \/ NewGroup \/ Attach \/ Add
  BY <1>1 DEF StartClient, NewGroup, Attach, Add
<1>2. CASE SetEntry
  <2>1. ~UsesFreed("set")
    BY DEF UsesFreed
  <2> QED
    BY <1>2, <2>1 DEF SetEntry
<1>3. CASE Register \/ HandlersReturn
  BY <1>3 DEF Register, HandlersReturn
<1>4. CASE MakeDir
  BY <1>4 DEF MakeDir, Fails
<1>5. CASE NextService \/ Copy \/ Track
  BY <1>5 DEF NextService, Copy, Track
<1>6. CASE Write
  <2>1. ~UsesFreed("write")
    BY DEF UsesFreed
  <2> QED
    BY <1>6, <2>1 DEF Write, Fails
<1>7. CASE NameFile
  <2>1. ~UsesFreed("name")
    BY DEF UsesFreed
  <2> QED
    BY <1>7, <2>1 DEF NameFile
<1>8. CASE Written \/ Reload \/ Establish
  BY <1>8 DEF Written, Reload, Establish
<1>9. CASE Tell \/ NewLoop \/ Run \/ LoopEnds \/ UnrefLoop
  BY <1>9 DEF Tell, NewLoop, Run, LoopEnds, UnrefLoop
<1>10. CASE UnrefGroup \/ Release \/ Return
  BY <1>10 DEF UnrefGroup, Withdraw, Release, Return
<1> QED
  BY <1>1, <1>2, <1>3, <1>4, <1>5, <1>6, <1>7, <1>8, <1>9, <1>10 DEF MainStep

LEMMA MainIsNoSignal == MainStep => signals' = signals
BY DEF MainStep, Runs, Goes, StartClient, NewGroup, Attach, Add, SetEntry, UsesFreed, Ends,
  Register, HandlersReturn, Fails, MakeDir, NextService, Write, Copy, Track, NameFile, Written,
  Reload, Establish, Tell, NewLoop, Run, LoopEnds, UnrefLoop, UnrefGroup, Release, Return

\* Nor is a handler under way.
LEMMA NoHandler ==
  ASSUME IInv, signals' = 0
  PROVE  ~Signal /\ ~HandlerStep /\ ~HandlerCrashes /\ ~HandlerHangs
<1>1. ~Signal
  BY DEF Signal, IInv, TypeOK
<1>2. ASSUME HandlerStep \/ HandlerCrashes \/ HandlerHangs PROVE FALSE
  <2>1. signals' = signals /\ handler # "none"
    BY <1>2 DEF HandlerStep, HandlerCrashes, HandlerHangs, Handles, TestGroup, Unlink,
      Forget, ReloadUnlinked, Clear, HandlerReturns, Ends
  <2> QED
    BY <2>1 DEF IInv, Handlers
<1> QED
  BY <1>1, <1>2

LEMMA StaysUninterrupted == UInv /\ [Next]_vars => UInv'
<1> SUFFICES ASSUME UInv, [Next]_vars, signals' = 0 PROVE Uninterrupted'
  BY ProgramStays DEF UInv
<1>1. ~Signal /\ ~HandlerStep /\ ~HandlerCrashes /\ ~HandlerHangs
  BY NoHandler DEF UInv
<1>2. CASE MainStep
  <2>1. signals' = signals
    BY <1>2, MainIsNoSignal
  <2> QED
    BY <1>2, <2>1, MainUninterrupted DEF UInv
<1>3. CASE UNCHANGED vars
  BY <1>3 DEF UInv, vars, Uninterrupted
<1> QED
  BY <1>1, <1>2, <1>3 DEF Next

-----------------------------------------------------------------------------
(* Its steps, as EntryGroup sees them                                       *)

USE DEF OfGroup, OfService, OfFile

\* A step that changes nothing EntryGroup sees is none of its steps.
LEMMA Stutters ==
  ASSUME UNCHANGED <<GroupState, Handle, GroupCreated, GroupPc, GroupOp, GroupDepth,
                     GroupTodo, dir, file, loaded>>
  PROVE  UNCHANGED E!vars
BY DEF E!vars, E!local, E!shared, ContentOf, FileOwner

\* A handle is one of EntryGroup's.
LEMMA HandleType ==
  ASSUME NEW n \in 0..Len(Keys)
  PROVE  /\ EntriesSet(n) \in E!Txt
         /\ [txt |-> EntriesSet(n), frozen |-> FALSE, file |-> None, dirty |-> TRUE] # None
         /\ [txt |-> EntriesSet(n), frozen |-> FALSE, file |-> "file", dirty |-> FALSE] # None
<1>1. EntriesSet(n) \in E!Txt
  <2>1. \A k \in {Keys[i] : i \in DOMAIN Keys} :
          (IF \E i \in 1..n : Keys[i] = k THEN "set" ELSE None) \in {"set"} \cup {None}
    OBVIOUS
  <2> QED
    BY <2>1, Zenon DEF EntriesSet, E!Txt
<1>2. [txt |-> EntriesSet(n), frozen |-> FALSE, file |-> None, dirty |-> TRUE] \in E!Handle
  BY <1>1 DEF E!Handle
<1>3. [txt |-> EntriesSet(n), frozen |-> FALSE, file |-> "file", dirty |-> FALSE] \in E!Handle
  BY <1>1 DEF E!Handle
<1> QED
  BY <1>1, <1>2, <1>3, NoneIsNew

\* What a step has to leave alone to leave the handle alone.
LEMMA HandleStays ==
  ASSUME UNCHANGED <<service, entries>>, OnDisk' <=> OnDisk,
         (main = "release") <=> (main' = "release")
  PROVE  UNCHANGED Handle
<1>1. CASE OnDisk
  BY <1>1 DEF Handle
<1>2. CASE ~OnDisk
  BY <1>2 DEF Handle
<1> QED
  BY <1>1, <1>2

Seen == <<GroupState, GroupCreated, GroupPc, GroupOp, GroupDepth, GroupTodo>>

LEMMA AddMaps ==
  ASSUME UInv, Uninterrupted, Add PROVE E!Next
<1>1. Handle = None /\ GroupPc = "app"
  BY DEF Uninterrupted, Add, Runs, Goes, Handle, GroupPc, Before
<1>2. Handle' = [txt |-> EntriesSet(0), frozen |-> FALSE, file |-> None, dirty |-> TRUE]
  BY DEF UInv, IInv, Entries, Uninterrupted, Add, Runs, Goes, Handle, OnDisk, Before, FileNamed, Told
<1>3. UNCHANGED <<Seen, dir, file, loaded>>
  BY DEF Add, Runs, Goes, Seen, GroupState, GroupCreated, GroupPc, GroupOp, GroupDepth, GroupTodo
<1>4. E!AddService("service", EntriesSet(0))
  BY <1>1, <1>2, <1>3 DEF E!AddService, E!AppRuns, E!local, E!shared, Seen, ContentOf, FileOwner
<1>5. EntriesSet(0) \in E!Txt
  BY ThreeKeys, HandleType
<1> QED
  BY <1>4, <1>5 DEF E!Next, E!ServiceCall

LEMMA SetMaps ==
  ASSUME UInv, Uninterrupted, SetEntry PROVE E!Next
<1>1. entries \in 0..2 /\ entries' = entries + 1 /\ main = "set" /\ main' \in {"set", "commit"}
  BY ThreeKeys DEF UInv, IInv, TypeOK, Entries, Uninterrupted, SetEntry, UsesFreed, Runs, Goes, Before
<1> DEFINE k == Keys[entries + 1]
<1>2. k \in {Keys[i] : i \in DOMAIN Keys}
  BY <1>1, ThreeKeys DEF Keys
<1>3. EntriesSet(entries') = [EntriesSet(entries) EXCEPT ![k] = "set"]
  <2>1. \A x : (\E i \in 1..entries' : Keys[i] = x)
               <=> (\E i \in 1..entries : Keys[i] = x) \/ x = k
    BY <1>1
  <2>2. \A x \in {Keys[i] : i \in DOMAIN Keys} :
          EntriesSet(entries')[x] = [EntriesSet(entries) EXCEPT ![k] = "set"][x]
    BY <1>2, <2>1 DEF EntriesSet
  <2> QED
    BY <2>2 DEF EntriesSet
<1>4. /\ GroupPc = "app" /\ GroupPc' = "app"
      /\ UNCHANGED <<Seen, dir, file, loaded>>
  BY <1>1 DEF SetEntry, UsesFreed, Uninterrupted, Runs, Goes, Seen, Before, GroupState,
    GroupCreated, GroupPc, GroupOp, GroupDepth, GroupTodo
<1>5. Handle = [txt |-> EntriesSet(entries), frozen |-> FALSE, file |-> None, dirty |-> TRUE]
  BY <1>1 DEF Uninterrupted, Handle, OnDisk, Before, FileNamed, Told
<1>6. Handle' = [txt |-> EntriesSet(entries'), frozen |-> FALSE, file |-> None, dirty |-> TRUE]
  <2>1. ~OnDisk'
    BY <1>1 DEF SetEntry, UsesFreed, Uninterrupted, Runs, Goes, OnDisk, Before, FileNamed, Told
  <2>2. service' = "live" /\ main' # "release"
    BY <1>1 DEF SetEntry, UsesFreed, Uninterrupted, Runs, Goes, Before
  <2> QED
    BY <2>1, <2>2 DEF Handle
<1>7. Handle # None
  BY <1>1, <1>5, HandleType, ThreeKeys
<1>8. E!SetTxt("service", k, "set")
  BY <1>3, <1>4, <1>5, <1>6, <1>7 DEF E!SetTxt, E!UpdateHandle, E!AppRuns, E!local, E!shared,
    Seen, ContentOf, FileOwner
<1> QED
  BY <1>2, <1>8 DEF E!Next, E!ServiceCall

LEMMA CommitMaps ==
  ASSUME UInv, Uninterrupted, Register \/ HandlersReturn PROVE E!Next
<1>1. UNCHANGED <<Handle, dir, file, loaded, GroupCreated, GroupOp, GroupTodo>>
  <2>1. UNCHANGED <<Handle, dir, file, loaded>>
    BY HandleStays DEF Register, HandlersReturn, Runs, Goes, OnDisk
  <2>2. UNCHANGED <<GroupCreated, GroupOp, GroupTodo>>
    BY DEF Register, HandlersReturn, Runs, Goes, GroupCreated, GroupOp, GroupTodo
  <2> QED
    BY <2>1, <2>2
<1>2. UNCHANGED E!shared
  BY <1>1 DEF E!shared, ContentOf, FileOwner
<1>3. CASE Register
  <2>1. /\ GroupPc = "app" /\ GroupPc' = "app"
        /\ GroupDepth = 0 /\ GroupDepth' = 1
        /\ GroupState' = "REGISTERING"
    BY <1>3 DEF Register, Runs, Goes, GroupPc, GroupDepth, GroupState
  <2>2. E!AppRuns("group") /\ OfGroup(GroupDepth)["group"] < 1
    BY <2>1 DEF E!AppRuns
  <2>3. OfGroup(GroupDepth)' = [OfGroup(GroupDepth) EXCEPT
                                  !["group"] = OfGroup(GroupDepth)["group"] + 1]
    BY <2>1
  <2>4. OfGroup(GroupState)' = [OfGroup(GroupState) EXCEPT !["group"] = "REGISTERING"]
    BY <2>1
  <2>5. UNCHANGED <<OfGroup(GroupPc), OfService(Handle)>>
    BY <1>1, <2>1
  <2>6. E!Commit("group")
    BY <1>1, <1>2, <2>2, <2>3, <2>4, <2>5 DEF E!Commit
  <2> QED
    BY <2>6 DEF E!Next, E!GroupCall
<1>4. CASE HandlersReturn
  <2>1. /\ GroupPc = "app" /\ GroupPc' = "mkdir"
        /\ GroupDepth = 1 /\ GroupDepth' = 0
        /\ GroupState' = GroupState
    BY <1>4 DEF HandlersReturn, Runs, Goes, GroupPc, GroupDepth, GroupState
  <2>2. E!AppRuns("group") /\ OfGroup(GroupDepth)["group"] > 0
    BY <2>1 DEF E!AppRuns
  <2>3. OfGroup(GroupDepth)' = [OfGroup(GroupDepth) EXCEPT
                                  !["group"] = OfGroup(GroupDepth)["group"] - 1]
    BY <2>1
  <2>4. OfGroup(GroupPc)' = [OfGroup(GroupPc) EXCEPT !["group"] = "mkdir"]
    BY <2>1
  <2>5. UNCHANGED <<OfGroup(GroupState), OfService(Handle)>>
    BY <1>1, <2>1
  <2>6. E!HandlersReturn("group")
    BY <1>1, <1>2, <2>2, <2>3, <2>4, <2>5 DEF E!HandlersReturn
  <2> QED
    BY <2>6 DEF E!Next
<1> QED
  BY <1>3, <1>4

LEMMA MakeDirMaps ==
  ASSUME UInv, Uninterrupted, MakeDir PROVE E!Next
<1>1. main = "mkdir" /\ ~created
  BY DEF MakeDir, Fails, Runs, Goes, Uninterrupted, FileNamed, Told
<1>2. UNCHANGED <<Handle, file, loaded, GroupCreated, GroupOp, GroupDepth>>
  <2>1. UNCHANGED <<Handle, file, loaded>>
    BY <1>1, HandleStays DEF MakeDir, Fails, Runs, Goes, OnDisk
  <2>2. UNCHANGED <<GroupCreated, GroupOp, GroupDepth>>
    BY <1>1 DEF MakeDir, Fails, Runs, Goes, GroupCreated, GroupOp, GroupDepth
  <2> QED
    BY <2>1, <2>2
<1>3. UNCHANGED <<ContentOf(file), ContentOf(loaded), FileOwner>>
  BY <1>2 DEF ContentOf, FileOwner
<1>4. CASE main' = "next"
  <2>1. Handle # None
    <3>1. Handle = [txt |-> EntriesSet(entries), frozen |-> FALSE, file |-> None, dirty |-> TRUE]
      BY <1>1 DEF Uninterrupted, Handle, OnDisk, Before, FileNamed, Told
    <3> QED
      BY <3>1, HandleType DEF UInv, IInv, TypeOK
  <2>2. /\ GroupPc = "mkdir" /\ GroupPc' = "writing"
        /\ dir' = TRUE /\ GroupTodo' = {"service"}
        /\ GroupState' = GroupState
    BY <1>1, <1>4 DEF MakeDir, Fails, Runs, Goes, GroupPc, GroupTodo, GroupState
  <2>3. E!Services("group") = {"service"}
    BY <2>1 DEF E!Services
  <2>4. E!EnsureDir("group")
    BY <1>2, <1>3, <2>2, <2>3 DEF E!EnsureDir
  <2> QED
    BY <2>4 DEF E!Next, E!Step
<1>5. CASE main' # "next"
  <2>1. /\ GroupPc = "mkdir" /\ GroupPc' = "app"
        /\ ~dir /\ dir' = dir /\ GroupTodo' = GroupTodo
        /\ GroupState' = "FAILURE"
    BY <1>1, <1>5 DEF MakeDir, Fails, Runs, Goes, GroupPc, GroupTodo, GroupState
  <2>2. E!EnsureDirFails("group")
    BY <1>2, <1>3, <2>1 DEF E!EnsureDirFails, E!shared
  <2> QED
    BY <2>2 DEF E!Next, E!Step
<1> QED
  BY <1>4, <1>5

LEMMA WriteMaps ==
  ASSUME UInv, Uninterrupted, Write PROVE E!Next
<1> USE DEF Runs, Goes, Seen, GroupState, GroupCreated, GroupPc, GroupOp, GroupDepth, GroupTodo
<1>1. main = "write" /\ ~created /\ ~UsesFreed("write")
  BY DEF Write, UsesFreed, Fails, Uninterrupted, Before, FileNamed, Told
<1>2. Handle = [txt |-> EntriesSet(entries), frozen |-> FALSE, file |-> None, dirty |-> TRUE]
  BY <1>1 DEF Uninterrupted, Handle, OnDisk, Before, FileNamed, Told
<1>3. CASE main' = "copy"
  <2>1. file' = entries /\ UNCHANGED <<status, ended, objects, entry, dir, loaded, stuck>>
    BY <1>1, <1>3 DEF Write, Fails
  <2>2. Handle' = [txt |-> EntriesSet(entries), frozen |-> FALSE, file |-> "file", dirty |-> FALSE]
    <3>1. OnDisk'
      BY <1>3 DEF OnDisk
    <3>2. service' = "live" /\ main' # "release" /\ entries' = entries
      BY <1>1, <1>3, <2>1 DEF Uninterrupted, Before
    <3> QED
      BY <3>1, <3>2 DEF Handle
  <2>3. /\ ContentOf(file)' = [service |-> "service", txt |-> EntriesSet(entries)]
        /\ ContentOf(loaded)' = ContentOf(loaded)
        /\ FileOwner' = "group"
    BY <2>1, NoneIsNew DEF ContentOf, FileOwner, UInv, IInv, TypeOK
  <2>4. E!WriteService("group", "service")
    BY <1>1, <1>2, <1>3, <2>1, <2>2, <2>3
    DEF E!WriteService, E!PutFile, E!Shown
  <2> QED
    BY <2>4 DEF E!Next, E!Step
<1>4. CASE main' # "copy"
  <2>1. Fails("write")
    BY <1>1, <1>4 DEF Write
  <2>2. UNCHANGED <<Handle, dir, file, loaded>>
    BY <1>1, <2>1 DEF Fails, Handle, OnDisk
  <2>3. E!WriteFails("group")
    BY <1>1, <2>1, <2>2
    DEF Fails, E!WriteFails, E!Cleanup, E!Finish, E!shared, ContentOf, FileOwner
  <2> QED
    BY <2>3 DEF E!Next, E!Step
<1> QED
  BY <1>3, <1>4

LEMMA ReloadMaps ==
  ASSUME UInv, Uninterrupted, Written \/ Reload PROVE E!Next
<1> USE DEF Runs, Goes, Seen, GroupState, GroupCreated, GroupPc, GroupOp, GroupDepth, GroupTodo
<1>1. CASE Written
  <2>1. UNCHANGED <<Handle, dir, file, loaded>>
    BY <1>1 DEF Written, Handle, OnDisk
  <2>2. E!AllWritten("group")
    BY <1>1, <2>1 DEF Written, E!AllWritten, E!shared, ContentOf, FileOwner
  <2> QED
    BY <2>2 DEF E!Next, E!Step
<1>2. CASE Reload
  <2>1. UNCHANGED <<Handle, dir, file>> /\ loaded' \in {file, loaded}
    BY <1>2 DEF Reload, Handle, OnDisk
  <2>2. ContentOf(loaded)' = ContentOf(file) \/ ContentOf(loaded)' = ContentOf(loaded)
    BY <2>1 DEF ContentOf
  <2>3. E!Finish("group", "commit")
    BY <1>2, <2>1 DEF Reload, E!Finish
  <2>4. E!Reload("group")
    BY <1>2, <2>1, <2>2, <2>3 DEF Reload, E!Reload, ContentOf, FileOwner
  <2> QED
    BY <2>4 DEF E!Next, E!Step
<1> QED
  BY <1>1, <1>2

LEMMA DisposeMaps ==
  ASSUME UInv, Uninterrupted, UnrefGroup PROVE E!Next
<1> USE DEF Runs, Goes, Seen, GroupState, GroupCreated, GroupPc, GroupOp, GroupDepth, GroupTodo
<1>1. main = "unrefgroup" /\ main' = "release" /\ ~created
  BY DEF UnrefGroup, Uninterrupted, FileNamed, Told
<1>2. UNCHANGED <<file, created, loaded, state, dir>>
  BY <1>1 DEF UnrefGroup, Withdraw
<1>3. Handle' = None
  BY <1>1 DEF Handle
<1>4. E!Dispose("group")
  BY <1>1, <1>2, <1>3 DEF E!Dispose, E!AppRuns, E!Cleanup, E!Finish, E!shared, ContentOf, FileOwner
<1> QED
  BY <1>4 DEF E!Next, E!GroupCall

\* The rest of main, and the bookkeeping that EntryGroup does in one step with
\* the write or the reload.
LEMMA UnseenSteps ==
  ASSUME UInv, Uninterrupted,
         \/ StartClient \/ NewGroup \/ Attach \/ NextService \/ Copy \/ Track \/ NameFile
         \/ Establish \/ Tell \/ NewLoop \/ Run \/ Release \/ Return
  PROVE  UNCHANGED E!vars
<1>1. UNCHANGED <<dir, file, loaded>>
  BY DEF StartClient, NewGroup, Attach, NextService, Copy, Track, NameFile, UsesFreed, Ends,
    Establish, Tell, NewLoop, Run, Release, Return
<1>2. UNCHANGED <<GroupCreated, GroupOp, GroupDepth>>
  BY DEF StartClient, NewGroup, Attach, NextService, Copy, Track, NameFile, UsesFreed, Ends,
    Establish, Tell, NewLoop, Run, Release, Return, Runs, Goes, Uninterrupted, Before,
    GroupCreated, GroupOp, GroupDepth
<1>3. UNCHANGED <<GroupPc, GroupTodo, GroupState>>
  BY DEF StartClient, NewGroup, Attach, NextService, Copy, Track, NameFile, UsesFreed, Ends,
    Establish, Tell, NewLoop, Run, Release, Return, Runs, Goes, Uninterrupted, Before,
    GroupPc, GroupTodo, GroupState
<1>4. UNCHANGED Handle
  <2>1. CASE Release
    BY <2>1 DEF Release, Runs, Goes, Handle, Uninterrupted, Before
  <2>2. CASE ~Release
    <3>1. UNCHANGED <<service, entries>> /\ (main = "release" <=> main' = "release")
      BY <2>2 DEF StartClient, NewGroup, Attach, NextService, Copy, Track, NameFile, UsesFreed,
        Ends, Establish, Tell, NewLoop, Run, Return, Runs, Goes
    <3>2. OnDisk' <=> OnDisk
      BY <2>2 DEF StartClient, NewGroup, Attach, NextService, Copy, Track, NameFile, UsesFreed,
        Ends, Establish, Tell, NewLoop, Run, Return, Runs, Goes, OnDisk, Uninterrupted, Before,
        FileNamed, Told
    <3> QED
      BY <3>1, <3>2, HandleStays
  <2> QED
    BY <2>1, <2>2
<1> QED
  BY <1>1, <1>2, <1>3, <1>4, Stutters

LEMMA ProgramMaps ==
  UInv /\ [Next]_vars => (signals' = 0 => [E!Next]_(E!vars))
<1> SUFFICES ASSUME UInv, [Next]_vars, signals' = 0
             PROVE  E!Next \/ UNCHANGED E!vars
  OBVIOUS
<1>1. ~Signal /\ ~HandlerStep /\ ~HandlerCrashes /\ ~HandlerHangs
  BY NoHandler DEF UInv
<1>2. CASE UNCHANGED vars
  <2>1. UNCHANGED <<GroupState, Handle, GroupCreated, GroupPc, GroupOp, GroupDepth,
                    GroupTodo, dir, file, loaded>>
    BY <1>2, HandleStays DEF vars, OnDisk, GroupState, GroupCreated, GroupPc, GroupOp,
      GroupDepth, GroupTodo
  <2> QED
    BY <2>1, Stutters
<1>3. CASE MainStep
  <2>1. Uninterrupted
    BY <1>3, MainIsNoSignal DEF UInv
  <2>2. ~LoopEnds /\ ~UnrefLoop
    BY <2>1 DEF Uninterrupted, LoopEnds, UnrefLoop, Runs, Goes
  <2> QED
    BY <1>3, <2>1, <2>2, AddMaps, SetMaps, CommitMaps, MakeDirMaps, WriteMaps, ReloadMaps,
      DisposeMaps, UnseenSteps DEF MainStep
<1> QED
  BY <1>1, <1>2, <1>3 DEF Next

LEMMA StartMaps == Init => E!Init
<1> SUFFICES ASSUME Init PROVE E!Init
  OBVIOUS
<1>1. Handle = None /\ FileOwner = None /\ ContentOf(file) = None /\ ContentOf(loaded) = None
  BY DEF Init, Handle, FileOwner, ContentOf
<1>2. /\ GroupState = "UNCOMMITED" /\ GroupPc = "app" /\ GroupOp = "none"
      /\ GroupDepth = 0 /\ GroupCreated = {} /\ GroupTodo = {}
  BY DEF Init, GroupState, GroupPc, GroupOp, GroupDepth, GroupCreated, GroupTodo
<1> QED
  BY <1>1, <1>2 DEF Init, E!Init

\* Until the first signal, every step of example-publish.c is a step that
\* EntryGroup allows, or none: it respects the order of calls that the theorems
\* about EntryGroup assume, however its commit fails.
THEOREM ExampleUsesGroup == Spec => UsesGroup
<1>1. UInv /\ [Next]_vars => [signals' = 0 => [E!Next]_(E!vars)]_vars
  BY ProgramMaps
<1> QED
  BY <1>1, StartMaps, StartsUninterrupted, StaysUninterrupted, PTL DEF Spec, UsesGroup

===============================================================================
