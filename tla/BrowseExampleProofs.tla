-------------------------- MODULE BrowseExampleProofs --------------------------
(***************************************************************************)
(* example-browse.c: its steps are the browser's, so that what is proved of *)
(* ServiceBrowser holds of the program; and the references to its client,   *)
(* for any services and any number of lookups, attaches and signals.        *)
(***************************************************************************)
EXTENDS BrowseExample, ServiceBrowserProofs, FiniteSetTheorems

USE DEF env, hist, program

-----------------------------------------------------------------------------
(* The program uses the browser                                            *)

\* The main thread calls the browser, or its handlers are called, in steps of the
\* browser; everything else leaves the browser alone.
LEMMA ExampleStep == [ExampleNext]_all => [Next]_vars
<1> SUFFICES ASSUME [ExampleNext]_all PROVE [Next]_vars
  OBVIOUS
<1>1. CASE StartClient \/ NewLoop \/ Run \/ LoopEnds \/ UnrefLoop \/ Return
  <2>1. UNCHANGED vars
    BY <1>1 DEF StartClient, NewLoop, Run, LoopEnds, UnrefLoop, Return
  <2> QED
    BY <2>1
<1>2. CASE AttachBrowser
  BY <1>2 DEF AttachBrowser, Next
<1>3. CASE UnrefBrowser
  BY <1>3 DEF UnrefBrowser, Next
<1>4. CASE Browser
  <2>1. Io \/ Wait
    BY <1>4 DEF Browser, Notified, Reattaches, Reports, GoesOn, AttachReturns, Io, Wait
  <2> QED
    BY <2>1 DEF Next
<1>5. ASSUME NEW i, Completes(i) \/ ThreadReturns(i) PROVE UNCHANGED vars
  BY <1>5 DEF Completes, ThreadReturns
<1>6. CASE Outside
  <2>1. Network \/ Resolved
    BY <1>6 DEF Outside, Resolved
  <2> QED
    BY <2>1 DEF Next
<1>7. CASE Signal
  BY <1>7 DEF Signal
<1>8. CASE UNCHANGED all
  BY <1>8 DEF all
<1> QED
  BY <1>1, <1>2, <1>3, <1>4, <1>5, <1>6, <1>7, <1>8 DEF ExampleNext, MainThread

\* example-browse.c uses the browser as ServiceBrowser allows: it attaches once,
\* in the main loop, and processes only when it is called.
THEOREM ExampleUsesBrowser == ExampleSpec => Spec
<1>1. ExampleInit => Init
  BY DEF ExampleInit
<1> QED
  BY <1>1, ExampleStep, PTL DEF ExampleSpec, Spec

\* So the program, too, is told when it loses what resolved announced, with the
\* watch of its link, or when its browser hears no more (on_failure).
THEOREM ExampleIsTold == ExampleSpec => [](ViewOfLink /\ DeafIsReported)
BY ExampleUsesBrowser, LossesAreReported, DeafnessIsReported, PTL

-----------------------------------------------------------------------------
(* The lookups                                                             *)

LookupState == {"running", "returned", "done"}

\* Each announced service adds a lookup that is not finished.
LEMMA LookupsAdded ==
  ASSUME NEW l \in Seq(LookupState), NEW n \in Nat
  PROVE  LET r == l \o [i \in 1..n |-> "running"] IN
         /\ r \in Seq(LookupState)
         /\ IsFiniteSet(Unfinished(l)) /\ Cardinality(Unfinished(l)) \in Nat
         /\ Cardinality(Unfinished(r)) = Cardinality(Unfinished(l)) + n
<1> DEFINE e == [i \in 1..n |-> "running"]
           r == l \o e
           a == (Len(l) + 1)..(Len(l) + n)
<1>1. e \in Seq(LookupState) /\ Len(e) = n /\ Len(l) \in Nat
  BY DEF LookupState
<1>2. /\ r \in Seq(LookupState) /\ DOMAIN r = 1..(Len(l) + n)
      /\ \A i \in 1..Len(l) : r[i] = l[i]
      /\ \A i \in a : r[i] = "running"
  <2> HIDE DEF e
  <2>1. r \in Seq(LookupState) /\ Len(r) = Len(l) + n /\ DOMAIN r = 1..(Len(l) + n)
    BY <1>1
  <2>2. \A i \in 1..Len(l) : r[i] = l[i]
    BY <1>1
  <2>3. \A i \in a : i - Len(l) \in 1..n /\ r[i] = e[i - Len(l)]
    BY <1>1
  <2>4. \A i \in 1..n : e[i] = "running"
    BY DEF e
  <2> QED
    BY <2>1, <2>2, <2>3, <2>4
<1> HIDE DEF r
<1>3. Unfinished(l) \subseteq 1..Len(l) /\ IsFiniteSet(1..Len(l))
  <2>1. DOMAIN l = 1..Len(l)
    OBVIOUS
  <2>2. IsFiniteSet(1..Len(l))
    BY <1>1, FS_Interval
  <2> QED
    BY <2>1, <2>2 DEF Unfinished
<1>4. IsFiniteSet(Unfinished(l)) /\ Cardinality(Unfinished(l)) \in Nat
  BY <1>3, FS_Subset, FS_CardinalityType
<1>5. IsFiniteSet(a) /\ Cardinality(a) = n
  <2>1. PICK x \in Int, y \in Int : x = Len(l) + 1 /\ y = Len(l) + n
    BY <1>1
  <2>2. IsFiniteSet(x..y) /\ Cardinality(x..y) = IF x > y THEN 0 ELSE y - x + 1
    BY FS_Interval
  <2> QED
    BY <1>1, <2>1, <2>2
<1>6. Unfinished(r) = Unfinished(l) \cup a
  <2>1. 1..(Len(l) + n) = (1..Len(l)) \cup a
    BY <1>1
  <2>2. DOMAIN l = 1..Len(l)
    OBVIOUS
  <2> QED
    BY <1>2, <2>1, <2>2 DEF Unfinished
<1>7. Unfinished(l) \cap a = {}
  BY <1>1, <1>3
<1>8. Cardinality(Unfinished(r)) = Cardinality(Unfinished(l)) + n
  <2>1. Cardinality(Unfinished(l) \cup a)
          = Cardinality(Unfinished(l)) + Cardinality(a) - Cardinality(Unfinished(l) \cap a)
    BY <1>4, <1>5, FS_Union
  <2>2. Cardinality(Unfinished(l) \cap a) = 0
    BY <1>7, FS_EmptySet
  <2> HIDE DEF a
  <2> QED
    BY <1>4, <1>5, <1>6, <2>1, <2>2
<1> QED
  BY <1>2, <1>4, <1>8 DEF r

\* An answer finishes one of them.
LEMMA LookupDone ==
  ASSUME NEW l \in Seq(LookupState), NEW i \in DOMAIN l, l[i] # "done"
  PROVE  LET r == [l EXCEPT ![i] = "done"] IN
         /\ r \in Seq(LookupState)
         /\ Cardinality(Unfinished(r)) = Cardinality(Unfinished(l)) - 1
<1> DEFINE r == [l EXCEPT ![i] = "done"]
<1>1. /\ r \in Seq(LookupState) /\ DOMAIN r = DOMAIN l /\ r[i] = "done"
      /\ \A j \in DOMAIN l : j # i => r[j] = l[j]
  BY DEF LookupState
<1> HIDE DEF r
<1>2. Unfinished(r) = Unfinished(l) \ {i} /\ i \in Unfinished(l)
  BY <1>1 DEF Unfinished
<1>3. IsFiniteSet(Unfinished(l))
  BY LookupsAdded
<1> QED
  BY <1>1, <1>2, <1>3, FS_RemoveElement DEF r

\* A thread that returns finishes none.
LEMMA LookupReturned ==
  ASSUME NEW l \in Seq(LookupState), NEW i \in DOMAIN l, l[i] # "done"
  PROVE  LET r == [l EXCEPT ![i] = "returned"] IN
         r \in Seq(LookupState) /\ Unfinished(r) = Unfinished(l)
<1> DEFINE r == [l EXCEPT ![i] = "returned"]
<1>1. /\ r \in Seq(LookupState) /\ DOMAIN r = DOMAIN l /\ r[i] = "returned"
      /\ \A j \in DOMAIN l : j # i => r[j] = l[j]
  BY DEF LookupState
<1> HIDE DEF r
<1>2. Unfinished(r) = Unfinished(l)
  BY <1>1 DEF Unfinished
<1> QED
  BY <1>1, <1>2 DEF r

-----------------------------------------------------------------------------
(* The references to the client                                            *)

Attached == {"newloop", "run", "polling", "unrefloop", "unrefbrowser"}

\* Until it ends the program holds its own reference, one for each attach that
\* the browser made, less the one it returned, and one for each open lookup.
Count == (IF main = "client" THEN 0 ELSE 1) + refs + Cardinality(Unfinished(lookup))

\* References are taken after the client is made, and a call is under way, or
\* the browser there to dispose of, only after it was attached.
EInv ==
  /\ lookup \in Seq(LookupState)
  /\ main = "client" => refs = 0 /\ lookup = <<>>
  /\ main \in Attached => refs > 0
  /\ stack # <<>> => refs > 0
  /\ ended = "no" => clientRefs = Count
  /\ ended = "returned" =>
       clientRefs = IF main = "attach" THEN 1 ELSE refs + Cardinality(Unfinished(lookup))

\* What the browser knows.
BInv == IInv /\ VInv

LEMMA Refs == ASSUME BInv PROVE /\ refs \in Nat
                                /\ link # None => refs > 0
BY BoundsType DEF BInv, IInv, TypeOK, VInv, Unattached

LEMMA ExampleStarts == ExampleInit => EInv
<1> SUFFICES ASSUME ExampleInit PROVE EInv
  OBVIOUS
<1>1. main = "client" /\ refs = 0 /\ lookup = <<>> /\ stack = <<>> /\ ended = "no" /\ clientRefs = 0
  BY DEF ExampleInit, Init
<1>2. Cardinality(Unfinished(lookup)) = 0
  <2>1. Unfinished(lookup) = {}
    BY <1>1 DEF Unfinished
  <2> QED
    BY <2>1, FS_EmptySet
<1>3. clientRefs = Count
  BY <1>1, <1>2 DEF Count
<1> QED
  BY <1>1, <1>3 DEF EInv, Attached, LookupState

LEMMA UnfinishedCount == ASSUME EInv PROVE Cardinality(Unfinished(lookup)) \in Nat
BY LookupsAdded DEF EInv

\* What main does by itself.
LEMMA MainKeeps ==
  ASSUME BInv, EInv,
         StartClient \/ NewLoop \/ Run \/ LoopEnds \/ UnrefLoop \/ Return
  PROVE  EInv'
<1>1. /\ lookup' = lookup /\ refs' = refs /\ stack' = stack /\ refs \in Nat
      /\ ended = "no" /\ clientRefs = Count /\ Cardinality(Unfinished(lookup)) \in Nat
  BY Refs, UnfinishedCount
     DEF StartClient, NewLoop, Run, LoopEnds, UnrefLoop, Return, Main, EInv, vars
<1>2. CASE StartClient
  <2>1. /\ main = "client" /\ main' = "attach" /\ refs = 0 /\ lookup = <<>> /\ clientRefs' = 1
    BY <1>2 DEF StartClient, Main, EInv
  <2>2. Cardinality(Unfinished(lookup)) = 0
    BY <2>1, FS_EmptySet DEF Unfinished
  <2>3. clientRefs' = Count'
    BY <1>1, <2>1, <2>2 DEF Count
  <2> QED
    BY <1>1, <2>1, <2>3 DEF EInv, Attached
<1>3. CASE NewLoop \/ Run \/ LoopEnds \/ UnrefLoop
  <2>1. /\ main \in Attached /\ main' \in Attached /\ main # "client" /\ main' # "client"
        /\ clientRefs' = clientRefs /\ ended' = "no"
    BY <1>3 DEF NewLoop, Run, LoopEnds, UnrefLoop, Main, Attached
  <2>2. Count' = Count
    BY <1>1, <2>1 DEF Count
  <2> QED
    BY <1>1, <2>1, <2>2 DEF EInv
<1>4. CASE Return
  <2>1. /\ main = "unrefclient" /\ main' = "unrefclient" /\ clientRefs' = clientRefs - 1
        /\ ended' = "returned"
    BY <1>4 DEF Return, Main
  <2>2. clientRefs' = refs + Cardinality(Unfinished(lookup))
    BY <1>1, <2>1 DEF Count
  <2> QED
    BY <1>1, <2>1, <2>2 DEF EInv, Attached
<1> QED
  BY <1>2, <1>3, <1>4

\* The attach and the dispose of the browser.
LEMMA BrowserMadeKeeps ==
  ASSUME BInv, EInv, AttachBrowser \/ UnrefBrowser
  PROVE  EInv'
<1>1. /\ lookup' = lookup /\ ended = "no" /\ ended' = "no"
      /\ clientRefs = Count /\ Cardinality(Unfinished(lookup)) \in Nat /\ refs \in Nat
  BY Refs, UnfinishedCount DEF AttachBrowser, UnrefBrowser, Main, EInv
<1>2. CASE AttachBrowser
  <2>1. /\ main = "attach" /\ main' \in {"attach", "unrefbrowser"}
        /\ refs' = refs + 1 /\ clientRefs' = clientRefs + 1
    BY <1>2 DEF AttachBrowser, Attach, Open, OpenFails
  <2>2. clientRefs' = Count'
    BY <1>1, <2>1 DEF Count
  <2> QED
    BY <1>1, <2>1, <2>2 DEF EInv
<1>3. CASE UnrefBrowser
  <2>1. /\ main = "unrefbrowser" /\ main' = "unrefclient" /\ refs > 0
        /\ refs' = refs - 1 /\ clientRefs' = clientRefs - 1 /\ stack' = <<>>
    BY <1>1, <1>3 DEF UnrefBrowser, Main, MainLoop, Dispose, EInv, Attached
  <2>2. clientRefs' = Count'
    BY <1>1, <2>1 DEF Count
  <2> QED
    BY <1>1, <2>1, <2>2 DEF EInv, Attached
<1> QED
  BY <1>2, <1>3

\* A notification: a lookup, and a reference, for each announced service.
LEMMA NotifiedKeeps ==
  ASSUME BInv, EInv, ended = "no", Notified
  PROVE  EInv'
<1>1. PICK n : n = Cardinality(Head(link.queue).added)
  OBVIOUS
<1>2. /\ lookup' = lookup \o [i \in 1..n |-> "running"] /\ clientRefs' = clientRefs + n
      /\ stack # <<>> /\ Dispatch /\ UNCHANGED <<main, ended, stack, refs>>
  BY <1>1 DEF Notified, OnNewService, IoDispatch, WaitDispatch, InIo, Loops, Waiting, Dispatch
<1>3. n \in Nat
  <2>1. link \in Link /\ link.queue \in Seq(Message) /\ link.queue # <<>>
    BY <1>2, SentOfLink DEF Dispatch, BInv, IInv, TypeOK
  <2>2. Head(link.queue) \in Message
    BY <2>1
  <2>3. Head(link.queue).added \subseteq Service
    BY <2>2 DEF Message
  <2> QED
    BY <1>1, <2>3, ServicesFinite, FS_Subset, FS_CardinalityType
<1>4. /\ lookup' \in Seq(LookupState) /\ Cardinality(Unfinished(lookup)) \in Nat
      /\ Cardinality(Unfinished(lookup')) = Cardinality(Unfinished(lookup)) + n
  BY <1>2, <1>3, LookupsAdded DEF EInv
<1>5. main # "client" /\ main' # "client" /\ refs \in Nat /\ clientRefs = Count
  BY <1>2, Refs DEF EInv
<1>6. clientRefs' = Count'
  BY <1>2, <1>3, <1>4, <1>5 DEF Count
<1> QED
  BY <1>2, <1>4, <1>5, <1>6 DEF EInv

\* The other steps of the browser: an attach inside of it takes a reference.
LEMMA BrowserKeeps ==
  ASSUME BInv, EInv, Browser
  PROVE  EInv'
<1>1. /\ ended = "no" /\ clientRefs = Count /\ refs \in Nat
      /\ Cardinality(Unfinished(lookup)) \in Nat
  BY Refs, UnfinishedCount DEF Browser, EInv
<1>2. CASE Reattaches
  <2>1. /\ stack # <<>> /\ refs' = refs + 1 /\ clientRefs' = clientRefs + 1
        /\ UNCHANGED <<main, lookup, ended>>
    BY <1>2 DEF Reattaches, IoReconnect, WaitReconnect, InIo, Loops, Waiting,
                Reconnect, Open, OpenFails
  <2>2. main # "client" /\ clientRefs' = Count'
    BY <1>1, <2>1 DEF Count, EInv
  <2> QED
    BY <1>1, <2>1, <2>2 DEF EInv
<1>3. CASE Reports \/ GoesOn
  <2>1. /\ UNCHANGED <<main, lookup, ended, refs, clientRefs>>
        /\ stack # <<>> \/ main = "polling"
    BY <1>3 DEF Reports, GoesOn, HangUp, IoFails, IoBegins, IoRead, IoIdle, WaitRead, Read,
              UpdateLink, Tick, InIo, Loops, Waiting
  <2>2. refs > 0
    BY <2>1 DEF EInv, Attached
  <2>3. Count' = Count
    BY <2>1 DEF Count
  <2> QED
    BY <1>1, <2>1, <2>2, <2>3 DEF EInv
<1>4. CASE AttachReturns
  <2>1. /\ UNCHANGED <<lookup, ended, refs, clientRefs>> /\ stack # <<>>
        /\ main' \in {main, "newloop"}
    BY <1>4 DEF AttachReturns, WaitEnds, Waiting
  <2>2. refs > 0 /\ main # "client" /\ main' # "client"
    BY <2>1 DEF EInv
  <2>3. Count' = Count
    BY <2>1, <2>2 DEF Count
  <2> QED
    BY <1>1, <2>1, <2>2, <2>3 DEF EInv
<1> QED
  BY <1>1, <1>2, <1>3, <1>4, NotifiedKeeps DEF Browser

\* The threads of the lookups, and their answers.
LEMMA LookupKeeps ==
  ASSUME BInv, EInv, NEW i \in DOMAIN lookup, Completes(i) \/ ThreadReturns(i)
  PROVE  EInv'
<1>1. /\ ended = "no" /\ ended' = "no" /\ clientRefs = Count /\ refs \in Nat
      /\ Cardinality(Unfinished(lookup)) \in Nat /\ lookup \in Seq(LookupState)
      /\ main' = main /\ refs' = refs /\ stack' = stack
  BY Refs, UnfinishedCount DEF Completes, ThreadReturns, Main, EInv, vars
<1>2. main # "client"
  <2>1. lookup # <<>>
    OBVIOUS
  <2> QED
    BY <2>1 DEF EInv
<1>3. CASE Completes(i)
  <2>1. /\ lookup[i] # "done" /\ lookup' = [lookup EXCEPT ![i] = "done"]
        /\ clientRefs' = clientRefs - 1
    BY <1>3 DEF Completes, OnAnswer
  <2>2. /\ lookup' \in Seq(LookupState)
        /\ Cardinality(Unfinished(lookup')) = Cardinality(Unfinished(lookup)) - 1
    BY <1>1, <2>1, LookupDone
  <2>3. clientRefs' = Count'
    BY <1>1, <1>2, <2>1, <2>2 DEF Count
  <2> QED
    BY <1>1, <1>2, <2>2, <2>3 DEF EInv
<1>4. CASE ThreadReturns(i)
  <2>1. /\ lookup[i] # "done" /\ lookup' = [lookup EXCEPT ![i] = "returned"]
        /\ clientRefs' = clientRefs
    BY <1>4 DEF ThreadReturns
  <2>2. lookup' \in Seq(LookupState) /\ Unfinished(lookup') = Unfinished(lookup)
    BY <1>1, <2>1, LookupReturned
  <2>3. clientRefs' = Count'
    BY <1>1, <1>2, <2>1, <2>2 DEF Count
  <2> QED
    BY <1>1, <1>2, <2>2, <2>3 DEF EInv
<1> QED
  BY <1>3, <1>4

LEMMA ExampleStays == BInv /\ EInv /\ [ExampleNext]_all => EInv'
<1> SUFFICES ASSUME BInv, EInv, [ExampleNext]_all PROVE EInv'
  OBVIOUS
<1>1. CASE Outside
  <2>1. UNCHANGED <<main, lookup, ended, refs, clientRefs, stack>>
    BY <1>1 DEF Outside, Network, Appear, Vanish, Notify, RefuseBrowse, Die, Restart, Expire, UpdateLink
  <2> QED
    BY <2>1 DEF EInv, Count
<1>2. CASE Signal
  <2>1. /\ UNCHANGED <<main, lookup, refs, clientRefs, stack>>
        /\ ended = "no" /\ ended' \in {"no", "crashed", "hung"}
    BY <1>2 DEF Signal, vars
  <2> QED
    BY <2>1 DEF EInv, Count
<1>3. CASE UNCHANGED all
  BY <1>3 DEF all, vars, EInv, Count
<1> QED
  BY <1>1, <1>2, <1>3, MainKeeps, BrowserMadeKeeps, BrowserKeeps, LookupKeeps
     DEF ExampleNext, MainThread

LEMMA BrowserKnows == Spec => []BInv
BY BrowserStarts, BrowserStays, ViewStarts, ViewStays, PTL DEF Spec, BInv

\* The client of example-browse.c lives as long as its browser or a lookup, and
\* main returns with the references of open lookups and of reconnects only.
THEOREM ExampleCountsClient == ExampleSpec => []ClientCounted
<1>1. BInv /\ EInv => ClientCounted
  <2> SUFFICES ASSUME BInv, EInv PROVE ClientCounted
    OBVIOUS
  <2>1. refs \in Nat /\ Cardinality(Unfinished(lookup)) \in Nat
    BY Refs, UnfinishedCount
  <2>2. ASSUME ended = "no", refs > 0 \/ Unfinished(lookup) # {}
        PROVE  clientRefs > 0
    <3>1. CASE main = "client"
      BY <2>2, <3>1 DEF EInv, Unfinished
    <3>2. CASE main # "client"
      BY <2>1, <2>2, <3>2 DEF EInv, Count
    <3> QED
      BY <3>1, <3>2
  <2> QED
    BY <2>2 DEF EInv, ClientCounted
<1> QED
  BY <1>1, ExampleStarts, ExampleStays, ExampleUsesBrowser, BrowserKnows, PTL DEF ExampleSpec

================================================================================
