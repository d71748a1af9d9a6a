-------------------------- MODULE ServiceBrowserProofs --------------------------
(***************************************************************************)
(* The safety properties of GaServiceBrowser, for any services, deadline,   *)
(* attaches and queue.                                                      *)
(*                                                                         *)
(* A browser goes deaf only by losing its link or its watch, or when the    *)
(* error that ended its subscription was read; each of these is reported in *)
(* the step that does it, in whatever loop.  A call waits no longer than    *)
(* BoundedWait says because no frame has more time left than the links it   *)
(* opened allow, so that an outer loop does not wait again.                 *)
(***************************************************************************)
EXTENDS ServiceBrowser, SequenceTheorems, TLAPS

\* What the watch is on.
Watching == watch => link # None

\* A browser that is attached, or attaching, is connected, or has failed.
Connected == (attached \/ stack # <<>>) /\ ~failed => link # None /\ watch

\* The answer that ended the subscription was reported, or is still queued.
EndIsComing ==
  link # None /\ link.ended /\ ~failed =>
    \E i \in DOMAIN link.queue : link.queue[i].kind = "error"

\* What has been waited, and what is left of any deadline.
InTime ==
  /\ waited <= Slices * opened
  /\ \A i \in DOMAIN stack : waited + stack[i].left <= Slices * opened

\* The links opened are attaches; one more is allowed where a link can be lost.
Budget ==
  /\ disposed => ~watch /\ stack = <<>>
  /\ ~disposed => opened <= refs
  /\ link # None /\ (watch \/ stack # <<>>) /\ (link.closed \/ link.expired)
       => refs < MaxAttach

IInv == TypeOK /\ Watching /\ Connected /\ EndIsComing /\ InTime /\ Budget

USE DEF env, hist

-----------------------------------------------------------------------------
(* Sequences, links and frames                                             *)

LEMMA Popped ==
  ASSUME NEW S, NEW s \in Seq(S), s # <<>>
  PROVE  /\ Front(s) \in Seq(S)
         /\ DOMAIN Front(s) = 1..(Len(s) - 1)
         /\ \A i \in 1..(Len(s) - 1) : Front(s)[i] = s[i]
         /\ Len(s) \in DOMAIN s /\ Last(s) = s[Len(s)] /\ Last(s) \in S
         /\ DOMAIN s = 1..Len(s) /\ Len(s) \in Nat
<1>1. Len(s) \in Nat /\ Len(s) > 0
  OBVIOUS
<1>2. Len(s) \in DOMAIN s /\ s[Len(s)] \in S /\ DOMAIN s = 1..Len(s)
  BY <1>1
<1> DEFINE n == Len(s) - 1
<1>3. n \in Nat /\ \A i \in 1..n : s[i] \in S
  BY <1>1
<1> HIDE DEF n
<1>4. /\ SubSeq(s, 1, n) \in Seq(S)
      /\ Len(SubSeq(s, 1, n)) = n
      /\ \A i \in 1..n : SubSeq(s, 1, n)[i] = s[i]
  <2>1. /\ SubSeq(s, 1, n) \in Seq(S)
        /\ Len(SubSeq(s, 1, n)) = IF 1 <= n THEN n - 1 + 1 ELSE 0
        /\ \A i \in 1..(n - 1 + 1) : SubSeq(s, 1, n)[i] = s[1 + i - 1]
    BY <1>3, SubSeqProperties
  <2> QED
    BY <1>3, <2>1
<1>5. Front(s) = SubSeq(s, 1, n)
  BY DEF Front, n
<1> QED
  BY <1>1, <1>2, <1>4, <1>5 DEF Last, n

\* A queue is read from the front.
LEMMA QueueRead ==
  ASSUME NEW S, NEW q \in Seq(S), q # <<>>
  PROVE  /\ Head(q) \in S /\ Head(q) = q[1]
         /\ Tail(q) \in Seq(S)
         /\ \A i \in DOMAIN q : i # 1 => i - 1 \in DOMAIN Tail(q) /\ Tail(q)[i - 1] = q[i]
OBVIOUS

LEMMA FreshLink ==
  /\ Fresh \in Link /\ Fresh # None
  /\ ~Fresh.ended /\ ~Fresh.closed /\ ~Fresh.expired
<1>1. <<>> \in Seq(Message) /\ {} \in SUBSET Service
  OBVIOUS
<1>2. Fresh \in Link
  BY <1>1 DEF Fresh, Link
<1>3. ~Fresh.ended /\ ~Fresh.closed /\ ~Fresh.expired
  BY DEF Fresh
<1> QED
  BY <1>2, <1>3, NoneIsNew

\* What one field of a link does to the others.
LEMMA LinkQueued ==
  ASSUME NEW l \in Link, NEW q \in Seq(Message)
  PROVE  LET n == [l EXCEPT !.queue = q] IN
           /\ n \in Link /\ n.queue = q /\ n.ended = l.ended
           /\ n.closed = l.closed /\ n.expired = l.expired
BY DEF Link

LEMMA LinkUpdated ==
  ASSUME NEW l \in Link, NEW s \in SUBSET Service
  PROVE  /\ LET n == [l EXCEPT !.sent = s] IN
              /\ n \in Link /\ n.queue = l.queue /\ n.ended = l.ended
              /\ n.closed = l.closed /\ n.expired = l.expired
         /\ LET n == [l EXCEPT !.ended = TRUE] IN
              /\ n \in Link /\ n.queue = l.queue
              /\ n.closed = l.closed /\ n.expired = l.expired
BY DEF Link

LEMMA LinkLost ==
  ASSUME NEW l \in Link
  PROVE  /\ LET n == [l EXCEPT !.closed = TRUE] IN
              /\ n \in Link /\ n.queue = l.queue /\ n.ended = l.ended
              /\ n.expired = l.expired
         /\ LET n == [l EXCEPT !.expired = TRUE] IN
              /\ n \in Link /\ n.queue = l.queue /\ n.ended = l.ended
              /\ n.closed = l.closed
BY DEF Link

LEMMA LinkRead ==
  ASSUME NEW l \in Link, NEW n \in Nat
  PROVE  /\ LET k == [l EXCEPT !.read = n] IN
              /\ k \in Link /\ k.queue = l.queue /\ k.ended = l.ended /\ k.sent = l.sent
              /\ k.closed = l.closed /\ k.expired = l.expired
         /\ \A q \in Seq(Message) :
              LET k == [l EXCEPT !.queue = q, !.read = n] IN
                /\ k \in Link /\ k.queue = q /\ k.ended = l.ended /\ k.sent = l.sent
                /\ k.closed = l.closed /\ k.expired = l.expired
BY DEF Link

LEMMA OrphanFrames ==
  ASSUME stack \in Seq(Frame)
  PROVE  /\ Orphan \in Seq(Frame)
         /\ DOMAIN Orphan = DOMAIN stack
         /\ \A i \in DOMAIN stack : Orphan[i].left = stack[i].left
         /\ stack # <<>> => Orphan # <<>>
<1> DEFINE e(i) == [stack[i] EXCEPT !.call = IF @ = "io" THEN "oldio" ELSE @]
<1>1. ASSUME NEW i \in DOMAIN stack
      PROVE  e(i) \in Frame /\ e(i).left = stack[i].left
  <2>1. stack[i] \in Frame
    OBVIOUS
  <2> QED
    BY <2>1 DEF Frame
<1>2. Orphan = [i \in DOMAIN stack |-> e(i)]
  BY DEF Orphan
<1> HIDE DEF e
<1>3. Len(stack) \in Nat /\ DOMAIN stack = 1..Len(stack)
  OBVIOUS
<1>4. Orphan \in Seq(Frame) /\ Len(Orphan) = Len(stack)
  BY <1>1, <1>2, <1>3
<1> QED
  BY <1>1, <1>2, <1>3, <1>4

LEMMA TickFrames ==
  ASSUME stack \in Seq(Frame),
         stack' = [i \in DOMAIN stack |->
                     [stack[i] EXCEPT !.left = IF @ = 0 THEN 0 ELSE @ - 1]]
  PROVE  /\ stack' \in Seq(Frame)
         /\ DOMAIN stack' = DOMAIN stack
         /\ \A i \in DOMAIN stack :
              stack'[i].left = IF stack[i].left = 0 THEN 0 ELSE stack[i].left - 1
         /\ stack # <<>> => stack' # <<>>
<1> DEFINE e(i) == [stack[i] EXCEPT !.left = IF @ = 0 THEN 0 ELSE @ - 1]
<1>1. ASSUME NEW i \in DOMAIN stack
      PROVE  /\ e(i) \in Frame
             /\ e(i).left = IF stack[i].left = 0 THEN 0 ELSE stack[i].left - 1
  <2>1. stack[i] \in Frame
    OBVIOUS
  <2>2. (IF stack[i].left = 0 THEN 0 ELSE stack[i].left - 1) \in 0..Slices
    BY <2>1, BoundsType DEF Frame
  <2> QED
    BY <2>1, <2>2 DEF Frame
<1>2. stack' = [i \in DOMAIN stack |-> e(i)]
  OBVIOUS
<1> HIDE DEF e
<1>3. Len(stack) \in Nat /\ DOMAIN stack = 1..Len(stack)
  OBVIOUS
<1>4. stack' \in Seq(Frame) /\ Len(stack') = Len(stack)
  BY <1>1, <1>2, <1>3
<1> QED
  BY <1>1, <1>2, <1>3, <1>4

\* One more link allows one more deadline.
LEMMA MoreTime ==
  ASSUME NEW n \in Nat
  PROVE  /\ Slices * n \in Nat /\ Slices * (n + 1) = Slices * n + Slices
         /\ \A m \in Nat : n <= m => Slices * n <= Slices * m
BY BoundsType

-----------------------------------------------------------------------------
(* The invariant, step by step                                             *)

LEMMA BrowserStarts == Init => IInv
<1> SUFFICES ASSUME Init PROVE IInv
  OBVIOUS
<1>1. TypeOK
  <2>1. stack \in Seq(Frame) /\ refs \in 0..MaxAttach /\ opened \in 0..MaxAttach
    BY BoundsType DEF Init
  <2>2. waited \in 0..(Slices * MaxAttach)
    BY BoundsType, MoreTime DEF Init
  <2> QED
    BY <2>1, <2>2 DEF Init, TypeOK
<1>2. InTime
  BY BoundsType DEF Init, InTime
<1>3. Budget
  BY DEF Init, Budget
<1> QED
  BY <1>1, <1>2, <1>3 DEF IInv, Init, Watching, Connected, EndIsComing

\* What is on the network.
LEMMA NetworkKeeps ==
  ASSUME IInv, Network \/ Restart
  PROVE  IInv'
<1>1. /\ live' \in SUBSET Service /\ up' \in BOOLEAN
      /\ UNCHANGED <<link, watch, snap, stack, attached, disposed, refs, hist>>
  BY DEF IInv, TypeOK, Network, Appear, Vanish, Restart
<1>2. TypeOK'
  BY <1>1 DEF IInv, TypeOK
<1> QED
  BY <1>1, <1>2 DEF IInv, Watching, Connected, EndIsComing, InTime, Budget

\* What happens to a link: nothing is lost from its queue, and when it is lost
\* there is still an attach to make.
LEMMA LinkKeeps ==
  ASSUME IInv, link \in Link, link' \in Link, link' # None, up' \in BOOLEAN,
         UNCHANGED <<live, watch, snap, stack, attached, disposed, refs, hist>>,
         \A i \in DOMAIN link.queue : i \in DOMAIN link'.queue /\ link'.queue[i] = link.queue[i],
         link'.ended => link.ended \/ \E i \in DOMAIN link'.queue : link'.queue[i].kind = "error",
         link'.closed => link.closed \/ refs < MaxAttach,
         link'.expired => link.expired \/ refs < MaxAttach,
         link # None
  PROVE  IInv'
<1>1. TypeOK'
  BY DEF IInv, TypeOK
<1>2. Watching' /\ Connected'
  BY DEF IInv, Watching, Connected
<1>3. EndIsComing'
  BY DEF IInv, EndIsComing
<1>4. InTime' /\ Budget'
  BY DEF IInv, InTime, Budget
<1> QED
  BY <1>1, <1>2, <1>3, <1>4 DEF IInv

LEMMA ResolvedKeeps ==
  ASSUME IInv, Notify \/ RefuseBrowse \/ Die \/ Expire
  PROVE  IInv'
<1>a. /\ link \in Link \cup {None} /\ live \in SUBSET Service /\ up \in BOOLEAN
  BY DEF IInv, TypeOK
<1>1. CASE Notify
  <2> DEFINE m == [kind |-> "data", added |-> live \ link.sent, removed |-> link.sent \ live]
             l == [link EXCEPT !.sent = live]
             q == Append(link.queue, m)
  <2>1. link # None /\ link \in Link /\ link.sent \in SUBSET Service /\ link.queue \in Seq(Message)
    BY <1>1, <1>a DEF Notify, Serving, Link
  <2>2. m \in Message
    BY <1>a, <2>1 DEF Message
  <2>3. l \in Link /\ l.queue = link.queue /\ l.ended = link.ended
        /\ l.closed = link.closed /\ l.expired = link.expired
    BY <1>a, <2>1, LinkUpdated
  <2>4. link' = [l EXCEPT !.queue = q] /\ q \in Seq(Message)
        /\ UNCHANGED <<env, watch, snap, stack, attached, disposed, refs, hist>>
    <3>1. link' = [link EXCEPT !.sent = live, !.queue = Append(@, m)]
      BY <1>1 DEF Notify, UpdateLink
    <3> HIDE DEF m
    <3> QED
      BY <1>1, <2>1, <2>2, <3>1 DEF Notify, UpdateLink
  <2>5. \A i \in DOMAIN link.queue : i \in DOMAIN q /\ q[i] = link.queue[i]
    BY <2>1, <2>2
  <2> HIDE DEF m, l, q
  <2>6. /\ link' \in Link /\ link'.queue = q /\ link'.ended = link.ended
        /\ link'.closed = link.closed /\ link'.expired = link.expired
    BY <2>3, <2>4, LinkQueued
  <2> QED
    BY <2>1, <2>4, <2>5, <2>6, <1>a, NoneIsNew, LinkKeeps
<1>2. CASE RefuseBrowse
  <2> DEFINE m == [kind |-> "error", added |-> {}, removed |-> {}]
             l == [link EXCEPT !.ended = TRUE]
             q == Append(link.queue, m)
  <2>1. link # None /\ link \in Link /\ link.queue \in Seq(Message)
    BY <1>2, <1>a DEF RefuseBrowse, Serving, Link
  <2>2. m \in Message /\ m.kind = "error"
    BY DEF Message
  <2>3. l \in Link /\ l.queue = link.queue
        /\ l.closed = link.closed /\ l.expired = link.expired
    BY <2>1, LinkUpdated
  <2>4. link' = [l EXCEPT !.queue = q] /\ q \in Seq(Message)
        /\ UNCHANGED <<env, watch, snap, stack, attached, disposed, refs, hist>>
    <3>1. link' = [link EXCEPT !.ended = TRUE, !.queue = Append(@, m)]
      BY <1>2 DEF RefuseBrowse, UpdateLink
    <3> HIDE DEF m
    <3> QED
      BY <1>2, <2>1, <2>2, <3>1 DEF RefuseBrowse, UpdateLink
  <2>5. /\ \A i \in DOMAIN link.queue : i \in DOMAIN q /\ q[i] = link.queue[i]
        /\ \E i \in DOMAIN q : q[i].kind = "error"
    <3> HIDE DEF m
    <3>1. Len(q) \in DOMAIN q /\ q[Len(q)] = m
      BY <2>1, <2>2
    <3> QED
      BY <2>1, <2>2, <3>1
  <2> HIDE DEF m, l, q
  <2>6. /\ link' \in Link /\ link'.queue = q
        /\ link'.closed = link.closed /\ link'.expired = link.expired
    BY <2>3, <2>4, LinkQueued
  <2> QED
    BY <2>1, <2>4, <2>5, <2>6, <1>a, NoneIsNew, LinkKeeps
<1>3. CASE Die
  <2>1. CASE link = None
    <3>1. /\ link' = link /\ up' \in BOOLEAN
          /\ UNCHANGED <<live, watch, snap, stack, attached, disposed, refs, hist>>
      BY <1>3, <2>1 DEF Die
    <3>2. TypeOK'
      BY <3>1 DEF IInv, TypeOK
    <3> QED
      BY <3>1, <3>2 DEF IInv, Watching, Connected, EndIsComing, InTime, Budget
  <2>2. CASE link # None
    <3>1. /\ link' = [link EXCEPT !.closed = TRUE] /\ up' \in BOOLEAN /\ refs < MaxAttach
          /\ link \in Link
          /\ UNCHANGED <<live, watch, snap, stack, attached, disposed, refs, hist>>
      BY <1>3, <1>a, <2>2 DEF Die
    <3>2. /\ link' \in Link /\ link'.queue = link.queue /\ link'.ended = link.ended
          /\ link'.expired = link.expired
      BY <3>1, LinkLost
    <3> QED
      BY <2>2, <3>1, <3>2, NoneIsNew, LinkKeeps
  <2> QED
    BY <2>1, <2>2
<1>4. CASE Expire
  <2>1. /\ link' = [link EXCEPT !.expired = TRUE] /\ refs < MaxAttach
        /\ link \in Link /\ link # None
        /\ UNCHANGED <<env, watch, snap, stack, attached, disposed, refs, hist>>
    BY <1>4, <1>a DEF Expire, UpdateLink, Serving
  <2>2. /\ link' \in Link /\ link'.queue = link.queue /\ link'.ended = link.ended
        /\ link'.closed = link.closed
    BY <2>1, LinkLost
  <2> QED
    BY <1>a, <2>1, <2>2, NoneIsNew, LinkKeeps
<1> QED
  BY <1>1, <1>2, <1>3, <1>4

\* An attach of the application: it watches a link of its own, or none.
LEMMA AttachKeeps == ASSUME IInv, Attach PROVE IInv'
<1>a. /\ stack = <<>> /\ ~watch /\ ~disposed /\ refs < MaxAttach /\ waited' = 0
      /\ refs' = refs + 1 /\ refs' \in 0..MaxAttach /\ refs \in Nat
      /\ UNCHANGED <<env, snap, disposed, known>>
  BY BoundsType DEF Attach, MainLoop, Open, OpenFails, IInv, TypeOK
<1>b. up \in BOOLEAN /\ snap \in BOOLEAN /\ disposed \in BOOLEAN /\ attached \in BOOLEAN
      /\ failed \in BOOLEAN /\ live \subseteq Service /\ known \subseteq Service
      /\ link \in Link \cup {None}
  BY DEF IInv, TypeOK
<1>1. CASE Open /\ opened' = 1 /\ stack' = <<Wait1s("attach")>> /\ UNCHANGED attached
  <2>1. link' \in Link /\ link' # None /\ ~link'.ended /\ ~link'.closed /\ ~link'.expired
        /\ watch' = TRUE /\ failed' = FALSE
    BY <1>1, FreshLink DEF Open
  <2>2. Wait1s("attach") \in Frame /\ Wait1s("attach").left = Slices
    BY BoundsType DEF Wait1s, Frame
  <2>3. /\ stack' \in Seq(Frame) /\ DOMAIN stack' = {1} /\ stack'[1] = Wait1s("attach")
        /\ stack' # <<>>
    BY <1>1, <2>2
  <2>4. opened' \in 0..MaxAttach /\ waited' \in 0..(Slices * MaxAttach)
    BY <1>1, <1>a, MoreTime, BoundsType
  <2>5. TypeOK'
    BY <1>1, <1>a, <1>b, <2>1, <2>3, <2>4 DEF TypeOK
  <2>6. Watching' /\ Connected' /\ EndIsComing'
    BY <2>1 DEF Watching, Connected, EndIsComing
  <2>7. InTime'
    BY <1>1, <1>a, <2>2, <2>3, BoundsType DEF InTime
  <2>8. Budget'
    BY <1>1, <1>a, <2>1 DEF Budget
  <2> QED
    BY <2>5, <2>6, <2>7, <2>8 DEF IInv
<1>2. CASE OpenFails(link) /\ opened' = 0 /\ attached' = FALSE /\ UNCHANGED <<stack, failed>>
  <2>1. link' \in {link, None} /\ watch' = FALSE /\ stack' = <<>>
    BY <1>2, <1>a DEF OpenFails
  <2>2. opened' \in 0..MaxAttach /\ waited' \in 0..(Slices * MaxAttach) /\ stack' \in Seq(Frame)
    BY <1>2, <1>a, <2>1, MoreTime, BoundsType
  <2>3. TypeOK'
    BY <1>2, <1>a, <1>b, <2>1, <2>2 DEF TypeOK
  <2>4. Watching' /\ Connected' /\ EndIsComing'
    BY <1>2, <2>1 DEF IInv, Watching, Connected, EndIsComing
  <2>5. InTime' /\ Budget'
    BY <1>2, <1>a, <2>1, BoundsType DEF InTime, Budget
  <2> QED
    BY <2>3, <2>4, <2>5 DEF IInv
<1> QED
  BY <1>1, <1>2 DEF Attach

LEMMA DisposeKeeps == ASSUME IInv, Dispose PROVE IInv'
<1>1. /\ stack' = <<>> /\ disposed' = TRUE /\ attached' = FALSE /\ link' = None
      /\ watch' = FALSE /\ UNCHANGED <<env, snap, stack, hist>>
      /\ refs' = IF refs = 0 THEN 0 ELSE refs - 1
  BY DEF Dispose, MainLoop
<1>2. refs' \in 0..MaxAttach
  BY <1>1, BoundsType DEF IInv, TypeOK
<1>3. TypeOK'
  BY <1>1, <1>2 DEF IInv, TypeOK
<1>4. InTime' /\ Budget'
  BY <1>1 DEF IInv, InTime, Budget
<1> QED
  BY <1>1, <1>3, <1>4 DEF IInv, Watching, Connected, EndIsComing

\* Reading into the buffer leaves the queue what it is.
LEMMA ReadKeeps == ASSUME IInv, Read PROVE IInv'
<1>1. /\ link # None /\ link \in Link /\ link.queue \in Seq(Message)
      /\ link' = [link EXCEPT !.read = Len(link.queue)]
      /\ UNCHANGED <<env, watch, snap, stack, attached, disposed, refs, hist>>
  BY DEF Read, UpdateLink, IInv, TypeOK, Link
<1>2. Len(link.queue) \in Nat
  BY <1>1
<1>3. /\ link' \in Link /\ link'.queue = link.queue /\ link'.ended = link.ended
      /\ link'.closed = link.closed /\ link'.expired = link.expired
  BY <1>1, <1>2, LinkRead
<1>4. up' \in BOOLEAN /\ link' # None /\ (link'.ended => link.ended)
  BY <1>1, <1>3, NoneIsNew DEF IInv, TypeOK
<1> QED
  BY <1>1, <1>3, <1>4, LinkKeeps

\* The error that ended the subscription leaves the queue by being reported.
LEMMA DispatchKeeps == ASSUME IInv, Dispatch PROVE IInv'
<1> DEFINE m == Head(link.queue)
<1>1. /\ link # None /\ link \in Link /\ link.queue \in Seq(Message) /\ link.queue # <<>>
      /\ known' = After(known, m) /\ snap' = (snap \/ m.added # {})
      /\ failed' = (failed \/ m.kind = "error") /\ link.read \in Nat /\ link.read > 0
      /\ link' = [link EXCEPT !.queue = Tail(link.queue), !.read = link.read - 1]
      /\ UNCHANGED <<env, watch, stack, attached, disposed, refs, waited, opened>>
  BY DEF Dispatch, IInv, TypeOK, Link
<1>2. /\ m \in Message /\ m = link.queue[1] /\ Tail(link.queue) \in Seq(Message)
      /\ \A i \in DOMAIN link.queue :
           i # 1 => /\ i - 1 \in DOMAIN Tail(link.queue)
                    /\ Tail(link.queue)[i - 1] = link.queue[i]
  BY <1>1, QueueRead
<1> HIDE DEF m
<1>3. /\ link' \in Link /\ link'.queue = Tail(link.queue) /\ link'.ended = link.ended
      /\ link'.closed = link.closed /\ link'.expired = link.expired
  <2> DEFINE q == Tail(link.queue)
             n == link.read - 1
  <2>1. link' = [link EXCEPT !.queue = q, !.read = n] /\ q \in Seq(Message) /\ link \in Link
        /\ n \in Nat
    BY <1>1, <1>2
  <2> HIDE DEF q, n
  <2>2. /\ link' \in Link /\ link'.queue = q /\ link'.ended = link.ended
        /\ link'.closed = link.closed /\ link'.expired = link.expired
    BY <2>1, LinkRead
  <2> QED
    BY <2>2 DEF q
<1>4. link' # None
  BY <1>3, NoneIsNew
<1>5. TypeOK'
  <2>1. known' \subseteq Service
    BY <1>1, <1>2 DEF IInv, TypeOK, After, Message
  <2>2. snap' \in BOOLEAN /\ failed' \in BOOLEAN
    BY <1>1
  <2>3. UNCHANGED <<up, live, watch, stack, attached, disposed, refs, waited, opened>>
    BY <1>1
  <2> QED
    BY <1>3, <2>1, <2>2, <2>3 DEF IInv, TypeOK
<1>6. Watching' /\ Connected'
  BY <1>1, <1>4 DEF IInv, Watching, Connected
<1>7. EndIsComing'
  <2> SUFFICES ASSUME link'.ended, ~failed'
               PROVE  \E i \in DOMAIN link'.queue : link'.queue[i].kind = "error"
    BY DEF EndIsComing
  <2>1. link.ended /\ ~failed /\ m.kind # "error"
    BY <1>1, <1>3
  <2>2. PICK i \in DOMAIN link.queue : link.queue[i].kind = "error"
    BY <1>1, <2>1 DEF IInv, EndIsComing
  <2>3. i # 1
    BY <1>2, <2>1, <2>2
  <2> QED
    BY <1>2, <1>3, <2>2, <2>3
<1>8. InTime' /\ Budget'
  BY <1>1, <1>3 DEF IInv, InTime, Budget
<1> QED
  BY <1>5, <1>6, <1>7, <1>8 DEF IInv

\* A link is replaced by one that has a deadline of its own, or given up.
LEMMA ReconnectKeeps == ASSUME IInv, stack # <<>>, Reconnect PROVE IInv'
<1>a. /\ stack \in Seq(Frame) /\ refs \in Nat /\ opened \in Nat /\ waited \in Nat
      /\ link # None /\ refs < MaxAttach /\ ~disposed /\ opened <= refs
      /\ UNCHANGED <<env, snap, attached, disposed, known, waited>>
  BY BoundsType DEF Reconnect, Lost, IInv, TypeOK, Budget
<1>b. up \in BOOLEAN /\ snap \in BOOLEAN /\ disposed \in BOOLEAN /\ attached \in BOOLEAN
      /\ live \subseteq Service /\ known \subseteq Service
  BY DEF IInv, TypeOK
<1>c. waited <= Slices * opened
      /\ \A i \in DOMAIN stack : waited + stack[i].left <= Slices * opened
  BY DEF IInv, InTime
<1>d. \A i \in DOMAIN stack : stack[i].left \in Nat
  <2>1. \A i \in DOMAIN stack : stack[i] \in Frame
    BY <1>a
  <2> QED
    BY <2>1, BoundsType DEF Frame
<1>1. CASE Open /\ opened' = opened + 1 /\ stack' = Append(Orphan, Wait1s("reattach"))
  <2> DEFINE w == Wait1s("reattach")
             n == Len(Orphan) + 1
  <2>1. link' \in Link /\ link' # None /\ ~link'.ended /\ ~link'.closed /\ ~link'.expired
        /\ watch' = TRUE /\ failed' = FALSE /\ refs' = refs + 1
    BY <1>1, FreshLink DEF Open
  <2>2. w \in Frame /\ w.left = Slices
    BY BoundsType DEF Wait1s, Frame
  <2>3. stack' = Append(Orphan, w)
    BY <1>1
  <2> HIDE DEF w
  <2>4. /\ stack' \in Seq(Frame) /\ DOMAIN stack' = 1..n
        /\ \A i \in DOMAIN Orphan : stack'[i] = Orphan[i]
        /\ stack'[n] = w /\ stack' # <<>>
        /\ DOMAIN Orphan = 1..Len(Orphan) /\ Len(Orphan) \in Nat
    BY <1>a, <2>2, <2>3, OrphanFrames
  <2>5. opened' \in 0..MaxAttach /\ refs' \in 0..MaxAttach
    BY <1>1, <1>a, <2>1, BoundsType
  <2>6. TypeOK'
    <3>1. waited' \in 0..(Slices * MaxAttach)
      BY <1>a DEF IInv, TypeOK
    <3> QED
      BY <1>1, <1>a, <1>b, <2>1, <2>4, <2>5, <3>1 DEF TypeOK
  <2>7. Watching' /\ Connected' /\ EndIsComing'
    BY <2>1 DEF Watching, Connected, EndIsComing
  <2>8. InTime'
    <3>1. Slices * opened \in Nat /\ Slices * opened' = Slices * opened + Slices
      BY <1>1, <1>a, MoreTime
    <3>2. ASSUME NEW i \in DOMAIN stack'
          PROVE  waited' + stack'[i].left <= Slices * opened'
      <4>1. CASE i = n
        <5>1. stack'[i].left = Slices /\ waited' = waited
          BY <4>1, <1>a, <2>2, <2>4
        <5> QED
          BY <5>1, <1>a, <1>c, <3>1, BoundsType
      <4>2. CASE i \in DOMAIN Orphan
        <5>1. i \in DOMAIN stack /\ stack'[i].left = stack[i].left /\ waited' = waited
          BY <4>2, <1>a, <2>4, OrphanFrames
        <5>2. waited + stack[i].left <= Slices * opened /\ stack[i].left \in Nat
          BY <5>1, <1>c, <1>d
        <5> QED
          BY <5>1, <5>2, <1>a, <3>1, BoundsType
      <4> QED
        BY <4>1, <4>2, <2>4
    <3>3. waited' <= Slices * opened'
      BY <1>a, <1>c, <3>1, BoundsType
    <3> QED
      BY <3>2, <3>3 DEF InTime
  <2>9. Budget'
    BY <1>1, <1>a, <2>1 DEF Budget
  <2> QED
    BY <2>6, <2>7, <2>8, <2>9 DEF IInv
<1>2. CASE OpenFails(None) /\ failed' = TRUE /\ stack' = Orphan /\ UNCHANGED opened
  <2>1. link' = None /\ watch' = FALSE /\ refs' = refs + 1
    BY <1>2 DEF OpenFails
  <2>2. stack' \in Seq(Frame) /\ stack' # <<>> /\ refs' \in 0..MaxAttach
        /\ DOMAIN stack' = DOMAIN stack /\ \A i \in DOMAIN stack : stack'[i].left = stack[i].left
    BY <1>2, <1>a, <2>1, OrphanFrames, BoundsType
  <2>3. TypeOK'
    <3>1. waited' \in 0..(Slices * MaxAttach) /\ opened' \in 0..MaxAttach
      BY <1>2, <1>a DEF IInv, TypeOK
    <3> QED
      BY <1>2, <1>a, <1>b, <2>1, <2>2, <3>1 DEF TypeOK
  <2>4. Watching' /\ Connected' /\ EndIsComing'
    BY <1>2, <2>1 DEF Watching, Connected, EndIsComing
  <2>5. InTime' /\ Budget'
    BY <1>2, <1>a, <1>c, <2>1, <2>2 DEF InTime, Budget
  <2> QED
    BY <2>3, <2>4, <2>5 DEF IInv
<1> QED
  BY <1>1, <1>2 DEF Reconnect

\* The innermost call returns, with its link, or with a failure.
LEMMA ReturnKeeps ==
  ASSUME IInv, stack # <<>>, stack' = Front(stack),
         UNCHANGED <<env, link, snap, disposed, refs, known, waited, opened>>,
         attached' \in BOOLEAN,
         \/ UNCHANGED <<watch, failed>>
         \/ failed' = TRUE /\ watch' \in BOOLEAN /\ (watch' => watch)
  PROVE  IInv'
<1>1. /\ stack \in Seq(Frame) /\ stack' \in Seq(Frame)
      /\ \A i \in DOMAIN stack' : i \in DOMAIN stack /\ stack'[i] = stack[i]
  <2>1. stack \in Seq(Frame)
    BY DEF IInv, TypeOK
  <2> QED
    BY <2>1, Popped
<1>2. TypeOK'
  <2>1. watch' \in BOOLEAN /\ failed' \in BOOLEAN
    BY DEF IInv, TypeOK
  <2> QED
    BY <1>1, <2>1 DEF IInv, TypeOK
<1>3. Watching' /\ Connected' /\ EndIsComing'
  BY DEF IInv, Watching, Connected, EndIsComing
<1>4. InTime'
  BY <1>1 DEF IInv, InTime
<1>5. Budget'
  BY DEF IInv, Budget
<1> QED
  BY <1>2, <1>3, <1>4, <1>5 DEF IInv

LEMMA IoKeeps == ASSUME IInv, Io PROVE IInv'
<1>1. CASE IoBegins
  <2> DEFINE f == [call |-> "io", left |-> 0]
  <2>1. /\ stack' = <<f>> /\ waited' = 0 /\ opened' = 0 /\ watch /\ link # None /\ ~disposed
        /\ UNCHANGED <<env, link, watch, snap, attached, disposed, refs, failed, known>>
    BY <1>1 DEF IoBegins, IInv, Watching, Budget
  <2>2. f \in Frame /\ f.left = 0
    BY BoundsType DEF Frame
  <2> HIDE DEF f
  <2>3. stack' \in Seq(Frame) /\ DOMAIN stack' = {1} /\ stack'[1].left = 0 /\ stack' # <<>>
    BY <2>1, <2>2
  <2>4. opened' \in 0..MaxAttach /\ waited' \in 0..(Slices * MaxAttach)
    BY <2>1, MoreTime, BoundsType
  <2>5. TypeOK'
    BY <2>1, <2>3, <2>4 DEF IInv, TypeOK
  <2>6. Watching' /\ Connected' /\ EndIsComing'
    BY <2>1 DEF IInv, Watching, Connected, EndIsComing
  <2>7. InTime'
    BY <2>1, <2>3, BoundsType DEF InTime
  <2>8. Budget'
    <3>1. refs \in Nat
      BY BoundsType DEF IInv, TypeOK
    <3> QED
      BY <2>1, <3>1 DEF IInv, Budget
  <2> QED
    BY <2>5, <2>6, <2>7, <2>8 DEF IInv
<1>2. CASE HangUp
  <2>1. /\ stack = <<>> /\ failed' = TRUE /\ watch' = FALSE
        /\ UNCHANGED <<env, link, snap, stack, attached, disposed, refs, known, waited, opened>>
    BY <1>2 DEF HangUp, MainLoop
  <2>2. TypeOK'
    BY <2>1 DEF IInv, TypeOK
  <2> QED
    BY <2>1, <2>2 DEF IInv, Watching, Connected, EndIsComing, InTime, Budget
<1>3. CASE IoDispatch
  BY <1>3, DispatchKeeps DEF IoDispatch
<1>4. CASE IoReconnect
  BY <1>4, ReconnectKeeps DEF IoReconnect, InIo
<1>5. CASE IoIdle
  <2>1. attached \in BOOLEAN
    BY DEF IInv, TypeOK
  <2> QED
    BY <1>5, <2>1, ReturnKeeps DEF IoIdle, InIo
<1>6. CASE IoFails
  <2>1. attached \in BOOLEAN /\ watch \in BOOLEAN
    BY DEF IInv, TypeOK
  <2>2. watch' \in BOOLEAN /\ (watch' => watch) /\ attached' \in BOOLEAN
    BY <1>6, <2>1 DEF IoFails
  <2> QED
    BY <1>6, <2>2, ReturnKeeps DEF IoFails, InIo
<1>7. CASE IoRead
  BY <1>7, ReadKeeps DEF IoRead
<1> QED
  BY <1>1, <1>2, <1>3, <1>4, <1>5, <1>6, <1>7 DEF Io

\* A slice passes for every frame, and the innermost had one left.
LEMMA TickKeeps == ASSUME IInv, Tick PROVE IInv'
<1>a. /\ stack \in Seq(Frame) /\ stack # <<>> /\ Last(stack).left > 0
      /\ stack' = [i \in DOMAIN stack |->
                     [stack[i] EXCEPT !.left = IF @ = 0 THEN 0 ELSE @ - 1]]
      /\ waited' = waited + 1 /\ waited \in Nat /\ opened \in Nat
      /\ opened \in 0..MaxAttach
      /\ UNCHANGED <<env, link, watch, snap, attached, disposed, refs, failed, known, opened>>
  BY BoundsType DEF Tick, Loops, Waiting, IInv, TypeOK
<1>1. /\ stack' \in Seq(Frame) /\ DOMAIN stack' = DOMAIN stack /\ stack' # <<>>
      /\ \A i \in DOMAIN stack :
           stack'[i].left = IF stack[i].left = 0 THEN 0 ELSE stack[i].left - 1
  BY <1>a, TickFrames
<1>2. Slices * opened \in Nat /\ Slices * opened <= Slices * MaxAttach /\ Slices * MaxAttach \in Nat
  BY <1>a, MoreTime, BoundsType
<1>3. \A i \in DOMAIN stack : stack[i].left \in Nat
  <2>1. \A i \in DOMAIN stack : stack[i] \in Frame
    BY <1>a
  <2> QED
    BY <2>1, BoundsType DEF Frame
<1>4. waited + 1 <= Slices * opened
  <2>1. Len(stack) \in DOMAIN stack /\ stack[Len(stack)].left > 0
    BY <1>a, Popped
  <2>2. waited + stack[Len(stack)].left <= Slices * opened
    BY <2>1 DEF IInv, InTime
  <2> QED
    BY <1>a, <1>2, <1>3, <2>1, <2>2
<1>5. TypeOK'
  <2>1. waited' \in 0..(Slices * MaxAttach)
    BY <1>a, <1>2, <1>4
  <2> QED
    BY <1>a, <1>1, <2>1 DEF IInv, TypeOK
<1>6. Watching' /\ Connected' /\ EndIsComing'
  BY <1>a, <1>1 DEF IInv, Watching, Connected, EndIsComing
<1>7. InTime'
  <2>1. ASSUME NEW i \in DOMAIN stack'
        PROVE  waited' + stack'[i].left <= Slices * opened'
    <3>1. stack[i].left \in Nat /\ waited + stack[i].left <= Slices * opened
      BY <1>1, <1>3 DEF IInv, InTime
    <3> QED
      BY <1>a, <1>1, <1>2, <1>4, <3>1
  <2> QED
    BY <1>a, <1>4, <2>1 DEF InTime
<1>8. Budget'
  BY <1>a, <1>1 DEF IInv, Budget
<1> QED
  BY <1>5, <1>6, <1>7, <1>8 DEF IInv

LEMMA WaitKeeps == ASSUME IInv, Wait PROVE IInv'
<1>1. CASE WaitDispatch
  BY <1>1, DispatchKeeps DEF WaitDispatch
<1>2. CASE WaitReconnect
  BY <1>2, ReconnectKeeps DEF WaitReconnect, Loops, Waiting
<1>3. CASE Tick
  BY <1>3, TickKeeps
<1>4. CASE WaitEnds
  <2>1. attached' \in BOOLEAN
    BY <1>4 DEF WaitEnds
  <2> QED
    BY <1>4, <2>1, ReturnKeeps DEF WaitEnds, Waiting
<1>5. CASE WaitRead
  BY <1>5, ReadKeeps DEF WaitRead
<1> QED
  BY <1>1, <1>2, <1>3, <1>4, <1>5 DEF Wait

LEMMA BrowserStays == IInv /\ [Next]_vars => IInv'
<1> SUFFICES ASSUME IInv, [Next]_vars PROVE IInv'
  OBVIOUS
<1>1. CASE Network \/ Restart
  BY <1>1, NetworkKeeps
<1>2. CASE Notify \/ RefuseBrowse \/ Die \/ Expire
  BY <1>2, ResolvedKeeps
<1>3. CASE Attach
  BY <1>3, AttachKeeps
<1>4. CASE Dispose
  BY <1>4, DisposeKeeps
<1>5. CASE Io
  BY <1>5, IoKeeps
<1>6. CASE Wait
  BY <1>6, WaitKeeps
<1>7. CASE UNCHANGED vars
  BY <1>7 DEF vars, IInv, TypeOK, Watching, Connected, EndIsComing, InTime, Budget
<1> QED
  BY <1>1, <1>2, <1>3, <1>4, <1>5, <1>6, <1>7 DEF Next, Resolved

LEMMA BrowserInvariant == Spec => []IInv
<1> QED
  BY BrowserStarts, BrowserStays, PTL DEF Spec

-----------------------------------------------------------------------------

\* Every variable of the browser keeps its type; an attach nested in a callback
\* never needs a link beyond the bound.
THEOREM BrowserTyped == Spec => []TypeOK
<1> QED
  BY BrowserInvariant, PTL DEF IInv

\* A browser that will hear nothing again has emitted "failure", whichever loop
\* lost the link (varlink_io_cb, browse_notify_cb).
THEOREM DeafnessIsReported == Spec => []DeafIsReported
<1>1. IInv => DeafIsReported
  <2> SUFFICES ASSUME IInv, MainLoop, attached, ~failed
               PROVE  /\ link # None /\ watch
                      /\ link.ended => link.queue # <<>>
    BY DEF DeafIsReported
  <2>1. link # None /\ watch
    BY DEF IInv, Connected
  <2>2. link.ended => \E i \in DOMAIN link.queue : TRUE
    BY <2>1 DEF IInv, EndIsComing
  <2> QED
    BY <2>1, <2>2
<1> QED
  BY <1>1, BrowserInvariant, PTL

\* A call of the library waits no longer than one deadline for each link it has
\* opened (the wait loop of ga_service_browser_attach).
THEOREM WaitIsBounded == Spec => []BoundedWait
<1>1. IInv => BoundedWait
  BY DEF IInv, InTime, BoundedWait
<1> QED
  BY <1>1, BrowserInvariant, PTL

-----------------------------------------------------------------------------
(* What the application sees of a link                                     *)

\* Before the first attach nothing was seen, and there is no link.
Unattached ==
  /\ disposed => link = None
  /\ ~disposed /\ refs = 0 => link = None /\ known = {}

\* The queue holds what is missing, whether or not anybody will process it.
QueueHasRest ==
  link # None => /\ link.sent \subseteq Seen
                 /\ refs <= 1 => Seen \subseteq link.sent

VInv == Unattached /\ QueueHasRest

LEMMA SentOfLink ==
  ASSUME NEW l \in Link
  PROVE  /\ l.sent \in SUBSET Service /\ l.queue \in Seq(Message)
         /\ \A q \in Seq(Message) : [l EXCEPT !.queue = q].sent = l.sent
         /\ \A s \in SUBSET Service : [l EXCEPT !.sent = s].sent = s
         /\ [l EXCEPT !.ended = TRUE].sent = l.sent
         /\ [l EXCEPT !.closed = TRUE].sent = l.sent
         /\ [l EXCEPT !.expired = TRUE].sent = l.sent
BY DEF Link

\* What the queue says is what After says of its messages, one by one: a message
\* that is sent is processed after those before it, and ...
LEMMA SeenOneMore ==
  ASSUME link \in Link, NEW m \in Message, link'.queue = Append(link.queue, m),
         known' = known, known \subseteq Service
  PROVE  Seen' = After(Seen, m)
<1> DEFINE q == link.queue
<1>1. q \in Seq(Message)
  BY SentOfLink
<1>n. PICK n \in Nat : n = Len(q) + 1
  BY <1>1
<1>2. /\ DOMAIN link'.queue = 1..n /\ DOMAIN q = 1..Len(q) /\ Len(q) \in Nat
      /\ link'.queue[n] = m
      /\ \A j \in DOMAIN q : link'.queue[j] = q[j]
  BY <1>1, <1>n
<1>3. n = Len(q) + 1 /\ m.added \subseteq Service
  BY <1>n DEF Message
<1> HIDE DEF q
<1>4. ASSUME NEW s \in Service, NEW k \in DOMAIN q \cup {1}
      PROVE  Stays(s, k)' <=> Stays(s, k) /\ s \notin m.removed
  <2>1. n >= k /\ DOMAIN link'.queue = DOMAIN q \cup {n}
    BY <1>2, <1>3
  <2> QED
    BY <1>2, <2>1 DEF Stays, q
<1>5. ASSUME NEW s \in Service
      PROVE  Stays(s, n)' <=> s \notin m.removed
  <2>1. n \in DOMAIN link'.queue /\ n >= n
    BY <1>2
  <2>2. \A j \in DOMAIN link'.queue : j >= n => j = n
    BY <1>2
  <2> QED
    BY <1>2, <2>1, <2>2 DEF Stays
<1>6. ASSUME NEW s \in Service
      PROVE  s \in Seen' <=> (s \in Seen \/ s \in m.added) /\ s \notin m.removed
  <2>1. (s \in known' /\ Stays(s, 1)') <=> s \in known /\ Stays(s, 1) /\ s \notin m.removed
    BY <1>4
  <2>2. (\E k \in DOMAIN link'.queue : s \in link'.queue[k].added /\ Stays(s, k)')
        <=> \/ \E k \in DOMAIN q : s \in q[k].added /\ Stays(s, k) /\ s \notin m.removed
            \/ s \in m.added /\ s \notin m.removed
    <3>1. DOMAIN link'.queue = DOMAIN q \cup {n}
      BY <1>2, <1>3
    <3>2. \A k \in DOMAIN q : s \in link'.queue[k].added /\ Stays(s, k)'
            <=> s \in q[k].added /\ Stays(s, k) /\ s \notin m.removed
      BY <1>2, <1>4
    <3>3. s \in link'.queue[n].added /\ Stays(s, n)'
            <=> s \in m.added /\ s \notin m.removed
      BY <1>2, <1>5
    <3> QED
      BY <3>1, <3>2, <3>3
  <2> QED
    BY <2>1, <2>2 DEF Seen, q
<1>7. Seen \subseteq Service /\ Seen' \subseteq Service
  BY DEF Seen
<1> QED
  BY <1>3, <1>6, <1>7 DEF After

\* ... reading the first message of the queue changes nothing.
LEMMA SeenOneLess ==
  ASSUME link \in Link, link.queue # <<>>, known \subseteq Service,
         link'.queue = Tail(link.queue), known' = After(known, Head(link.queue))
  PROVE  Seen' = Seen
<1> DEFINE q == link.queue
           m == Head(q)
<1>1. q \in Seq(Message) /\ q # <<>>
  BY SentOfLink
<1>2. /\ m \in Message /\ m = q[1] /\ 1 \in DOMAIN q
      /\ DOMAIN q = 1..Len(q) /\ Len(q) \in Nat
      /\ DOMAIN link'.queue = 1..(Len(q) - 1)
      /\ \A j \in 1..(Len(q) - 1) : link'.queue[j] = q[j + 1]
  BY <1>1
<1>3. m.added \subseteq Service /\ known' = (known \cup m.added) \ m.removed
  BY <1>2 DEF Message, After
<1> HIDE DEF q, m
<1>4. ASSUME NEW s \in Service, NEW k \in 1..(Len(q) - 1)
      PROVE  Stays(s, k)' <=> Stays(s, k + 1)
  <2>1. ASSUME Stays(s, k + 1), NEW j \in DOMAIN link'.queue, j >= k
        PROVE  s \notin link'.queue[j].removed
    <3>1. j + 1 \in DOMAIN q /\ j + 1 >= k + 1 /\ link'.queue[j] = q[j + 1]
      BY <1>2, <2>1
    <3> QED
      BY <2>1, <3>1 DEF Stays, q
  <2>2. ASSUME Stays(s, k)', NEW j \in DOMAIN q, j >= k + 1
        PROVE  s \notin q[j].removed
    <3>1. j - 1 \in DOMAIN link'.queue /\ j - 1 >= k /\ link'.queue[j - 1] = q[j]
      BY <1>2, <2>2
    <3> QED
      BY <2>2, <3>1 DEF Stays
  <2> QED
    BY <2>1, <2>2 DEF Stays, q
<1>5. ASSUME NEW s \in Service
      PROVE  Stays(s, 1) <=> Stays(s, 1)' /\ s \notin m.removed
  <2>1. ASSUME Stays(s, 1)', s \notin m.removed, NEW j \in DOMAIN q
        PROVE  s \notin q[j].removed
    <3>1. CASE j = 1
      BY <3>1, <2>1, <1>2
    <3>2. CASE j # 1
      <4>1. j - 1 \in DOMAIN link'.queue /\ j - 1 >= 1 /\ link'.queue[j - 1] = q[j]
        BY <1>2, <3>2
      <4> QED
        BY <2>1, <4>1 DEF Stays
    <3> QED
      BY <3>1, <3>2
  <2>2. ASSUME Stays(s, 1)
        PROVE  Stays(s, 1)' /\ s \notin m.removed
    <3>1. \A j \in DOMAIN q : s \notin q[j].removed
      BY <2>2, <1>2 DEF Stays, q
    <3>2. \A j \in DOMAIN link'.queue : j + 1 \in DOMAIN q /\ link'.queue[j] = q[j + 1]
      BY <1>2
    <3> QED
      BY <3>1, <3>2, <1>2 DEF Stays
  <2> QED
    BY <2>1, <2>2 DEF Stays, q
<1>6. ASSUME NEW s \in Service
      PROVE  s \in Seen' <=> s \in Seen
  <2>1. (s \in known' /\ Stays(s, 1)') <=> (s \in known \/ s \in m.added) /\ Stays(s, 1)
    BY <1>3, <1>5
  <2>2. (\E k \in 1..(Len(q) - 1) : s \in link'.queue[k].added /\ Stays(s, k)')
        <=> \E k \in 1..(Len(q) - 1) : s \in q[k + 1].added /\ Stays(s, k + 1)
    BY <1>2, <1>4
  <2>3. (\E k \in DOMAIN q : s \in q[k].added /\ Stays(s, k))
        <=> \/ s \in m.added /\ Stays(s, 1)
            \/ \E k \in 1..(Len(q) - 1) : s \in q[k + 1].added /\ Stays(s, k + 1)
    <3>1. \A k \in DOMAIN q : k = 1 \/ (k - 1 \in 1..(Len(q) - 1) /\ k = (k - 1) + 1)
      BY <1>2
    <3>2. \A k \in 1..(Len(q) - 1) : k + 1 \in DOMAIN q
      BY <1>2
    <3> QED
      BY <1>2, <3>1, <3>2
  <2> QED
    BY <1>2, <2>1, <2>2, <2>3 DEF Seen, q
<1> QED
  BY <1>6 DEF Seen

\* A step that leaves the queue and the application's services alone.
LEMMA SeenTheSame ==
  ASSUME link'.queue = link.queue, known' = known
  PROVE  Seen' = Seen
BY DEF Seen, Stays

LEMMA ViewStarts == Init => VInv
BY DEF Init, VInv, Unattached, QueueHasRest

\* What resolved does to a link it serves.
LEMMA ResolvedKeepsView ==
  ASSUME IInv, VInv, Notify \/ RefuseBrowse \/ Die \/ Expire
  PROVE  VInv'
<1>a. /\ link \in Link \cup {None} /\ live \in SUBSET Service /\ known \subseteq Service
      /\ refs \in Nat
  BY BoundsType DEF IInv, TypeOK
<1>b. UNCHANGED <<live, disposed, refs, known>>
  BY DEF Notify, RefuseBrowse, Die, Expire, UpdateLink
<1>c. ASSUME link # None, QueueHasRest' PROVE VInv'
  <2>1. ~disposed' /\ refs' # 0
    BY <1>b, <1>c DEF VInv, Unattached
  <2> QED
    BY <1>c, <2>1 DEF VInv, Unattached
<1>1. CASE Notify
  <2> DEFINE m == [kind |-> "data", added |-> live \ link.sent, removed |-> link.sent \ live]
             l == [link EXCEPT !.sent = live]
             q == Append(link.queue, m)
  <2>1. link # None /\ link \in Link /\ link.sent \in SUBSET Service /\ link.queue \in Seq(Message)
    BY <1>1, <1>a, SentOfLink DEF Notify, Serving
  <2>2. m \in Message /\ m.added = live \ link.sent /\ m.removed = link.sent \ live
    BY <1>a, <2>1 DEF Message
  <2>3. l \in Link /\ l.queue = link.queue /\ l.sent = live
    BY <1>a, <2>1, LinkUpdated, SentOfLink
  <2>4. link' = [l EXCEPT !.queue = q] /\ q \in Seq(Message)
    <3>1. link' = [link EXCEPT !.sent = live, !.queue = Append(@, m)]
      BY <1>1 DEF Notify, UpdateLink
    <3> HIDE DEF m
    <3> QED
      BY <2>1, <2>2, <3>1
  <2> HIDE DEF m, l, q
  <2>5. link'.queue = q /\ link'.sent = live
    BY <2>3, <2>4, LinkQueued, SentOfLink
  <2>6. Seen' = After(Seen, m)
    BY <1>a, <1>b, <2>1, <2>2, <2>5, SeenOneMore DEF q
  <2>7. QueueHasRest'
    BY <1>b, <2>1, <2>2, <2>5, <2>6 DEF VInv, QueueHasRest, After
  <2> QED
    BY <2>1, <2>7, <1>c
<1>2. CASE RefuseBrowse
  <2> DEFINE m == [kind |-> "error", added |-> {}, removed |-> {}]
             l == [link EXCEPT !.ended = TRUE]
             q == Append(link.queue, m)
  <2>1. link # None /\ link \in Link /\ link.queue \in Seq(Message)
    BY <1>2, <1>a, SentOfLink DEF RefuseBrowse, Serving
  <2>2. m \in Message /\ m.added = {} /\ m.removed = {}
    BY DEF Message
  <2>3. l \in Link /\ l.queue = link.queue /\ l.sent = link.sent
    BY <2>1, LinkUpdated, SentOfLink
  <2>4. link' = [l EXCEPT !.queue = q] /\ q \in Seq(Message)
    <3>1. link' = [link EXCEPT !.ended = TRUE, !.queue = Append(@, m)]
      BY <1>2 DEF RefuseBrowse, UpdateLink
    <3> HIDE DEF m
    <3> QED
      BY <2>1, <2>2, <3>1
  <2> HIDE DEF m, l, q
  <2>5. link'.queue = q /\ link'.sent = link.sent
    BY <2>3, <2>4, LinkQueued, SentOfLink
  <2>6. Seen' = Seen
    BY <1>a, <1>b, <2>1, <2>2, <2>5, SeenOneMore DEF q, After
  <2>7. QueueHasRest'
    BY <1>b, <2>1, <2>5, <2>6 DEF VInv, QueueHasRest
  <2> QED
    BY <2>1, <2>7, <1>c
<1>3. CASE (Die \/ Expire) /\ link # None
  <2>1. link \in Link /\ (link' = [link EXCEPT !.closed = TRUE] \/ link' = [link EXCEPT !.expired = TRUE])
    BY <1>a, <1>3 DEF Die, Expire, UpdateLink
  <2>2. link'.queue = link.queue /\ link'.sent = link.sent
    BY <2>1, LinkLost, SentOfLink
  <2>3. QueueHasRest'
    BY <1>b, <1>3, <2>2, SeenTheSame DEF VInv, QueueHasRest
  <2> QED
    BY <1>3, <2>3, <1>c
<1>4. CASE Die /\ link = None
  BY <1>b, <1>4 DEF Die, VInv, Unattached, QueueHasRest
<1>5. CASE Expire /\ link = None
  BY <1>5 DEF Expire, Serving
<1> QED
  BY <1>1, <1>2, <1>3, <1>4, <1>5

\* A link that is opened has announced nothing yet.
LEMMA FreshView ==
  /\ Fresh.sent = {} /\ Fresh.queue = <<>>
  /\ link' = Fresh /\ known' = {} => Seen' = {}
BY DEF Fresh, Seen

LEMMA AttachKeepsView == ASSUME IInv, VInv, Attach PROVE VInv'
<1>a. /\ ~disposed /\ ~disposed' /\ refs' = refs + 1 /\ refs \in Nat /\ known' = known
  BY BoundsType DEF Attach, Open, OpenFails, IInv, TypeOK
<1>1. CASE Open
  <2>1. link' = Fresh
    BY <1>1 DEF Open
  <2>2. refs' <= 1 => known' = {}
    BY <1>a DEF VInv, Unattached
  <2> QED
    BY <1>a, <2>1, <2>2, FreshView DEF VInv, Unattached, QueueHasRest
<1>2. CASE OpenFails(link)
  <2>1. link' \in {link, None}
    BY <1>2 DEF OpenFails
  <2>2. CASE link' = None
    BY <1>a, <2>2 DEF VInv, Unattached, QueueHasRest
  <2>3. CASE link' = link
    <3>1. refs' <= 1 => refs <= 1
      BY <1>a
    <3> QED
      BY <1>a, <2>3, <3>1, SeenTheSame DEF VInv, Unattached, QueueHasRest
  <2> QED
    BY <2>1, <2>2, <2>3
<1> QED
  BY <1>1, <1>2 DEF Attach

LEMMA DispatchKeepsView == ASSUME IInv, VInv, Dispatch PROVE VInv'
<1> DEFINE q == Tail(link.queue)
           n == link.read - 1
<1>1. /\ link # None /\ link \in Link /\ link.queue \in Seq(Message) /\ link.queue # <<>>
      /\ known' = After(known, Head(link.queue)) /\ link' = [link EXCEPT !.queue = q, !.read = n]
      /\ UNCHANGED <<disposed, refs>> /\ known \subseteq Service /\ n \in Nat
  BY DEF Dispatch, IInv, TypeOK, Link
<1>2. q \in Seq(Message)
  BY <1>1, QueueRead
<1> HIDE DEF q, n
<1>3. link'.queue = q /\ link'.sent = link.sent
  BY <1>1, <1>2, LinkRead
<1>4. Seen' = Seen
  BY <1>1, <1>3, SeenOneLess DEF q
<1>5. ~disposed /\ (~disposed => refs # 0)
  BY <1>1 DEF VInv, Unattached
<1> QED
  BY <1>1, <1>3, <1>4, <1>5 DEF VInv, Unattached, QueueHasRest

LEMMA ReadKeepsView == ASSUME IInv, VInv, Read PROVE VInv'
<1>1. /\ link # None /\ link \in Link /\ Len(link.queue) \in Nat
      /\ link' = [link EXCEPT !.read = Len(link.queue)]
      /\ UNCHANGED <<disposed, refs, known>>
  BY DEF Read, UpdateLink, IInv, TypeOK, Link
<1>2. link'.queue = link.queue /\ link'.sent = link.sent
  BY <1>1, LinkRead
<1>3. ~disposed /\ refs # 0
  BY <1>1 DEF VInv, Unattached
<1> QED
  BY <1>1, <1>2, <1>3, SeenTheSame DEF VInv, Unattached, QueueHasRest

\* A link that replaces another is not the first.
LEMMA ReconnectKeepsView == ASSUME IInv, VInv, Reconnect PROVE VInv'
<1>1. /\ link # None /\ refs \in Nat /\ refs' = refs + 1 /\ UNCHANGED <<disposed, known>>
      /\ link' \in {Fresh, None}
  BY BoundsType DEF Reconnect, Lost, Open, OpenFails, IInv, TypeOK
<1>2. ~disposed /\ refs # 0
  BY <1>1 DEF VInv, Unattached
<1>3. ~(refs' <= 1) /\ refs' # 0
  BY <1>1, <1>2
<1> QED
  BY <1>1, <1>2, <1>3, FreshView DEF VInv, Unattached, QueueHasRest

LEMMA ViewStays == IInv /\ VInv /\ [Next]_vars => VInv'
<1> SUFFICES ASSUME IInv, VInv, [Next]_vars PROVE VInv'
  OBVIOUS
<1>a. ASSUME UNCHANGED <<link, disposed, refs, known>> PROVE VInv'
  BY <1>a, SeenTheSame DEF VInv, Unattached, QueueHasRest
<1>1. CASE Network \/ Restart
  BY <1>1, <1>a DEF Network, Appear, Vanish, Restart
<1>2. CASE Notify \/ RefuseBrowse \/ Die \/ Expire
  BY <1>2, ResolvedKeepsView
<1>3. CASE Attach
  BY <1>3, AttachKeepsView
<1>4. CASE Dispose
  BY <1>4 DEF Dispose, VInv, Unattached, QueueHasRest
<1>5. CASE Dispatch
  BY <1>5, DispatchKeepsView
<1>6. CASE Reconnect
  BY <1>6, ReconnectKeepsView
<1>7. CASE IoBegins \/ HangUp \/ IoIdle \/ IoFails \/ Tick \/ WaitEnds
  BY <1>7, <1>a DEF IoBegins, HangUp, IoIdle, IoFails, Tick, WaitEnds
<1>8. CASE UNCHANGED vars
  BY <1>8, <1>a DEF vars
<1>9. CASE Read
  BY <1>9, ReadKeepsView
<1> QED
  BY <1>1, <1>2, <1>3, <1>4, <1>5, <1>6, <1>7, <1>8, <1>9
     DEF Next, Resolved, Io, IoRead, IoDispatch, IoReconnect,
         Wait, WaitRead, WaitDispatch, WaitReconnect

\* What resolved announced on a watched link was signalled or is in the queue,
\* and on the first link nothing else is; a link that lost its watch with a queue
\* that nobody will process was reported (varlink_io_cb, browse_notify_cb,
\* ga_service_browser_attach).
THEOREM LossesAreReported == Spec => []ViewOfLink
<1>1. Init => VInv
  BY ViewStarts
<1>2. IInv /\ VInv => ViewOfLink
  <2> SUFFICES ASSUME IInv, VInv, link # None
               PROVE  /\ watch => /\ link.sent \subseteq Seen
                                  /\ refs <= 1 => Seen \subseteq link.sent
                      /\ ~watch /\ attached => failed
    BY DEF ViewOfLink
  <2>1. ~watch /\ attached => failed
    BY DEF IInv, Connected
  <2>2. link.sent \subseteq Seen /\ (refs <= 1 => Seen \subseteq link.sent)
    BY DEF VInv, QueueHasRest
  <2> QED
    BY <2>1, <2>2
<1> QED
  BY <1>1, <1>2, ViewStays, BrowserInvariant, PTL DEF Spec

===============================================================================
