-------------------------- MODULE RecordBrowserProofs --------------------------
(***************************************************************************)
(* The safety properties of GaRecordBrowser and GaClient, for any browsers, *)
(* depth of nesting, records, connections and references.                   *)
(*                                                                         *)
(* What makes ReplyAlive inductive is which connection a return closes:     *)
(* priv->link is the connection of the browser's innermost attach or NULL   *)
(* (LinkOfInnermost), and attaches further out have older ones (Older).     *)
(***************************************************************************)
EXTENDS RecordBrowser, FiniteSetTheorems, SequenceTheorems, TLAPS

Frames == AttachFrame \cup StartFrame

IsAttach(i)   == i \in DOMAIN stack /\ stack[i].call = "attach"
Connecting(i) == i \in DOMAIN stack /\ stack[i].call = "start" /\ stack[i].at = "connecting"

Framed == stack \in Seq(Frames)

\* An attach further in has a connection made later.
Older ==
  /\ \A i, j \in DOMAIN stack :
       IsAttach(i) /\ IsAttach(j) /\ i < j => stack[i].link < stack[j].link
  /\ \A i \in DOMAIN stack : IsAttach(i) => stack[i].link <= made

LinkOfInnermost ==
  \A b \in Browser : link[b] # NoLink =>
    \E i \in AttachesOf(b) : /\ stack[i].link = link[b]
                             /\ \A j \in AttachesOf(b) : j <= i

Tidy == open \subseteq replaced \cup {link[b] : b \in Browser}

\* A test is still to be made, or the state is the outcome of the last.
Tested == (\A i \in DOMAIN stack : ~Connecting(i)) => state = probe

\* The application and each browser with a client have a reference of their own.
Holders == {b \in Browser : client[b]}
Counted ==
  /\ IsFiniteSet(Holders)
  /\ refs >= Cardinality(Holders) + IF held THEN 1 ELSE 0

Links == Framed /\ Older /\ LinkOfInnermost /\ ReplyAlive /\ Tidy

\* What an attach has asked and said: its copy of the interface is that of the
\* query, and a name that differs from the query's was set since.
Fits(f) ==
  f.call = "attach" =>
    /\ f.ifindex = f.asked.interface
    /\ props[f.browser].name # f.asked.name => f.browser \in renamed
    /\ f.said # NoLink =>
         /\ f.said.interface = f.asked.interface
         /\ f.said.name # f.asked.name => f.browser \in renamed

Labelled == \A i \in DOMAIN stack : Fits(stack[i])

IInv == TypeOK /\ Links /\ Tested /\ Counted /\ Labelled

-----------------------------------------------------------------------------
(* The stack                                                               *)

\* A call is made.
LEMMA Pushed ==
  ASSUME NEW S, NEW s \in Seq(S), NEW e \in S
  PROVE  /\ Append(s, e) \in Seq(S)
         /\ DOMAIN Append(s, e) = 1..(Len(s) + 1)
         /\ \A i \in DOMAIN s : Append(s, e)[i] = s[i]
         /\ Append(s, e)[Len(s) + 1] = e
OBVIOUS

\* The innermost call returns.
LEMMA Popped ==
  ASSUME NEW S, NEW s \in Seq(S), s # <<>>
  PROVE  /\ Front(s) \in Seq(S)
         /\ Len(Front(s)) = Len(s) - 1
         /\ DOMAIN Front(s) = 1..(Len(s) - 1)
         /\ \A i \in 1..(Len(s) - 1) : Front(s)[i] = s[i]
         /\ Len(s) \in DOMAIN s
         /\ Last(s) = s[Len(s)] /\ Last(s) \in S
<1>1. Len(s) \in Nat /\ Len(s) > 0
  OBVIOUS
<1>2. Len(s) \in DOMAIN s /\ s[Len(s)] \in S
  BY <1>1
<1>3. /\ SubSeq(s, 1, Len(s) - 1) \in Seq(S)
      /\ Len(SubSeq(s, 1, Len(s) - 1)) = Len(s) - 1
      /\ \A i \in 1..(Len(s) - 1) : SubSeq(s, 1, Len(s) - 1)[i] = s[i]
  <2> DEFINE n == Len(s) - 1
  <2>1. n \in Nat /\ \A i \in 1..n : s[i] \in S
    BY <1>1
  <2> HIDE DEF n
  <2>2. /\ SubSeq(s, 1, n) \in Seq(S)
        /\ Len(SubSeq(s, 1, n)) = IF 1 <= n THEN n - 1 + 1 ELSE 0
        /\ \A i \in 1..(n - 1 + 1) : SubSeq(s, 1, n)[i] = s[1 + i - 1]
    BY <2>1, SubSeqProperties
  <2>3. /\ SubSeq(s, 1, n) \in Seq(S)
        /\ Len(SubSeq(s, 1, n)) = n
        /\ \A i \in 1..n : SubSeq(s, 1, n)[i] = s[i]
    BY <2>1, <2>2
  <2> QED
    BY <2>3 DEF n
<1> QED
  BY <1>1, <1>2, <1>3 DEF Front, Last

\* The innermost call goes on.
LEMMA Moved ==
  ASSUME NEW S, NEW s \in Seq(S), s # <<>>, NEW e \in S
  PROVE  LET t == Append(Front(s), e) IN
         /\ t \in Seq(S)
         /\ Len(t) = Len(s)
         /\ DOMAIN t = DOMAIN s
         /\ \A i \in 1..(Len(s) - 1) : t[i] = s[i]
         /\ t[Len(s)] = e
         /\ Len(s) \in DOMAIN s
<1>1. /\ Front(s) \in Seq(S) /\ Len(Front(s)) = Len(s) - 1
      /\ \A i \in 1..(Len(s) - 1) : Front(s)[i] = s[i]
      /\ Len(s) \in DOMAIN s
  BY Popped
<1> QED
  BY <1>1

\* What frames are.
LEMMA FrameFields ==
  ASSUME NEW f \in Frames
  PROVE  /\ f.call = "attach" => f \in AttachFrame
         /\ f.call = "start" => f \in StartFrame
         /\ f.call \in {"attach", "start"}
BY DEF Frames, AttachFrame, StartFrame

LEMMA EmittedFrame ==
  ASSUME TypeOK, NEW f \in AttachFrame, f.left > 0
  PROVE  LET g == Emitted(f) IN
         /\ g \in AttachFrame
         /\ g.call = "attach" /\ g.browser = f.browser /\ g.link = f.link
         /\ g.ifindex = f.ifindex /\ g.asked = f.asked
         /\ g.said = [interface |-> f.ifindex, name |-> props[f.browser].name]
<1> DEFINE h == [f EXCEPT !.at = "record"]
           l == f.left - 1
           s == [interface |-> f.ifindex, name |-> props[f.browser].name]
<1>1. l \in 0..MaxRecords
  BY RecordBounds DEF AttachFrame
<1>2. props[f.browser] \in [interface : Interface, name : Name]
  BY RecordBounds DEF TypeOK, AttachFrame
<1>3. s \in [interface : Interface, name : Name]
  BY <1>2 DEF AttachFrame
<1>4. /\ h \in AttachFrame /\ h.call = "attach" /\ h.browser = f.browser /\ h.link = f.link
      /\ h.ifindex = f.ifindex /\ h.asked = f.asked
  BY DEF AttachFrame
<1>5. Emitted(f) = [[h EXCEPT !.left = l] EXCEPT !.said = s]
  BY DEF Emitted, AttachFrame
<1> HIDE DEF h, l, s
<1> DEFINE g == [h EXCEPT !.left = l]
<1>6. /\ g \in AttachFrame /\ g.call = "attach" /\ g.browser = f.browser /\ g.link = f.link
      /\ g.ifindex = f.ifindex /\ g.asked = f.asked
  BY <1>1, <1>4 DEF AttachFrame
<1> HIDE DEF g
<1>7. LET e == [g EXCEPT !.said = s] IN
      /\ e \in AttachFrame /\ e.call = "attach" /\ e.browser = f.browser /\ e.link = f.link
      /\ e.ifindex = f.ifindex /\ e.asked = f.asked /\ e.said = s
  BY <1>3, <1>6 DEF AttachFrame
<1> QED
  BY <1>5, <1>7 DEF g, s

-----------------------------------------------------------------------------
(* Steps that leave the stack and the connections alone                    *)

LEMMA LinksKept ==
  ASSUME Links, UNCHANGED <<stack, link, open, made, replaced>>
  PROVE  Links'
BY DEF Links, Framed, Older, LinkOfInnermost, ReplyAlive, Tidy, IsAttach, AttachesOf

LEMMA TestedKept ==
  ASSUME Tested, UNCHANGED <<stack, state, probe>>
  PROVE  Tested'
BY DEF Tested, Connecting

LEMMA CountedKept ==
  ASSUME Counted, UNCHANGED <<client, refs, held>>
  PROVE  Counted'
BY DEF Counted, Holders

-----------------------------------------------------------------------------
(* The initial states                                                      *)

LEMMA RecordsStart == Init => IInv
<1> SUFFICES ASSUME Init PROVE IInv
  OBVIOUS
<1> USE DEF Init, ClientInit, New
<1>1. TypeOK
  <2>1. refs \in Nat /\ starts \in 0..MaxStarts /\ Len(stack) <= MaxDepth
    BY ClientBounds
  <2>2. /\ made \in 0..MaxLinks /\ open \subseteq 1..made /\ replaced \subseteq 1..made
    BY RecordBounds
  <2>3. state \in ClientState /\ probe \in ClientState
    BY DEF ClientState
  <2> QED
    BY <2>1, <2>2, <2>3 DEF TypeOK, ClientTypeOK
<1>2. Links
  BY DEF Links, Framed, Older, LinkOfInnermost, ReplyAlive, Tidy, IsAttach
<1>3. Tested
  BY DEF Tested
<1>4. Counted
  <2>1. Holders = {}
    BY DEF Holders
  <2> QED
    BY <2>1, FS_EmptySet DEF Counted
<1>5. Labelled
  BY DEF Labelled
<1> QED
  BY <1>1, <1>2, <1>3, <1>4, <1>5 DEF IInv

-----------------------------------------------------------------------------
(* The client's own steps                                                  *)

\* A frame pushed that is no attach, or popped, or moved that is none, does
\* not disturb the connections.
LEMMA PushStart ==
  ASSUME Links, NEW f \in StartFrame, stack' = Append(stack, f),
         UNCHANGED <<link, open, made, replaced>>
  PROVE  Links'
<1>1. f \in Frames /\ f.call = "start"
  BY DEF Frames, StartFrame
<1>2. /\ stack' \in Seq(Frames)
      /\ DOMAIN stack' = 1..(Len(stack) + 1)
      /\ \A i \in DOMAIN stack : stack'[i] = stack[i]
      /\ stack'[Len(stack) + 1] = f
  BY <1>1, Pushed DEF Links, Framed
<1>3. DOMAIN stack = 1..Len(stack) /\ Len(stack) \in Nat
  BY DEF Links, Framed
<1>4. \A i \in DOMAIN stack' : stack'[i].call = "attach" => i \in DOMAIN stack
  BY <1>1, <1>2, <1>3
<1>5. \A b \in Browser : AttachesOf(b)' = AttachesOf(b)
  BY <1>1, <1>2, <1>3, <1>4 DEF AttachesOf
<1>6. Older'
  BY <1>2, <1>3, <1>4 DEF Links, Older, IsAttach
<1>7. LinkOfInnermost'
  BY <1>2, <1>3, <1>5 DEF Links, LinkOfInnermost, AttachesOf
<1>8. ReplyAlive'
  BY <1>2, <1>4 DEF Links, ReplyAlive
<1> QED
  BY <1>2, <1>6, <1>7, <1>8 DEF Links, Framed, Tidy

LEMMA MoveFrame ==
  ASSUME Links, NEW f \in Frames, stack # <<>>, stack' = Append(Front(stack), f),
         f.call = Last(stack).call,
         f.call = "attach" => /\ f.browser = Last(stack).browser
                              /\ f.link = Last(stack).link
                              /\ Last(stack).at # "all-for-now",
         UNCHANGED <<link, open, made, replaced>>
  PROVE  Links'
<1>1. /\ stack' \in Seq(Frames)
      /\ DOMAIN stack' = DOMAIN stack
      /\ \A i \in 1..(Len(stack) - 1) : stack'[i] = stack[i]
      /\ stack'[Len(stack)] = f
      /\ Len(stack) \in DOMAIN stack
  BY Moved DEF Links, Framed
<1>2. DOMAIN stack = 1..Len(stack) /\ Len(stack) \in Nat
  BY DEF Links, Framed
<1> DEFINE n == Len(stack)
<1>a. Last(stack) = stack[n]
  BY DEF Last
<1>b. \A i \in DOMAIN stack : i \in 1..(n - 1) \/ i = n
  BY <1>2
<1>3. ASSUME NEW i \in DOMAIN stack
      PROVE  /\ stack'[i].call = stack[i].call
             /\ stack[i].call = "attach" => /\ stack'[i].browser = stack[i].browser
                                            /\ stack'[i].link = stack[i].link
  <2>1. CASE i \in 1..(n - 1)
    BY <1>1, <2>1
  <2>2. CASE i = n
    BY <1>1, <1>a, <2>2
  <2> QED
    BY <1>b, <2>1, <2>2
<1>4. \A b \in Browser : AttachesOf(b)' = AttachesOf(b)
  BY <1>1, <1>3 DEF AttachesOf
<1>5. Older'
  BY <1>1, <1>3 DEF Links, Older, IsAttach
<1>6. LinkOfInnermost'
  BY <1>3, <1>4 DEF Links, LinkOfInnermost, AttachesOf
<1>7. ReplyAlive'
  <2> SUFFICES ASSUME NEW i \in DOMAIN stack, stack'[i].call = "attach",
                      stack'[i].at # "all-for-now"
               PROVE  stack'[i].link \in open
    BY <1>1 DEF ReplyAlive
  <2>1. CASE i \in 1..(n - 1)
    BY <1>1, <2>1 DEF Links, ReplyAlive
  <2>2. CASE i = n
    BY <1>1, <1>a, <2>2 DEF Links, ReplyAlive
  <2> QED
    BY <1>b, <2>1, <2>2
<1> QED
  BY <1>1, <1>5, <1>6, <1>7 DEF Links, Framed, Tidy

LEMMA PopStart ==
  ASSUME Links, stack # <<>>, Last(stack).call = "start", stack' = Front(stack),
         UNCHANGED <<link, open, made, replaced>>
  PROVE  Links'
<1>1. /\ stack' \in Seq(Frames)
      /\ DOMAIN stack' = 1..(Len(stack) - 1)
      /\ \A i \in 1..(Len(stack) - 1) : stack'[i] = stack[i]
      /\ Len(stack) \in DOMAIN stack
      /\ stack[Len(stack)].call = "start"
  BY Popped DEF Links, Framed
<1>2. DOMAIN stack = 1..Len(stack) /\ Len(stack) \in Nat
  BY DEF Links, Framed
<1>3. \A i \in DOMAIN stack : stack[i].call = "attach" => i \in DOMAIN stack'
  BY <1>1, <1>2
<1>4. \A b \in Browser : AttachesOf(b)' = AttachesOf(b)
  BY <1>1, <1>2, <1>3 DEF AttachesOf
<1>5. Older'
  BY <1>1, <1>2 DEF Links, Older, IsAttach
<1>6. LinkOfInnermost'
  BY <1>1, <1>3, <1>4 DEF Links, LinkOfInnermost, AttachesOf
<1>7. ReplyAlive'
  BY <1>1, <1>2 DEF Links, ReplyAlive
<1> QED
  BY <1>1, <1>5, <1>6, <1>7 DEF Links, Framed, Tidy

-----------------------------------------------------------------------------
(* The browser's steps, and its connections                                *)

LEMMA AttachedFrame ==
  ASSUME TypeOK, NEW b \in Browser, NEW n \in 0..MaxRecords, AttachAnswered(b, n)
  PROVE  /\ made + 1 \in 1..MaxLinks
         /\ Answered(b, n) \in AttachFrame
<1>1. made + 1 \in 1..MaxLinks
  BY RecordBounds DEF TypeOK, AttachAnswered, Connect
<1>2. props[b] \in Question /\ props[b] \in [interface : Interface, name : Name]
  BY RecordBounds DEF TypeOK
<1>3. props[b].interface \in Interface
  BY <1>2
<1> QED
  BY <1>1, <1>2, <1>3 DEF Answered, AttachFrame

LEMMA LinksOfAnswered ==
  ASSUME TypeOK, Links, NEW b \in Browser, NEW n \in 0..MaxRecords, AttachAnswered(b, n)
  PROVE  Links'
<1> DEFINE f == Answered(b, n)
           m == Len(stack) + 1
<1>1. /\ made' = made + 1 /\ made \in Nat
      /\ link' = [link EXCEPT ![b] = made + 1] /\ open' = open \cup {made + 1}
      /\ replaced' = replaced \cup ({link[b]} \ {NoLink})
      /\ stack' = Append(stack, f)
      /\ b \in DOMAIN link /\ DOMAIN link = Browser
  BY RecordBounds DEF AttachAnswered, Connect, TypeOK
<1>2. f \in Frames
  BY AttachedFrame DEF Frames
<1>3. /\ f.call = "attach" /\ f.browser = b /\ f.link = made + 1
  BY DEF Answered
<1> HIDE DEF f
<1>4. /\ stack' \in Seq(Frames)
      /\ DOMAIN stack' = 1..m
      /\ \A i \in DOMAIN stack : stack'[i] = stack[i]
      /\ stack'[m] = f
  BY <1>1, <1>2, Pushed DEF Links, Framed
<1>5. DOMAIN stack = 1..Len(stack) /\ Len(stack) \in Nat
  BY DEF Links, Framed
<1>6. \A i \in DOMAIN stack' : i \in DOMAIN stack \/ i = m
  BY <1>4, <1>5
<1>7. Older'
  <2>1. \A i \in DOMAIN stack' : IsAttach(i)' => stack'[i].link <= made'
    <3> SUFFICES ASSUME NEW i \in DOMAIN stack', IsAttach(i)'
                 PROVE  stack'[i].link <= made'
      OBVIOUS
    <3>1. CASE i = m
      BY <3>1, <1>1, <1>3, <1>4
    <3>2. CASE i \in DOMAIN stack
      <4>1. stack[i].link <= made /\ stack[i].link \in Nat
        BY <3>2, <1>4, FrameFields DEF Links, Framed, Older, IsAttach, AttachFrame
      <4> QED
        BY <4>1, <3>2, <1>1, <1>4
    <3> QED
      BY <3>1, <3>2, <1>6
  <2>2. ASSUME NEW i \in DOMAIN stack', NEW j \in DOMAIN stack',
               IsAttach(i)', IsAttach(j)', i < j
        PROVE  stack'[i].link < stack'[j].link
    <3>1. i \in DOMAIN stack
      BY <2>2, <1>4, <1>5
    <3>2. stack[i].link <= made /\ stack[i].link \in Nat
      BY <2>2, <3>1, <1>4, FrameFields DEF Links, Framed, Older, IsAttach, AttachFrame
    <3>3. CASE j = m
      BY <3>1, <3>2, <3>3, <1>1, <1>3, <1>4
    <3>4. CASE j \in DOMAIN stack
      BY <2>2, <3>1, <3>4, <1>4 DEF Links, Older, IsAttach
    <3> QED
      BY <3>3, <3>4, <1>6
  <2> QED
    BY <2>1, <2>2 DEF Older
<1>8. LinkOfInnermost'
  <2> SUFFICES ASSUME NEW c \in Browser, link'[c] # NoLink
               PROVE  \E i \in AttachesOf(c)' :
                         /\ stack'[i].link = link'[c]
                         /\ \A j \in AttachesOf(c)' : j <= i
    BY DEF LinkOfInnermost
  <2>1. CASE c = b
    <3>1. m \in AttachesOf(c)'
      BY <2>1, <1>3, <1>4, <1>5 DEF AttachesOf
    <3>2. stack'[m].link = link'[c]
      BY <2>1, <1>1, <1>3, <1>4
    <3>3. \A j \in AttachesOf(c)' : j <= m
      BY <1>4, <1>5 DEF AttachesOf
    <3> QED
      BY <3>1, <3>2, <3>3
  <2>2. CASE c # b
    <3>1. link'[c] = link[c]
      BY <2>2, <1>1
    <3>2. AttachesOf(c)' = AttachesOf(c)
      BY <2>2, <1>3, <1>4, <1>5, <1>6 DEF AttachesOf
    <3> QED
      BY <3>1, <3>2, <1>4 DEF Links, LinkOfInnermost, AttachesOf
  <2> QED
    BY <2>1, <2>2
<1>9. ReplyAlive'
  BY <1>1, <1>3, <1>4, <1>6 DEF Links, ReplyAlive
<1>10. Tidy'
  <2> SUFFICES ASSUME NEW o \in open'
               PROVE  o \in replaced' \/ \E c \in Browser : o = link'[c]
    BY DEF Tidy
  <2>1. CASE o = made + 1
    BY <2>1, <1>1
  <2>2. CASE o \in replaced
    BY <2>2, <1>1
  <2>3. ASSUME NEW c \in Browser, o = link[c], o # made + 1
        PROVE  o \in replaced' \/ \E d \in Browser : o = link'[d]
    <3>1. o # NoLink
      BY <1>1, RecordBounds DEF TypeOK
    <3> QED
      BY <3>1, <2>3, <1>1
  <2> QED
    BY <2>1, <2>2, <2>3, <1>1 DEF Links, Tidy
<1> QED
  BY <1>4, <1>7, <1>8, <1>9, <1>10 DEF Links, Framed

LEMMA LinksOfFailed ==
  ASSUME TypeOK, Links, NEW b \in Browser, AttachFails(b)
  PROVE  Links'
<1>1. /\ made' = made + 1 /\ made \in Nat
      /\ link' = [link EXCEPT ![b] = NoLink] /\ UNCHANGED <<stack, open>>
      /\ replaced' = replaced \cup ({link[b]} \ {NoLink})
      /\ DOMAIN link = Browser
  BY RecordBounds DEF AttachFails, Connect, TypeOK
<1>2. Older'
  <2>1. \A i \in DOMAIN stack : IsAttach(i) => stack[i].link \in Nat
    BY FrameFields DEF Links, Framed, IsAttach, AttachFrame
  <2> QED
    BY <1>1, <2>1 DEF Links, Older, IsAttach
<1>3. LinkOfInnermost'
  BY <1>1 DEF Links, LinkOfInnermost, AttachesOf
<1>4. ReplyAlive'
  BY <1>1 DEF Links, ReplyAlive
<1>5. Tidy'
  <2> SUFFICES ASSUME NEW o \in open
               PROVE  o \in replaced' \/ \E c \in Browser : o = link'[c]
    BY <1>1 DEF Tidy
  <2>1. o # NoLink
    BY RecordBounds DEF TypeOK
  <2>2. o \in replaced \/ \E c \in Browser : o = link[c]
    BY DEF Links, Tidy
  <2> QED
    BY <2>1, <2>2, <1>1
<1> QED
  BY <1>1, <1>2, <1>3, <1>4, <1>5 DEF Links, Framed

\* A browser without an attach has nothing to disconnect.
LEMMA LinksOfDispose ==
  ASSUME TypeOK, Links, NEW b \in Browser, Dispose(b)
  PROVE  Links'
<1>1. link[b] = NoLink
  BY DEF Dispose, Links, LinkOfInnermost
<1>2. NoLink \notin open
  <2>1. \A o \in open : o \in Nat
    BY RecordBounds DEF TypeOK
  <2> QED
    BY <2>1, RecordBounds
<1>3. UNCHANGED <<stack, link, open, made, replaced>>
  BY <1>1, <1>2 DEF Dispose, Disconnect, TypeOK
<1> QED
  BY <1>3, LinksKept

\* What an attach disconnects on its return is its own connection, or nothing.
LEMMA LinksOfReturn ==
  ASSUME TypeOK, Links, AttachReturns
  PROVE  Links'
<1> DEFINE n == Len(stack)
           f == Last(stack)
<1>1. /\ stack # <<>> /\ f.call = "attach" /\ f.at = "all-for-now"
      /\ stack' = Front(stack)
      /\ open' = open \ {link[f.browser]}
      /\ link' = [link EXCEPT ![f.browser] = NoLink]
      /\ UNCHANGED <<made, replaced>>
  BY DEF AttachReturns, Inside, Disconnect
<1>2. /\ stack' \in Seq(Frames)
      /\ DOMAIN stack' = 1..(n - 1)
      /\ \A i \in 1..(n - 1) : stack'[i] = stack[i]
      /\ n \in DOMAIN stack
      /\ f = stack[n] /\ f \in Frames
  BY <1>1, Popped DEF Links, Framed
<1>3. DOMAIN stack = 1..n /\ n \in Nat
  BY DEF Links, Framed
<1>4. f.browser \in Browser /\ f.link \in Nat
  BY <1>1, <1>2, FrameFields DEF AttachFrame
<1> HIDE DEF f, n
<1>5. link[f.browser] = NoLink \/ link[f.browser] = f.link
  <2> SUFFICES ASSUME link[f.browser] # NoLink PROVE link[f.browser] = f.link
    OBVIOUS
  <2>1. PICK i \in AttachesOf(f.browser) :
          /\ stack[i].link = link[f.browser]
          /\ \A j \in AttachesOf(f.browser) : j <= i
    BY <1>4 DEF Links, LinkOfInnermost
  <2>2. n \in AttachesOf(f.browser)
    BY <1>1, <1>2 DEF AttachesOf
  <2>3. i = n
    BY <2>1, <2>2, <1>3 DEF AttachesOf
  <2> QED
    BY <2>1, <2>3, <1>2
<1>6. Older'
  BY <1>1, <1>2, <1>3 DEF Links, Older, IsAttach
<1>7. LinkOfInnermost'
  <2> SUFFICES ASSUME NEW c \in Browser, link'[c] # NoLink
               PROVE  \E i \in AttachesOf(c)' :
                         /\ stack'[i].link = link'[c]
                         /\ \A j \in AttachesOf(c)' : j <= i
    BY DEF LinkOfInnermost
  <2>1. c # f.browser /\ link'[c] = link[c]
    BY <1>1, <1>4 DEF TypeOK
  <2>2. AttachesOf(c)' = AttachesOf(c)
    BY <2>1, <1>2, <1>3 DEF AttachesOf
  <2> QED
    BY <2>1, <2>2, <1>2 DEF Links, LinkOfInnermost, AttachesOf
<1>8. ReplyAlive'
  <2> SUFFICES ASSUME NEW i \in DOMAIN stack', stack'[i].call = "attach",
                      stack'[i].at # "all-for-now"
               PROVE  stack'[i].link \in open'
    BY DEF ReplyAlive
  <2>1. i \in DOMAIN stack /\ i < n /\ stack'[i] = stack[i]
    BY <1>2, <1>3
  <2>2. stack[i].link \in open
    BY <2>1 DEF Links, ReplyAlive
  <2>3. stack[i].link < f.link
    BY <2>1, <1>1, <1>2 DEF Links, Older, IsAttach
  <2>4. stack[i].link \in Nat
    BY <2>1, FrameFields DEF Links, Framed, AttachFrame
  <2>5. stack[i].link # link[f.browser]
    BY <2>3, <2>4, <1>4, <1>5, RecordBounds
  <2> QED
    BY <2>1, <2>2, <2>5, <1>1
<1>9. Tidy'
  <2> SUFFICES ASSUME NEW o \in open'
               PROVE  o \in replaced' \/ \E c \in Browser : o = link'[c]
    BY DEF Tidy
  <2>1. o \in open /\ o # link[f.browser]
    BY <1>1
  <2>2. o \in replaced \/ \E c \in Browser : o = link[c]
    BY <2>1 DEF Links, Tidy
  <2> QED
    BY <2>1, <2>2, <1>1 DEF TypeOK
<1> QED
  BY <1>2, <1>6, <1>7, <1>8, <1>9 DEF Links, Framed

-----------------------------------------------------------------------------
(* Every step                                                              *)

LEMMA LinksStep ==
  ASSUME TypeOK, Links, [Next]_vars
  PROVE  Links'
<1> USE DEF clientVars, browserVars
<1>1. CASE Start /\ UNCHANGED browserVars
  <2>1. [call |-> "start", at |-> "connecting"] \in StartFrame
    BY DEF StartFrame
  <2> QED
    BY <1>1, <2>1, PushStart DEF Start
<1>2. ASSUME NEW outcome, Probe(outcome), UNCHANGED browserVars
      PROVE  Links'
  <2> DEFINE f == [Last(stack) EXCEPT !.at = "announced"]
  <2>1. /\ stack # <<>> /\ Last(stack).call = "start"
        /\ stack' = Append(Front(stack), f)
    BY <1>2 DEF Probe, Inside, GoesTo
  <2>2. Last(stack) \in Frames
    BY <2>1, Popped DEF Links, Framed
  <2>3. f \in Frames /\ f.call = "start"
    BY <2>1, <2>2, FrameFields DEF Frames, StartFrame
  <2> HIDE DEF f
  <2> QED
    BY <2>1, <2>3, <1>2, MoveFrame
<1>3. CASE StartReturns /\ UNCHANGED browserVars
  BY <1>3, PopStart DEF StartReturns, Inside
<1>4. CASE (DropClient \/ Flap) /\ UNCHANGED browserVars
  BY <1>4, LinksKept DEF DropClient, Flap
<1>5. CASE EmitRecord
  <2> DEFINE f == Emitted(Last(stack))
  <2>1. /\ stack # <<>> /\ Last(stack).call = "attach" /\ Last(stack).left > 0
        /\ Last(stack).at # "all-for-now"
        /\ stack' = Append(Front(stack), f)
        /\ UNCHANGED <<link, open, made, replaced>>
    BY <1>5 DEF EmitRecord, Reading, Inside
  <2>2. Last(stack) \in AttachFrame
    BY <2>1, Popped, FrameFields DEF Links, Framed
  <2>3. /\ f \in AttachFrame
        /\ f.call = "attach" /\ f.browser = Last(stack).browser /\ f.link = Last(stack).link
    BY <2>1, <2>2, EmittedFrame
  <2>4. f \in Frames
    BY <2>3 DEF Frames
  <2> HIDE DEF f
  <2> QED
    BY <2>1, <2>3, <2>4, MoveFrame
<1>6. CASE EmitAllForNow
  <2> DEFINE f == [Last(stack) EXCEPT !.at = "all-for-now"]
  <2>1. /\ stack # <<>> /\ Last(stack).call = "attach"
        /\ Last(stack).at # "all-for-now"
        /\ stack' = Append(Front(stack), f)
        /\ UNCHANGED <<link, open, made, replaced>>
    BY <1>6 DEF EmitAllForNow, Reading, Inside, GoesTo
  <2>2. Last(stack) \in AttachFrame
    BY <2>1, Popped, FrameFields DEF Links, Framed
  <2>3. /\ f \in AttachFrame
        /\ f.call = "attach" /\ f.browser = Last(stack).browser /\ f.link = Last(stack).link
    BY <2>1, <2>2 DEF AttachFrame
  <2>4. f \in Frames
    BY <2>3 DEF Frames
  <2> HIDE DEF f
  <2> QED
    BY <2>1, <2>3, <2>4, MoveFrame
<1>7. CASE AttachReturns
  BY <1>7, LinksOfReturn
<1>8. ASSUME NEW b \in Browser, Attach(b) PROVE Links'
  <2>1. CASE AttachRefused(b)
    BY <2>1, LinksKept DEF AttachRefused
  <2>2. CASE AttachFails(b)
    BY <2>2, LinksOfFailed
  <2>3. ASSUME NEW n \in 0..MaxRecords, AttachAnswered(b, n) PROVE Links'
    BY <2>3, LinksOfAnswered
  <2> QED
    BY <1>8, <2>1, <2>2, <2>3 DEF Attach
<1>9. ASSUME NEW b \in Browser, Dispose(b) PROVE Links'
  BY <1>9, LinksOfDispose
<1>10. ASSUME NEW b \in Browser, NEW q \in Question, SetProperties(b, q) PROVE Links'
  BY <1>10, LinksKept DEF SetProperties
<1>11. CASE UNCHANGED vars
  BY <1>11, LinksKept DEF vars
<1> QED
  BY <1>1, <1>2, <1>3, <1>4, <1>5, <1>6, <1>7, <1>8, <1>9, <1>10, <1>11
     DEF Next, ClientNext, Steps

LEMMA TestedStep ==
  ASSUME TypeOK, Framed, Tested, [Next]_vars
  PROVE  Tested'
<1> USE DEF clientVars, browserVars
<1> DEFINE n == Len(stack)
<1>a. DOMAIN stack = 1..n /\ n \in Nat
  BY DEF Framed
<1>1. CASE Start /\ UNCHANGED browserVars
  <2> DEFINE f == [call |-> "start", at |-> "connecting"]
  <2>1. f \in Frames /\ f.call = "start" /\ f.at = "connecting"
    BY DEF Frames, StartFrame
  <2> HIDE DEF f
  <2>2. stack' = Append(stack, f)
    BY <1>1 DEF Start, f
  <2>3. DOMAIN stack' = 1..(n + 1) /\ stack'[n + 1] = f
    BY <2>1, <2>2, Pushed DEF Framed
  <2>4. \E i \in DOMAIN stack' : stack'[i].call = "start" /\ stack'[i].at = "connecting"
    BY <2>1, <2>3, <1>a
  <2> QED
    BY <2>4 DEF Tested, Connecting
<1>2. ASSUME NEW outcome, Probe(outcome), UNCHANGED browserVars
      PROVE  Tested'
  BY <1>2 DEF Probe, Tested
<1>3. ASSUME stack # <<>>, stack' = Front(stack),
             Last(stack).call = "attach" \/ Last(stack).at = "announced",
             UNCHANGED <<state, probe>>
      PROVE  Tested'
  <2>1. /\ DOMAIN stack' = 1..(n - 1)
        /\ \A i \in 1..(n - 1) : stack'[i] = stack[i]
        /\ stack[n].call = "attach" \/ stack[n].at = "announced"
    BY <1>3, Popped DEF Framed
  <2>2. \A i \in DOMAIN stack : Connecting(i) => i \in DOMAIN stack' /\ Connecting(i)'
    BY <2>1, <1>a DEF Connecting
  <2>3. (\A i \in DOMAIN stack' : ~Connecting(i)') => \A i \in DOMAIN stack : ~Connecting(i)
    BY <2>2
  <2> QED
    BY <2>3, <1>3 DEF Tested
<1>4. ASSUME NEW f \in Frames, stack # <<>>, stack' = Append(Front(stack), f),
             Last(stack).call = "attach", UNCHANGED <<state, probe>>
      PROVE  Tested'
  <2>1. /\ DOMAIN stack' = DOMAIN stack
        /\ \A i \in 1..(n - 1) : stack'[i] = stack[i]
    BY <1>4, Moved DEF Framed
  <2>2. stack[n].call = "attach"
    BY <1>4 DEF Last
  <2>3. \A i \in DOMAIN stack : Connecting(i) => i \in DOMAIN stack' /\ Connecting(i)'
    BY <2>1, <2>2, <1>a DEF Connecting
  <2>4. (\A i \in DOMAIN stack' : ~Connecting(i)') => \A i \in DOMAIN stack : ~Connecting(i)
    BY <2>3
  <2> QED
    BY <2>4, <1>4 DEF Tested
<1>5. CASE StartReturns /\ UNCHANGED browserVars
  BY <1>3, <1>5 DEF StartReturns, Inside
<1>6. CASE (DropClient \/ Flap) /\ UNCHANGED browserVars
  BY <1>6, TestedKept DEF DropClient, Flap
<1>7. CASE EmitRecord
  <2> DEFINE f == Emitted(Last(stack))
  <2>1. /\ stack # <<>> /\ Last(stack).call = "attach" /\ Last(stack).left > 0
        /\ stack' = Append(Front(stack), f) /\ UNCHANGED <<state, probe>>
    BY <1>7 DEF EmitRecord, Reading, Inside
  <2>2. Last(stack) \in AttachFrame
    BY <2>1, Popped, FrameFields DEF Framed
  <2>3. f \in Frames
    BY <2>1, <2>2, EmittedFrame DEF Frames
  <2> HIDE DEF f
  <2> QED
    BY <2>1, <2>3, <1>4
<1>8. CASE EmitAllForNow
  <2> DEFINE f == [Last(stack) EXCEPT !.at = "all-for-now"]
  <2>1. /\ stack # <<>> /\ Last(stack).call = "attach"
        /\ stack' = Append(Front(stack), f) /\ UNCHANGED <<state, probe>>
    BY <1>8 DEF EmitAllForNow, Reading, Inside, GoesTo
  <2>2. Last(stack) \in AttachFrame
    BY <2>1, Popped, FrameFields DEF Framed
  <2>3. f \in Frames
    BY <2>2 DEF AttachFrame, Frames
  <2> HIDE DEF f
  <2> QED
    BY <2>1, <2>3, <1>4
<1>9. CASE AttachReturns
  BY <1>3, <1>9 DEF AttachReturns, Inside
<1>10. ASSUME NEW b \in Browser, Attach(b) PROVE Tested'
  <2>1. CASE AttachRefused(b) \/ AttachFails(b)
    BY <2>1, TestedKept DEF AttachRefused, AttachFails, TakeClient
  <2>2. ASSUME NEW k \in 0..MaxRecords, AttachAnswered(b, k) PROVE Tested'
    <3> DEFINE f == Answered(b, k)
    <3>1. f \in Frames
      BY <2>2, AttachedFrame DEF Frames
    <3>2. stack' = Append(stack, f) /\ UNCHANGED <<state, probe>>
      BY <2>2 DEF AttachAnswered, TakeClient
    <3> HIDE DEF f
    <3>3. DOMAIN stack' = 1..(n + 1) /\ \A i \in DOMAIN stack : stack'[i] = stack[i]
      BY <3>1, <3>2, Pushed DEF Framed
    <3>4. \A i \in DOMAIN stack : Connecting(i) => i \in DOMAIN stack' /\ Connecting(i)'
      BY <3>3, <1>a DEF Connecting
    <3>5. (\A i \in DOMAIN stack' : ~Connecting(i)') => \A i \in DOMAIN stack : ~Connecting(i)
      BY <3>4
    <3> QED
      BY <3>5, <3>2 DEF Tested
  <2> QED
    BY <1>10, <2>1, <2>2 DEF Attach
<1>11. ASSUME NEW b \in Browser, Dispose(b) PROVE Tested'
  BY <1>11, TestedKept DEF Dispose
<1>12. ASSUME NEW b \in Browser, NEW q \in Question, SetProperties(b, q) PROVE Tested'
  BY <1>12, TestedKept DEF SetProperties
<1>13. CASE UNCHANGED vars
  BY <1>13, TestedKept DEF vars
<1> QED
  BY <1>1, <1>2, <1>5, <1>6, <1>7, <1>8, <1>9, <1>10, <1>11, <1>12, <1>13
     DEF Next, ClientNext, Steps

\* The references, where they are taken and where they are returned.
LEMMA CountedStep ==
  ASSUME TypeOK, Counted, [Next]_vars
  PROVE  Counted'
<1> USE DEF clientVars, browserVars
<1>a. /\ refs \in Int /\ Cardinality(Holders) \in Nat
      /\ client \in [Browser -> BOOLEAN] /\ held \in BOOLEAN
  BY FS_CardinalityType DEF Counted, TypeOK, ClientTypeOK
<1>1. ASSUME NEW b \in Browser, TakeClient(b) PROVE Counted'
  <2>1. /\ Holders' = Holders \cup {b} /\ refs' = refs + 1 /\ held' = held
    BY <1>1, <1>a DEF TakeClient, Holders
  <2>2. /\ IsFiniteSet(Holders \cup {b})
        /\ \/ Cardinality(Holders \cup {b}) = Cardinality(Holders)
           \/ Cardinality(Holders \cup {b}) = Cardinality(Holders) + 1
    BY FS_AddElement DEF Counted
  <2> QED
    BY <2>1, <2>2, <1>a DEF Counted
<1>2. ASSUME NEW b \in Browser, Dispose(b) PROVE Counted'
  <2>1. /\ Holders' = Holders \ {b} /\ held' = held
        /\ refs' = IF client[b] THEN refs - 1 ELSE refs
    BY <1>2, <1>a DEF Dispose, Holders
  <2>2. CASE client[b]
    <3>1. b \in Holders
      BY <2>2 DEF Holders
    <3>2. IsFiniteSet(Holders \ {b}) /\ Cardinality(Holders \ {b}) = Cardinality(Holders) - 1
      BY <3>1, FS_RemoveElement DEF Counted
    <3> QED
      BY <2>1, <2>2, <3>2, <1>a DEF Counted
  <2>3. CASE ~client[b]
    <3>1. Holders \ {b} = Holders
      BY <2>3 DEF Holders
    <3> QED
      BY <2>1, <2>3, <3>1 DEF Counted
  <2> QED
    BY <2>2, <2>3
<1>3. CASE DropClient /\ UNCHANGED browserVars
  <2>1. /\ held /\ ~held' /\ refs' = refs - 1 /\ Holders' = Holders
    BY <1>3 DEF DropClient, Holders
  <2> QED
    BY <2>1, <1>a DEF Counted
<1>4. CASE (Start \/ StartReturns \/ Flap) /\ UNCHANGED browserVars
  BY <1>4, CountedKept DEF Start, StartReturns, Flap
<1>5. ASSUME NEW outcome, Probe(outcome), UNCHANGED browserVars
      PROVE  Counted'
  BY <1>5, CountedKept DEF Probe
<1>6. CASE Steps
  BY <1>6, CountedKept DEF Steps, EmitRecord, EmitAllForNow, AttachReturns
<1>7. ASSUME NEW b \in Browser, Attach(b) PROVE Counted'
  BY <1>1, <1>7 DEF Attach, AttachRefused, AttachFails, AttachAnswered
<1>8. ASSUME NEW b \in Browser, NEW q \in Question, SetProperties(b, q) PROVE Counted'
  BY <1>8, CountedKept DEF SetProperties
<1>9. CASE UNCHANGED vars
  BY <1>9, CountedKept DEF vars
<1> QED
  BY <1>2, <1>3, <1>4, <1>5, <1>6, <1>7, <1>8, <1>9 DEF Next, ClientNext

\* The innermost call, when it is an attach, and the depth of the others.
LEMMA Innermost ==
  ASSUME TypeOK, Framed, stack # <<>>
  PROVE  /\ Last(stack) \in Frames
         /\ Last(stack).call = "attach" => Last(stack) \in AttachFrame
         /\ Len(Front(stack)) = Len(stack) - 1
         /\ \A e \in Frames : Len(Append(Front(stack), e)) = Len(stack)
BY Popped, Moved, FrameFields DEF Framed

LEMMA TypesOfCalls ==
  ASSUME TypeOK, Framed, [Next]_vars
  PROVE  Len(stack') <= MaxDepth
<1> USE DEF clientVars, browserVars
<1>a. Len(stack) <= MaxDepth /\ Len(stack) \in Nat /\ MaxDepth \in Nat
  BY ClientBounds DEF TypeOK, ClientTypeOK, Framed
<1>1. ASSUME NEW f \in Frames, stack' = Append(stack, f), MayCall
      PROVE  Len(stack') <= MaxDepth
  <2>1. Len(stack') = Len(stack) + 1
    BY <1>1 DEF Framed
  <2> QED
    BY <2>1, <1>1, <1>a DEF MayCall
<1>2. ASSUME NEW f \in Frames, stack # <<>>, stack' = Append(Front(stack), f)
      PROVE  Len(stack') <= MaxDepth
  BY <1>2, <1>a, Innermost
<1>3. ASSUME stack # <<>>, stack' = Front(stack)
      PROVE  Len(stack') <= MaxDepth
  BY <1>3, <1>a, Innermost
<1>4. CASE Start /\ UNCHANGED browserVars
  <2>1. [call |-> "start", at |-> "connecting"] \in Frames
    BY DEF Frames, StartFrame
  <2> QED
    BY <2>1, <1>1, <1>4 DEF Start
<1>5. ASSUME NEW outcome, Probe(outcome) PROVE Len(stack') <= MaxDepth
  <2> DEFINE f == [Last(stack) EXCEPT !.at = "announced"]
  <2>1. stack # <<>> /\ Last(stack).call = "start" /\ stack' = Append(Front(stack), f)
    BY <1>5 DEF Probe, Inside, GoesTo
  <2>2. f \in Frames
    BY <2>1, Innermost, FrameFields DEF Frames, StartFrame
  <2> QED
    BY <2>1, <2>2, <1>2
<1>6. CASE EmitRecord
  <2> DEFINE f == Emitted(Last(stack))
  <2>1. /\ stack # <<>> /\ Last(stack).call = "attach" /\ Last(stack).left > 0
        /\ stack' = Append(Front(stack), f)
    BY <1>6 DEF EmitRecord, Reading, Inside
  <2>2. f \in Frames
    BY <2>1, Innermost, EmittedFrame DEF Frames
  <2> QED
    BY <2>1, <2>2, <1>2
<1>7. CASE EmitAllForNow
  <2> DEFINE f == [Last(stack) EXCEPT !.at = "all-for-now"]
  <2>1. /\ stack # <<>> /\ Last(stack).call = "attach" /\ stack' = Append(Front(stack), f)
    BY <1>7 DEF EmitAllForNow, Reading, Inside, GoesTo
  <2>2. f \in Frames
    BY <2>1, Innermost DEF Frames, AttachFrame
  <2> QED
    BY <2>1, <2>2, <1>2
<1>8. CASE StartReturns \/ AttachReturns
  BY <1>3, <1>8 DEF StartReturns, AttachReturns, Inside
<1>9. ASSUME NEW b \in Browser, NEW n \in 0..MaxRecords, AttachAnswered(b, n)
      PROVE  Len(stack') <= MaxDepth
  <2> DEFINE f == Answered(b, n)
  <2>1. f \in Frames
    BY <1>9, AttachedFrame DEF Frames
  <2> QED
    BY <2>1, <1>1, <1>9 DEF AttachAnswered, TakeClient
<1>10. CASE UNCHANGED stack
  BY <1>10, <1>a
<1> QED
  BY <1>4, <1>5, <1>6, <1>7, <1>8, <1>9, <1>10
     DEF Next, ClientNext, DropClient, Flap, Steps, Attach, AttachRefused, AttachFails,
         Dispose, SetProperties, vars

LEMMA TypesOfClient ==
  ASSUME TypeOK, [Next]_vars
  PROVE  /\ up' \in BOOLEAN /\ held' \in BOOLEAN
         /\ state' \in ClientState /\ probe' \in ClientState
         /\ refs' \in Int /\ starts' \in 0..MaxStarts
<1> USE DEF clientVars, browserVars, TypeOK, ClientTypeOK
<1>1. CASE Start /\ UNCHANGED browserVars
  <2>1. starts' \in 0..MaxStarts
    BY <1>1, ClientBounds DEF Start
  <2>2. refs' = refs /\ state' \in ClientState /\ probe' = probe
    BY <1>1 DEF Start, ClientState
  <2>3. up' \in BOOLEAN /\ held' \in BOOLEAN
    <3>1. up' = up /\ held' = held
      BY <1>1 DEF Start
    <3> QED
      BY <3>1, Zenon
  <2>4. refs' \in Int /\ probe' \in ClientState
    BY <2>2
  <2> QED
    BY <2>1, <2>2, <2>3, <2>4, Zenon
<1>2. CASE (Probe("S_RUNNING") \/ Probe("FAILURE")) /\ UNCHANGED browserVars
  BY <1>2 DEF Probe, ClientState
<1>3. CASE (StartReturns \/ DropClient \/ Flap) /\ UNCHANGED browserVars
  <2>1. up' \in BOOLEAN
    <3>1. up' = up \/ up' = ~up
      BY <1>3 DEF StartReturns, DropClient, Flap
    <3> QED
      BY <3>1, Zenon
  <2>2. held' \in BOOLEAN
    <3>1. held' = held \/ held' = FALSE
      BY <1>3 DEF StartReturns, DropClient, Flap
    <3> QED
      BY <3>1, Zenon
  <2>3. /\ state' \in ClientState /\ probe' \in ClientState
        /\ refs' \in Int /\ starts' \in 0..MaxStarts
    BY <1>3 DEF StartReturns, DropClient, Flap
  <2> QED
    BY <2>1, <2>2, <2>3, Zenon
<1>4. CASE Steps
  BY <1>4 DEF Steps, EmitRecord, EmitAllForNow, AttachReturns
<1>5. ASSUME NEW b \in Browser, TakeClient(b)
      PROVE  /\ up' \in BOOLEAN /\ held' \in BOOLEAN
             /\ state' \in ClientState /\ probe' \in ClientState
             /\ refs' \in Int /\ starts' \in 0..MaxStarts
  BY <1>5 DEF TakeClient
<1>6. ASSUME NEW b \in Browser, Attach(b)
      PROVE  TakeClient(b)
  BY <1>6 DEF Attach, AttachRefused, AttachFails, AttachAnswered
<1>7. ASSUME NEW b \in Browser, Dispose(b)
      PROVE  /\ up' \in BOOLEAN /\ held' \in BOOLEAN
             /\ state' \in ClientState /\ probe' \in ClientState
             /\ refs' \in Int /\ starts' \in 0..MaxStarts
  BY <1>7 DEF Dispose
<1>8. ASSUME NEW b \in Browser, NEW q \in Question, SetProperties(b, q)
      PROVE  UNCHANGED <<up, clientVars>>
  BY <1>8 DEF SetProperties
<1>9. CASE UNCHANGED vars
  BY <1>9 DEF vars
<1> QED
  BY <1>1, <1>2, <1>3, <1>4, <1>5, <1>6, <1>7, <1>8, <1>9 DEF Next, ClientNext

LEMMA TypesOfBrowser ==
  ASSUME TypeOK, Links, [Next]_vars
  PROVE  /\ link' \in [Browser -> 1..MaxLinks \cup {NoLink}]
         /\ client' \in [Browser -> BOOLEAN] /\ gone' \in [Browser -> BOOLEAN]
         /\ props' \in [Browser -> Question] /\ renamed' \subseteq Browser
         /\ made' \in 0..MaxLinks /\ open' \subseteq 1..made' /\ replaced' \subseteq 1..made'
<1> DEFINE Typed ==
      /\ link \in [Browser -> 1..MaxLinks \cup {NoLink}]
      /\ client \in [Browser -> BOOLEAN] /\ gone \in [Browser -> BOOLEAN]
      /\ props \in [Browser -> Question] /\ renamed \subseteq Browser
      /\ made \in 0..MaxLinks /\ open \subseteq 1..made /\ replaced \subseteq 1..made
<1>a. Typed
  BY DEF TypeOK
<1> USE DEF browserVars
<1>1. CASE UNCHANGED browserVars
  BY <1>a, <1>1
<1>2. CASE EmitRecord
  BY <1>a, <1>2 DEF EmitRecord
<1>3. CASE AttachReturns
  BY <1>a, <1>3 DEF AttachReturns, Disconnect
<1>4. ASSUME NEW b \in Browser, AttachRefused(b) PROVE Typed'
  BY <1>a, <1>4 DEF AttachRefused, TakeClient
<1>5. ASSUME NEW b \in Browser, TakeClient(b), Connect(b),
             link' = [link EXCEPT ![b] = NoLink] \/ link' = [link EXCEPT ![b] = made + 1],
             open' = open \/ open' = open \cup {made + 1}, renamed' = renamed
      PROVE  Typed'
  <2>1. made + 1 \in 1..MaxLinks /\ made' = made + 1 /\ made \in Nat
    BY <1>a, <1>5, RecordBounds DEF Connect
  <2>2. link' \in [Browser -> 1..MaxLinks \cup {NoLink}]
    BY <1>a, <1>5, <2>1
  <2>3. open' \subseteq 1..made'
    <3>1. 1..made \subseteq 1..made' /\ made + 1 \in 1..made'
      BY <2>1
    <3> QED
      BY <1>a, <1>5, <3>1
  <2>4. link[b] # NoLink => link[b] \in 1..made
    <3> SUFFICES ASSUME link[b] # NoLink PROVE link[b] \in 1..made
      OBVIOUS
    <3>1. PICK i \in AttachesOf(b) : stack[i].link = link[b]
      BY DEF Links, LinkOfInnermost
    <3>2. stack[i].link <= made /\ stack[i].link \in 1..MaxLinks
      BY <3>1, FrameFields DEF Links, Framed, Older, IsAttach, AttachesOf, AttachFrame
    <3> QED
      BY <3>1, <3>2, <1>a
  <2>5. replaced' \subseteq 1..made'
    <3>1. replaced' \subseteq 1..made
      BY <1>a, <1>5, <2>4 DEF Connect
    <3> QED
      BY <3>1, <2>1
  <2>6. /\ client' \in [Browser -> BOOLEAN] /\ UNCHANGED <<gone, props, renamed>>
        /\ made' \in 0..MaxLinks
    BY <1>a, <1>5, <2>1 DEF TakeClient
  <2> QED
    BY <1>a, <1>5, <2>2, <2>3, <2>5, <2>6
<1>6. ASSUME NEW b \in Browser, Attach(b) PROVE Typed'
  <2>1. ASSUME NEW n \in 0..MaxRecords, AttachAnswered(b, n) PROVE Typed'
    BY <2>1, <1>5 DEF AttachAnswered
  <2>2. CASE AttachFails(b)
    BY <2>2, <1>5 DEF AttachFails
  <2> QED
    BY <1>4, <1>6, <2>1, <2>2 DEF Attach
<1>7. ASSUME NEW b \in Browser, Dispose(b) PROVE Typed'
  <2>1. client' \in [Browser -> BOOLEAN] /\ gone' \in [Browser -> BOOLEAN]
    BY <1>a, <1>7 DEF Dispose
  <2>2. link' \in [Browser -> 1..MaxLinks \cup {NoLink}] /\ open' \subseteq open
    BY <1>a, <1>7 DEF Dispose, Disconnect
  <2> QED
    BY <1>a, <1>7, <2>1, <2>2 DEF Dispose
<1>8. ASSUME NEW b \in Browser, NEW q \in Question, SetProperties(b, q) PROVE Typed'
  BY <1>a, <1>8 DEF SetProperties
<1> QED
  BY <1>1, <1>2, <1>3, <1>6, <1>7, <1>8 DEF Next, Steps, EmitAllForNow, vars

\* What records are said to be, when properties are set and attaches return.
LEMMA LabelledStep ==
  ASSUME TypeOK, Links, Labelled, [Next]_vars
  PROVE  Labelled'
<1> USE DEF clientVars, browserVars
<1> DEFINE n == Len(stack)
<1>a. DOMAIN stack = 1..n /\ n \in Nat
  BY DEF Links, Framed
<1>1. ASSUME UNCHANGED <<props, renamed>>, NEW f, Fits(f) PROVE Fits(f)'
  BY <1>1 DEF Fits
<1>2. ASSUME UNCHANGED <<stack, props, renamed>> PROVE Labelled'
  BY <1>2 DEF Labelled, Fits
<1>3. ASSUME NEW f \in Frames, stack' = Append(stack, f), Fits(f),
             UNCHANGED <<props, renamed>>
      PROVE  Labelled'
  <2>1. /\ DOMAIN stack' = 1..(n + 1) /\ stack'[n + 1] = f
        /\ \A i \in DOMAIN stack : stack'[i] = stack[i]
    BY <1>3, Pushed DEF Links, Framed
  <2>2. \A i \in DOMAIN stack' : Fits(stack'[i])
    BY <2>1, <1>3, <1>a DEF Labelled
  <2> QED
    BY <2>2, <1>3, <1>1 DEF Labelled
<1>4. ASSUME NEW f \in Frames, stack # <<>>, stack' = Append(Front(stack), f), Fits(f),
             UNCHANGED <<props, renamed>>
      PROVE  Labelled'
  <2>1. /\ DOMAIN stack' = DOMAIN stack /\ stack'[n] = f
        /\ \A i \in 1..(n - 1) : stack'[i] = stack[i]
    BY <1>4, Moved DEF Links, Framed
  <2>a. \A i \in DOMAIN stack : i \in 1..(n - 1) \/ i = n
    BY <1>a
  <2>2. \A i \in DOMAIN stack' : Fits(stack'[i])
    BY <2>1, <2>a, <1>4 DEF Labelled
  <2> QED
    BY <2>2, <1>4, <1>1 DEF Labelled
<1>5. CASE Start /\ UNCHANGED browserVars
  <2> DEFINE f == [call |-> "start", at |-> "connecting"]
  <2>1. f \in Frames /\ Fits(f)
    BY DEF Frames, StartFrame, Fits
  <2> QED
    BY <2>1, <1>3, <1>5 DEF Start
<1>6. ASSUME NEW outcome, Probe(outcome), UNCHANGED browserVars PROVE Labelled'
  <2> DEFINE f == [Last(stack) EXCEPT !.at = "announced"]
  <2>1. stack # <<>> /\ Last(stack).call = "start" /\ stack' = Append(Front(stack), f)
    BY <1>6 DEF Probe, Inside, GoesTo
  <2>2. f \in Frames /\ f.call = "start"
    BY <2>1, Innermost, FrameFields DEF Links, Frames, StartFrame
  <2>3. Fits(f)
    BY <2>2 DEF Fits
  <2> HIDE DEF f
  <2> QED
    BY <2>1, <2>2, <2>3, <1>4, <1>6
<1>7. CASE StartReturns /\ UNCHANGED browserVars
  <2>1. stack # <<>> /\ stack' = Front(stack) /\ UNCHANGED <<props, renamed>>
    BY <1>7 DEF StartReturns, Inside
  <2>2. /\ DOMAIN stack' = 1..(n - 1) /\ \A i \in 1..(n - 1) : stack'[i] = stack[i]
    BY <2>1, Popped DEF Links, Framed
  <2>3. \A i \in DOMAIN stack' : Fits(stack'[i])
    BY <2>2, <1>a DEF Labelled
  <2> QED
    BY <2>1, <2>3, <1>1 DEF Labelled
<1>8. CASE EmitRecord
  <2> DEFINE f == Last(stack)
  <2>1. /\ stack # <<>> /\ f.call = "attach" /\ f.left > 0
        /\ stack' = Append(Front(stack), Emitted(f)) /\ UNCHANGED <<props, renamed>>
    BY <1>8 DEF EmitRecord, Reading, Inside
  <2>2. f \in AttachFrame /\ Fits(f)
    <3>1. n \in DOMAIN stack /\ f = stack[n]
      BY <2>1, Popped, <1>a DEF Links, Framed
    <3>2. Fits(f)
      BY <3>1 DEF Labelled
    <3> QED
      BY <3>2, <2>1, Innermost DEF Links
  <2> HIDE DEF f
  <2>3. /\ Emitted(f) \in AttachFrame
        /\ Emitted(f).browser = f.browser
        /\ Emitted(f).ifindex = f.ifindex /\ Emitted(f).asked = f.asked
        /\ Emitted(f).said.interface = f.ifindex
        /\ Emitted(f).said.name = props[f.browser].name
    <3>1. /\ Emitted(f) \in AttachFrame
          /\ Emitted(f).browser = f.browser
          /\ Emitted(f).ifindex = f.ifindex /\ Emitted(f).asked = f.asked
          /\ Emitted(f).said = [interface |-> f.ifindex, name |-> props[f.browser].name]
      BY <2>1, <2>2, EmittedFrame
    <3> QED
      BY <3>1
  <2>4. Fits(Emitted(f))
    BY <2>1, <2>2, <2>3 DEF Fits
  <2>5. Emitted(f) \in Frames
    BY <2>3 DEF Frames
  <2> QED
    BY <2>1, <2>4, <2>5, <1>4
<1>9. CASE EmitAllForNow
  <2> DEFINE f == [Last(stack) EXCEPT !.at = "all-for-now"]
  <2>1. /\ stack # <<>> /\ Last(stack).call = "attach"
        /\ stack' = Append(Front(stack), f) /\ UNCHANGED <<props, renamed>>
    BY <1>9 DEF EmitAllForNow, Reading, Inside, GoesTo
  <2>2. Last(stack) \in AttachFrame /\ Fits(Last(stack))
    <3>1. n \in DOMAIN stack /\ Last(stack) = stack[n]
      BY <2>1, Popped DEF Links, Framed
    <3>2. Fits(Last(stack))
      BY <3>1 DEF Labelled
    <3> QED
      BY <3>2, <2>1, Innermost DEF Links
  <2>3. /\ f \in AttachFrame /\ f.call = "attach"
        /\ f.browser = Last(stack).browser /\ f.ifindex = Last(stack).ifindex
        /\ f.asked = Last(stack).asked /\ f.said = Last(stack).said
    BY <2>2 DEF AttachFrame
  <2> HIDE DEF f
  <2>4. Fits(f)
    BY <2>1, <2>2, <2>3 DEF Fits
  <2>5. f \in Frames
    BY <2>3 DEF Frames
  <2> QED
    BY <2>1, <2>4, <2>5, <1>4
<1>10. CASE AttachReturns
  <2> DEFINE b == Last(stack).browser
  <2>1. /\ stack # <<>> /\ stack' = Front(stack) /\ props' = props
        /\ renamed' = IF AttachesOf(b) = {n} THEN renamed \ {b} ELSE renamed
    BY <1>10 DEF AttachReturns, Inside
  <2>2. DOMAIN stack' = 1..(n - 1) /\ \A i \in 1..(n - 1) : stack'[i] = stack[i]
    BY <2>1, Popped DEF Links, Framed
  <2> HIDE DEF b
  <2>3. SUFFICES ASSUME NEW i \in DOMAIN stack' PROVE Fits(stack[i])'
    BY <2>2 DEF Labelled, Fits
  <2>4. i \in DOMAIN stack /\ i # n
    BY <2>2, <1>a
  <2>5. Fits(stack[i])
    BY <2>4 DEF Labelled
  <2>6. stack[i].call = "attach" /\ stack[i].browser \in renamed
        => stack[i].browser \in renamed'
    <3>1. CASE AttachesOf(b) = {n}
      <4>1. stack[i].call = "attach" => stack[i].browser # b
        BY <2>3, <2>4, <3>1 DEF AttachesOf
      <4> QED
        BY <4>1, <2>1
    <3>2. CASE AttachesOf(b) # {n}
      BY <3>2, <2>1
    <3> QED
      BY <3>1, <3>2
  <2>7. stack'[i] = stack[i]
    BY <2>2, <2>3
  <2> QED
    BY <2>1, <2>5, <2>6, <2>7 DEF Fits
<1>11. ASSUME NEW b \in Browser, Attach(b) PROVE Labelled'
  <2>1. ASSUME NEW k \in 0..MaxRecords, AttachAnswered(b, k) PROVE Labelled'
    <3>1. Answered(b, k) \in Frames
      BY <2>1, AttachedFrame DEF Frames
    <3>2. Fits(Answered(b, k))
      BY DEF Fits, Answered
    <3> QED
      BY <2>1, <3>1, <3>2, <1>3 DEF AttachAnswered, TakeClient
  <2>2. CASE AttachRefused(b) \/ AttachFails(b)
    BY <2>2, <1>2 DEF AttachRefused, AttachFails, TakeClient
  <2> QED
    BY <1>11, <2>1, <2>2 DEF Attach
<1>12. ASSUME NEW b \in Browser, NEW q \in Question, SetProperties(b, q) PROVE Labelled'
  <2>1. /\ props' = [props EXCEPT ![b] = q] /\ stack' = stack
        /\ renamed' = IF q.name # props[b].name /\ AttachesOf(b) # {}
                      THEN renamed \cup {b} ELSE renamed
        /\ props \in [Browser -> Question]
    BY <1>12 DEF SetProperties, TypeOK
  <2>a. SUFFICES ASSUME NEW i \in DOMAIN stack PROVE Fits(stack[i])'
    BY <2>1 DEF Labelled, Fits
  <2>2. Fits(stack[i]) /\ renamed \subseteq renamed'
    BY <2>1 DEF Labelled
  <2>b. SUFFICES ASSUME stack[i].call = "attach" PROVE Fits(stack[i])'
    BY <2>1 DEF Fits
  <2>3. stack[i].browser \in Browser
    BY <2>a, <2>b, FrameFields DEF Links, Framed, AttachFrame
  <2>4. CASE stack[i].browser # b
    <3>1. props'[stack[i].browser] = props[stack[i].browser]
      BY <2>1, <2>3, <2>4
    <3> QED
      BY <2>1, <2>2, <3>1 DEF Fits
  <2>5. CASE stack[i].browser = b /\ q.name = props[b].name
    <3>1. props'[stack[i].browser].name = props[stack[i].browser].name
      BY <2>1, <2>5
    <3> QED
      BY <2>1, <2>2, <3>1 DEF Fits
  <2>6. CASE stack[i].browser = b /\ q.name # props[b].name
    <3>1. b \in renamed'
      BY <2>1, <2>6, <2>a, <2>b DEF AttachesOf
    <3> QED
      BY <2>1, <2>2, <2>6, <3>1 DEF Fits
  <2> QED
    BY <2>4, <2>5, <2>6
<1>13. CASE (DropClient \/ Flap) /\ UNCHANGED browserVars
  BY <1>13, <1>2 DEF DropClient, Flap
<1>14. ASSUME NEW b \in Browser, Dispose(b) PROVE Labelled'
  BY <1>14, <1>2 DEF Dispose
<1>15. CASE UNCHANGED vars
  BY <1>15, <1>2 DEF vars
<1> QED
  BY <1>5, <1>6, <1>7, <1>8, <1>9, <1>10, <1>11, <1>12, <1>13, <1>14, <1>15
     DEF Next, ClientNext, Steps

LEMMA RecordsStep == IInv /\ [Next]_vars => IInv'
<1> SUFFICES ASSUME IInv, [Next]_vars PROVE IInv'
  OBVIOUS
<1> USE DEF IInv
<1>1. Links' /\ Tested' /\ Counted' /\ Labelled'
  BY LinksStep, TestedStep, CountedStep, LabelledStep DEF Links
<1>2. TypeOK'
  <2>1. \A i \in DOMAIN stack' : stack'[i] \in AttachFrame \cup StartFrame
    BY <1>1 DEF Links, Framed, Frames
  <2>2. refs' \in Nat
    BY <1>1, TypesOfClient, FS_CardinalityType DEF Counted
  <2> QED
    BY <2>1, <2>2, TypesOfClient, TypesOfBrowser, TypesOfCalls
       DEF TypeOK, ClientTypeOK, Links
<1> QED
  BY <1>1, <1>2

LEMMA RecordsInvariant == Spec => []IInv
<1> QED
  BY RecordsStart, RecordsStep, PTL DEF Spec

-----------------------------------------------------------------------------

\* Every variable of the browsers and of the client keeps its type, and no call
\* is nested deeper than the bound.
THEOREM RecordsTyped == Spec => []TypeOK
<1> QED
  BY RecordsInvariant, PTL DEF IInv

\* Once the starts have returned, the client's state is the outcome of the last
\* test (ga_client_start_in_context, ga-client.c).
THEOREM ClientSettles == Spec => []StateSettled
<1>1. IInv => StateSettled
  BY DEF IInv, Tested, Connecting, StateSettled, Under
<1> QED
  BY <1>1, RecordsInvariant, PTL

\* The reply an attach is reading is not freed by the attaches its handlers make
\* (ga_record_browser_attach, disconnect_from_resolved).
THEOREM ReplyStaysAlive == Spec => []ReplyAlive
<1> QED
  BY RecordsInvariant, PTL DEF IInv, Links

\* Without an attach under way a browser has no connection; those that are open
\* are the ones a nested attach has overwritten.
THEOREM NothingStaysOpen == Spec => []NothingLeftOpen
<1>1. IInv => NothingLeftOpen
  BY DEF IInv, Links, LinkOfInnermost, Tidy, NothingLeftOpen
<1> QED
  BY <1>1, RecordsInvariant, PTL

\* The client lives while the application or a browser refers to it, however
\* often the browsers were attached (ga_record_browser_dispose).
THEOREM ClientStaysHeld == Spec => []ClientHeld
<1>1. IInv => ClientHeld
  <2> SUFFICES ASSUME IInv, held \/ \E b \in Browser : client[b] PROVE refs > 0
    BY DEF ClientHeld
  <2>1. Cardinality(Holders) \in Nat /\ refs \in Nat /\ held \in BOOLEAN
    BY FS_CardinalityType DEF IInv, Counted, TypeOK, ClientTypeOK
  <2>2. CASE held
    BY <2>1, <2>2 DEF IInv, Counted
  <2>3. ASSUME NEW b \in Browser, client[b] PROVE refs > 0
    <3>1. Holders # {}
      BY <2>3 DEF Holders
    <3>2. Cardinality(Holders) # 0
      BY <3>1, FS_EmptySet DEF IInv, Counted
    <3> QED
      BY <3>2, <2>1 DEF IInv, Counted
  <2> QED
    BY <2>2, <2>3
<1> QED
  BY <1>1, RecordsInvariant, PTL

\* A record is said to have the interface its query asked for, and the name too
\* unless it was set since, whatever the handlers of earlier records set and
\* attach (ga_record_browser_attach, ga-record-browser.c:408-415).
THEOREM RecordsAnswerTheQuery == Spec => []RecordOfQuery
<1>1. IInv => RecordOfQuery
  BY DEF IInv, Labelled, Fits, RecordOfQuery
<1> QED
  BY <1>1, RecordsInvariant, PTL

===============================================================================
