---------------------------- MODULE RecordBrowser -----------------------------
(***************************************************************************)
(* GaRecordBrowser (ga-record-browser.c) on top of GaClient: one query,     *)
(* made and answered inside ga_record_browser_attach.                       *)
(*                                                                         *)
(* The records of the reply are emitted while the reply is being read, and  *)
(* the reply belongs to the connection priv->link.  A handler of new-record *)
(* or all-for-now may attach the same browser again, which replaces         *)
(* priv->link, and disconnects it, under the attach that is reading.        *)
(*                                                                         *)
(* A handler may also set the properties.  The interface of a new-record is *)
(* a copy made for the query; name, class and type are read from the object *)
(* again for each record, and "name" stands for all three.  The protocol is *)
(* read again as well, but is no part of the query.                         *)
(***************************************************************************)
EXTENDS Client

CONSTANTS
  Browser,     \* the record browsers
  Interface,   \* values of the property "interface"
  Name,        \* values of the properties "name", "class" and "type"
  Question,    \* the combinations of both that the application sets
  MaxRecords,  \* bound: records of a reply
  MaxLinks,    \* bound: connections ever made
  MaxRefs,     \* bound: references to the client
  NoLink       \* NULL

ASSUME RecordBounds ==
  /\ MaxRecords \in Nat /\ MaxLinks \in Nat /\ MaxRefs \in Nat
  /\ NoLink \notin Nat
  /\ Question \subseteq [interface : Interface, name : Name]

VARIABLES
  link,        \* link[b]: priv->link
  client,      \* client[b]: is priv->client set?
  gone,        \* gone[b]: dispose_has_run
  props,       \* props[b]: priv->interface, and priv->name, clazz and type
  open,        \* the connections that are open
  made,        \* history: connections made so far
  replaced,    \* history: connections priv->link was overwritten over
  renamed      \* history: name was set since the oldest query under way

browserVars == <<link, client, gone, props, renamed, open, made, replaced>>
vars == <<up, stack, clientVars, browserVars>>

\* An attach whose query was answered; ifindex: the local copy of the property;
\* left: records of the reply not yet emitted; history: the query that was made,
\* and what the last new-record said of its record.
AttachFrame ==
  [call : {"attach"}, at : {"reading", "record", "all-for-now"},
   browser : Browser, link : 1..MaxLinks, ifindex : Interface, left : 0..MaxRecords,
   asked : Question, said : [interface : Interface, name : Name] \cup {NoLink}]

StartFrame == [call : {"start"}, at : {"connecting", "announced"}]

TypeOK ==
  /\ ClientTypeOK
  /\ \A i \in DOMAIN stack : stack[i] \in AttachFrame \cup StartFrame
  /\ link \in [Browser -> 1..MaxLinks \cup {NoLink}]
  /\ client \in [Browser -> BOOLEAN] /\ gone \in [Browser -> BOOLEAN]
  /\ props \in [Browser -> Question]
  /\ made \in 0..MaxLinks /\ open \subseteq 1..made /\ replaced \subseteq 1..made
  /\ renamed \subseteq Browser

\* ga_record_browser_new: the properties are what the application gives.
New == props \in [Browser -> Question] /\ renamed = {}

Init ==
  /\ ClientInit /\ New
  /\ link = [b \in Browser |-> NoLink]
  /\ client = [b \in Browser |-> FALSE] /\ gone = [b \in Browser |-> FALSE]
  /\ open = {} /\ made = 0 /\ replaced = {}

AttachesOf(b) == {i \in DOMAIN stack : stack[i].call = "attach" /\ stack[i].browser = b}

-----------------------------------------------------------------------------
(* ga_record_browser_attach                                                *)

\* disconnect_from_resolved
Disconnect(b) ==
  /\ open' = open \ {link[b]}
  /\ link' = [link EXCEPT ![b] = NoLink]

\* Mutant: no reference is taken.
TakeClientOnly(b) ==
  /\ MayCall /\ held /\ ~gone[b] /\ refs < MaxRefs
  /\ client' = [client EXCEPT ![b] = TRUE] /\ refs' = refs
  /\ UNCHANGED <<up, state, held, starts, probe, gone, props>>

\* The reference to the client is taken first, whatever comes after.
TakeClient(b) ==
  /\ MayCall /\ held /\ ~gone[b] /\ refs < MaxRefs
  /\ client' = [client EXCEPT ![b] = TRUE] /\ refs' = refs + 1
  /\ UNCHANGED <<up, state, held, starts, probe, gone, props>>

\* The connection is refused: priv->link stays what it was.
AttachRefused(b) ==
  /\ TakeClient(b)
  /\ UNCHANGED <<stack, link, open, made, replaced, renamed>>

\* sd_varlink_connect_address stores into priv->link whatever was there.
Connect(b) ==
  /\ up /\ made < MaxLinks
  /\ made' = made + 1
  /\ replaced' = replaced \cup ({link[b]} \ {NoLink})

\* Mutant: the error return forgets to disconnect.
AttachFailsConnected(b) ==
  /\ TakeClient(b) /\ Connect(b)
  /\ link' = [link EXCEPT ![b] = made + 1] /\ open' = open \cup {made + 1}
  /\ UNCHANGED <<stack, renamed>>

\* The parameters cannot be built, or the call fails: the new connection is
\* dropped, and the old one, if any, is not restored.
AttachFails(b) ==
  /\ TakeClient(b) /\ Connect(b)
  /\ link' = [link EXCEPT ![b] = NoLink]
  /\ UNCHANGED <<stack, open, renamed>>

\* The parameters are built from the properties, and the answer has n records.
Answered(b, n) ==
  [call |-> "attach", at |-> "reading", browser |-> b, link |-> made + 1,
   ifindex |-> props[b].interface, left |-> n, asked |-> props[b], said |-> NoLink]

\* Mutant: what is attached is disconnected first.
AttachAnsweredAfresh(b, n) ==
  /\ TakeClient(b) /\ up /\ made < MaxLinks /\ made' = made + 1
  /\ link' = [link EXCEPT ![b] = made + 1]
  /\ open' = (open \ {link[b]}) \cup {made + 1}
  /\ stack' = Append(stack, Answered(b, n))
  /\ UNCHANGED <<replaced, renamed>>

\* The query is answered.  Elements of "rrs" that are no objects or have no
\* array "rdata" are passed over: a reply is the number of the others.
AttachAnswered(b, n) ==
  /\ TakeClient(b) /\ Connect(b)
  /\ link' = [link EXCEPT ![b] = made + 1] /\ open' = open \cup {made + 1}
  /\ stack' = Append(stack, Answered(b, n))
  /\ UNCHANGED renamed

Reading == Inside("attach", "reading") \/ Inside("attach", "record")

\* Mutant: the interface is read from the object again, like the rest.
EmittedAsSet(f) ==
  [f EXCEPT !.at = "record", !.left = @ - 1,
            !.said = [interface |-> props[f.browser].interface,
                      name |-> props[f.browser].name]]

\* Mutant: the index is not advanced.
EmittedAgain(f) ==
  [f EXCEPT !.at = "record",
            !.said = [interface |-> f.ifindex, name |-> props[f.browser].name]]

\* The interface is the copy, and the name is what the object has now.
Emitted(f) ==
  [f EXCEPT !.at = "record", !.left = @ - 1,
            !.said = [interface |-> f.ifindex, name |-> props[f.browser].name]]

\* new-record for the next element, once the handlers of the last have returned.
EmitRecord ==
  /\ Reading /\ Last(stack).left > 0
  /\ stack' = Append(Front(stack), Emitted(Last(stack)))
  /\ UNCHANGED <<up, clientVars, browserVars>>

EmitAllForNow ==
  /\ Reading /\ Last(stack).left = 0
  /\ GoesTo("all-for-now")
  /\ UNCHANGED <<up, clientVars, browserVars>>

\* The link that is disconnected is the one the browser has now, if any.
AttachReturns ==
  /\ Inside("attach", "all-for-now")
  /\ LET b == Last(stack).browser IN
       /\ Disconnect(b)
       /\ renamed' = IF AttachesOf(b) = {Len(stack)} THEN renamed \ {b} ELSE renamed
  /\ stack' = Front(stack)
  /\ UNCHANGED <<up, clientVars, client, gone, props, made, replaced>>

-----------------------------------------------------------------------------

\* g_object_set, of several properties perhaps.
SetProperties(b, q) ==
  /\ AppRuns /\ ~gone[b] /\ props[b] # q
  /\ props' = [props EXCEPT ![b] = q]
  /\ renamed' = IF q.name # props[b].name /\ AttachesOf(b) # {}
                THEN renamed \cup {b} ELSE renamed
  /\ UNCHANGED <<up, stack, clientVars, link, client, gone, open, made, replaced>>

\* Mutant: the reference is returned whether one was taken or not.
DisposeAlwaysReleases(b) ==
  /\ AppRuns /\ ~gone[b] /\ AttachesOf(b) = {}
  /\ gone' = [gone EXCEPT ![b] = TRUE]
  /\ Disconnect(b)
  /\ client' = [client EXCEPT ![b] = FALSE]
  /\ refs' = refs - 1
  /\ UNCHANGED <<up, stack, state, held, starts, probe, props, renamed, made, replaced>>

\* The application drops the browser, outside of the browser's own calls.
Dispose(b) ==
  /\ AppRuns /\ ~gone[b] /\ AttachesOf(b) = {}
  /\ gone' = [gone EXCEPT ![b] = TRUE]
  /\ Disconnect(b)
  /\ client' = [client EXCEPT ![b] = FALSE]
  /\ refs' = IF client[b] THEN refs - 1 ELSE refs
  /\ UNCHANGED <<up, stack, state, held, starts, probe, props, renamed, made, replaced>>

Attach(b) ==
  AttachRefused(b) \/ AttachFails(b) \/ \E n \in 0..MaxRecords : AttachAnswered(b, n)

Steps == EmitRecord \/ EmitAllForNow \/ AttachReturns

Next ==
  \/ ClientNext /\ UNCHANGED browserVars
  \/ Steps
  \/ \E b \in Browser : \/ Attach(b) \/ Dispose(b)
                        \/ \E q \in Question : SetProperties(b, q)

Spec == Init /\ [][Next]_vars

\* Handlers return, if they keep getting the chance.
ProbeStep == (Probe("S_RUNNING") \/ Probe("FAILURE")) /\ UNCHANGED browserVars
Fairness == SF_vars(Steps) /\ SF_vars(ProbeStep)
            /\ SF_vars(StartReturns /\ UNCHANGED browserVars)

FairSpec == Spec /\ Fairness

-----------------------------------------------------------------------------
(* Properties                                                              *)

(* The reply an attach has still to read from is never freed under it: the   *)
(* connection that owns it is open, whatever attaches of the same browser    *)
(* its handlers made, failed or answered.  It is so because a nested attach  *)
(* overwrites priv->link without releasing it.                               *)
ReplyAlive ==
  \A i \in DOMAIN stack :
    stack[i].call = "attach" /\ stack[i].at # "all-for-now" => stack[i].link \in open

(* With no attach under way a browser has no connection, and the only ones   *)
(* open are those a nested attach has overwritten: every return path of      *)
(* ga_record_browser_attach disconnects.                                     *)
NothingLeftOpen ==
  /\ \A b \in Browser : AttachesOf(b) = {} => link[b] = NoLink
  /\ open \subseteq replaced \cup {link[b] : b \in Browser}

(* A browser that refers to its client keeps it alive, also when the         *)
(* application has dropped the client and other browsers have released it.   *)
ClientHeld == (held \/ \E b \in Browser : client[b]) => refs > 0

(* A new-record says of a record what was asked for, also when the handlers  *)
(* of the records before set the properties or attach the browser anew for   *)
(* another question: the interface is always that of the query the record    *)
(* answers, and the name differs only if it was set since the oldest query   *)
(* of the browser that is still being answered.                              *)
RecordOfQuery ==
  \A i \in DOMAIN stack :
    LET f == stack[i] IN
    f.call = "attach" /\ f.said # NoLink =>
      /\ f.said.interface = f.asked.interface
      /\ f.said.name # f.asked.name => f.browser \in renamed

(* A browser does not stay connected: every attach gets through its reply,   *)
(* however many others its handlers make, and disconnects.                   *)
Disconnected == \A b \in Browser : link[b] # NoLink ~> link[b] = NoLink
===============================================================================
