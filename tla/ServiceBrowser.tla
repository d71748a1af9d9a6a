---------------------------- MODULE ServiceBrowser ----------------------------
(***************************************************************************)
(* GaServiceBrowser (ga-service-browser.c): a varlink subscription to       *)
(* systemd-resolved's BrowseServices, watched by the GLib main loop, that   *)
(* becomes new-service and removed-service signals.                         *)
(*                                                                         *)
(* Everything runs on the main thread.  What makes it hard is that          *)
(* ga_service_browser_attach waits, processing messages, inside the call,   *)
(* and that the callback of a message may drop the link and attach again    *)
(* in the middle of either loop that is processing it: the wait loop of an  *)
(* attach, or the loop of varlink_io_cb.  The calls under way are a stack.  *)
(* The service systemd-resolved runs on (and its varlink queue) are         *)
(* external: it accepts or refuses, sends what changed, ends the            *)
(* subscription with an error, dies and restarts.                           *)
(***************************************************************************)
EXTENDS Naturals, SequencesExt

CONSTANTS
  Service,     \* the services of the browsed type that may be on the network
  Slices,      \* how many 100 ms waits fit into the deadline of one second
  MaxAttach,   \* bound: calls of ga_service_browser_attach
  MaxQueue,    \* bound: messages of a link not yet processed
  MayRetry,    \* does the application attach again after a failure?
  None         \* no link

ASSUME BoundsType == /\ Slices \in Nat /\ MaxQueue \in Nat
                     /\ MaxAttach \in Nat \ {0}
                     /\ MayRetry \in BOOLEAN

VARIABLES
  up,          \* is systemd-resolved running?
  live,        \* the services it sees on the network
  link,        \* priv->link, with what is on its way (None: NULL)
  watch,       \* is the GSource of that link attached to the main context?
  snap,        \* priv->initial_snapshot_done
  stack,       \* the calls under way, innermost last
  attached,    \* the application's last attach returned TRUE
  disposed,    \* dispose_has_run
  refs,        \* history: references to the client taken, one per attach
  failed,      \* history: "failure" was emitted since the link was opened
  known,       \* history: services signalled new, and not removed since
  waited,      \* history: slices this call of the library has waited
  opened       \* history: links it has opened

env  == <<up, live>>
hist == <<failed, known, waited, opened>>
vars == <<env, link, watch, snap, stack, attached, disposed, refs, hist>>

Message ==
  [kind : {"data", "error"}, added : SUBSET Service, removed : SUBSET Service]

\* sent: what resolved has announced on the link, received or not.  A link is
\* closed when the other side is gone, ended when its subscription was answered
\* with an error, expired when libsystemd's reply timeout has passed.  The first
\* `read' messages of its queue are in libsystemd's buffer, the others are still
\* in the socket, where poll sees them.
Link == [sent : SUBSET Service, queue : Seq(Message), read : Nat,
         closed : BOOLEAN, ended : BOOLEAN, expired : BOOLEAN]

ASSUME NoneIsNew == None \notin Link

Fresh == [sent |-> {}, queue |-> <<>>, read |-> 0, closed |-> FALSE,
          ended |-> FALSE, expired |-> FALSE]

\* varlink_io_cb in its loop ("oldio": its own source was destroyed meanwhile),
\* the wait loop of an attach of the application, the wait loop of an attach of
\* browse_notify_cb; left: slices to the deadline.
Frame == [call : {"io", "oldio", "attach", "reattach"}, left : 0..Slices]

MainLoop  == stack = <<>>
Innermost == Last(stack).call
InIo      == stack # <<>> /\ Innermost \in {"io", "oldio"}
Waiting   == stack # <<>> /\ Innermost \in {"attach", "reattach"}
Wait1s(c) == [call |-> c, left |-> Slices]

TypeOK ==
  /\ up \in BOOLEAN
  /\ live \subseteq Service
  /\ link \in Link \cup {None}
  /\ watch \in BOOLEAN /\ snap \in BOOLEAN
  /\ stack \in Seq(Frame)
  /\ attached \in BOOLEAN /\ disposed \in BOOLEAN
  /\ refs \in 0..MaxAttach
  /\ failed \in BOOLEAN
  /\ known \subseteq Service
  /\ waited \in 0..(Slices * MaxAttach) /\ opened \in 0..MaxAttach

Init ==
  /\ up \in BOOLEAN /\ live \in SUBSET Service
  /\ link = None /\ watch = FALSE /\ snap = FALSE /\ stack = <<>>
  /\ attached = FALSE /\ disposed = FALSE /\ refs = 0
  /\ failed = FALSE /\ known = {} /\ waited = 0 /\ opened = 0

-----------------------------------------------------------------------------
(* systemd-resolved and the network                                        *)

Appear(s) == s \notin live /\ live' = live \cup {s}
             /\ UNCHANGED <<up, link, watch, snap, stack, attached, disposed, refs, hist>>

Vanish(s) == s \in live /\ live' = live \ {s}
             /\ UNCHANGED <<up, link, watch, snap, stack, attached, disposed, refs, hist>>

Serving == link # None /\ ~link.closed /\ ~link.ended

UpdateLink(l) ==
  /\ link' = l
  /\ UNCHANGED <<env, watch, snap, stack, attached, disposed, refs, hist>>

\* A notification carries what changed since the last one on this link.
Notify ==
  /\ Serving /\ Len(link.queue) < MaxQueue
  /\ live # link.sent
  /\ UpdateLink([link EXCEPT
       !.sent  = live,
       !.queue = Append(@, [kind |-> "data", added |-> live \ link.sent,
                            removed |-> link.sent \ live])])

\* The subscription is answered with an error other than the two below.
RefuseBrowse ==
  /\ Serving /\ Len(link.queue) < MaxQueue
  /\ UpdateLink([link EXCEPT
       !.ended = TRUE,
       !.queue = Append(@, [kind |-> "error", added |-> {}, removed |-> {}])])

Die ==
  /\ up /\ refs < MaxAttach
  /\ up' = FALSE
  /\ link' = IF link = None THEN None ELSE [link EXCEPT !.closed = TRUE]
  /\ UNCHANGED <<live, watch, snap, stack, attached, disposed, refs, hist>>

Restart ==
  /\ ~up /\ up' = TRUE
  /\ UNCHANGED <<live, link, watch, snap, stack, attached, disposed, refs, hist>>

\* libsystemd's reply timeout, much longer than an attach waits.
Expire ==
  /\ MainLoop /\ refs < MaxAttach
  /\ Serving /\ ~link.expired
  /\ UpdateLink([link EXCEPT !.expired = TRUE])

-----------------------------------------------------------------------------
(* ga_service_browser_attach, up to its wait loop                          *)

\* Mutant: the source is created and not attached.
OpenUnwatched ==
  /\ up
  /\ link' = Fresh /\ watch' = FALSE /\ failed' = FALSE
  /\ refs' = refs + 1

\* Connect, watch the descriptor, subscribe.
Open ==
  /\ up
  /\ link' = Fresh /\ watch' = TRUE /\ failed' = FALSE
  /\ refs' = refs + 1

\* The connection is refused, which leaves priv->link what it was, or a later
\* step fails and undoes the former ones; the reference to the client is kept.
OpenFails(old) ==
  /\ link' \in {old, None} /\ watch' = FALSE
  /\ refs' = refs + 1

\* The application attaches a browser that is not watching anything: the first
\* time, after an attach that failed, after a failure that removed the watch.
Attach ==
  /\ MainLoop /\ ~watch /\ ~disposed /\ refs < MaxAttach
  /\ MayRetry \/ ~attached
  /\ waited' = 0
  /\ \/ Open /\ opened' = 1 /\ stack' = <<Wait1s("attach")>> /\ UNCHANGED attached
     \/ OpenFails(link) /\ opened' = 0 /\ attached' = FALSE /\ UNCHANGED <<stack, failed>>
  /\ UNCHANGED <<env, snap, disposed, known>>

Dispose ==
  /\ MainLoop /\ ~disposed
  /\ disposed' = TRUE /\ attached' = FALSE
  /\ link' = None /\ watch' = FALSE
  /\ refs' = IF refs = 0 THEN 0 ELSE refs - 1
  /\ UNCHANGED <<env, snap, stack, hist>>

-----------------------------------------------------------------------------
(* browse_notify_cb                                                        *)

\* Mutant: the two update flags are swapped.
AfterSwapped(seen, m) == (seen \cup m.removed) \ m.added

\* What the application has seen after one more message.
After(seen, m) == (seen \cup m.added) \ m.removed

\* sd_varlink_process takes one step a call.  With nothing left in its buffer it
\* reads what the socket has ...
Read ==
  /\ link # None /\ link.queue # <<>> /\ link.read = 0
  /\ UpdateLink([link EXCEPT !.read = Len(link.queue)])

\* ... else it dispatches one message of the buffer.
Dispatch ==
  /\ link # None /\ link.queue # <<>> /\ link.read > 0
  /\ LET m == Head(link.queue) IN
       /\ known'  = After(known, m)
       /\ snap'   = (snap \/ m.added # {})
       /\ failed' = (failed \/ m.kind = "error")
  /\ link' = [link EXCEPT !.queue = Tail(@), !.read = @ - 1]
  /\ UNCHANGED <<env, watch, stack, attached, disposed, refs, waited, opened>>

\* io.systemd.Disconnected, once everything received was dispatched, or
\* io.systemd.TimedOut: libsystemd answers the pending call itself.
Lost ==
  /\ link # None /\ link.queue = <<>> /\ ~link.ended
  /\ link.closed \/ link.expired

\* Disconnecting destroys the source that varlink_io_cb may be called from.
Orphan == [i \in DOMAIN stack |->
             [stack[i] EXCEPT !.call = IF @ = "io" THEN "oldio" ELSE @]]

\* Mutant: the failure of the nested attach is only logged.
ReconnectSilently ==
  /\ Lost
  /\ \/ Open /\ opened' = opened + 1 /\ stack' = Append(Orphan, Wait1s("reattach"))
     \/ OpenFails(None) /\ stack' = Orphan /\ UNCHANGED <<failed, opened>>
  /\ UNCHANGED <<env, snap, attached, disposed, known, waited>>

\* The callback of that error: disconnect and attach again.
Reconnect ==
  /\ Lost
  /\ \/ Open /\ opened' = opened + 1 /\ stack' = Append(Orphan, Wait1s("reattach"))
     \/ OpenFails(None) /\ failed' = TRUE /\ stack' = Orphan /\ UNCHANGED opened
  /\ UNCHANGED <<env, snap, attached, disposed, known, waited>>

\* sd_varlink_process on a null link, or on one that is closed and answers nobody.
ProcessFails ==
  \/ link = None
  \/ link # None /\ link.queue = <<>> /\ link.ended /\ link.closed

-----------------------------------------------------------------------------
(* varlink_io_cb                                                           *)

\* The poll saw input, and no hang-up yet.  It sees the socket only: messages
\* that the wait loop of an attach has read and left do not wake the watch.
IoBegins ==
  /\ MainLoop /\ watch /\ link.read < Len(link.queue) /\ ~link.closed
  /\ stack' = <<[call |-> "io", left |-> 0]>>
  /\ waited' = 0 /\ opened' = 0
  /\ UNCHANGED <<env, link, watch, snap, attached, disposed, refs, failed, known>>

\* Mutant: the source is removed without a word.
HangUpSilently ==
  /\ MainLoop /\ watch /\ link.closed
  /\ watch' = FALSE
  /\ UNCHANGED <<env, link, snap, stack, attached, disposed, refs, hist>>

\* The poll saw a hang-up: nothing is processed, and nothing reconnects.
HangUp ==
  /\ MainLoop /\ watch /\ link.closed
  /\ failed' = TRUE /\ watch' = FALSE
  /\ UNCHANGED <<env, link, snap, stack, attached, disposed, refs, known, waited, opened>>

IoRead      == InIo /\ Read
IoDispatch  == InIo /\ Dispatch
IoReconnect == InIo /\ Reconnect

\* sd_varlink_process returns 0: nothing more to do.
IoIdle ==
  /\ InIo /\ link # None /\ link.queue = <<>> /\ ~Lost /\ ~ProcessFails
  /\ stack' = Front(stack)
  /\ UNCHANGED <<env, link, watch, snap, attached, disposed, refs, hist>>

\* It returns an error: the failure is signalled, again if the callback did,
\* and the source being dispatched is removed, which may be an old one.
IoFails ==
  /\ InIo /\ ProcessFails
  /\ failed' = TRUE
  /\ watch'  = (watch /\ Innermost = "oldio")
  /\ stack' = Front(stack)
  /\ UNCHANGED <<env, link, snap, attached, disposed, refs, known, waited, opened>>

-----------------------------------------------------------------------------
(* The wait loop of ga_service_browser_attach                              *)

\* Mutant: the deadline is compared off by one.
LoopsOnceMore == Waiting /\ ~snap /\ Last(stack).left >= 0

\* The loop is entered again: no service was announced, and there is time left.
Loops == Waiting /\ ~snap /\ Last(stack).left > 0

WaitRead      == Loops /\ Read
WaitDispatch  == Loops /\ Dispatch
WaitReconnect == Loops /\ Reconnect

\* Mutant: a deadline that has passed is counted on.
TickPastDeadline ==
  /\ Loops /\ ~ProcessFails
  /\ stack' = [i \in DOMAIN stack |-> [stack[i] EXCEPT !.left = @ - 1]]
  /\ waited' = waited + 1
  /\ UNCHANGED <<env, link, watch, snap, attached, disposed, refs, failed, known, opened>>

\* 100 ms pass, for every call that is waiting.
Tick ==
  /\ Loops /\ ~ProcessFails
  /\ stack' = [i \in DOMAIN stack |->
                 [stack[i] EXCEPT !.left = IF @ = 0 THEN 0 ELSE @ - 1]]
  /\ waited' = waited + 1
  /\ UNCHANGED <<env, link, watch, snap, attached, disposed, refs, failed, known, opened>>

\* The loop is left; "all-for-now" is emitted and the call returns TRUE.
WaitEnds ==
  /\ Waiting /\ (~Loops \/ ProcessFails)
  /\ attached'  = (attached \/ Innermost = "attach")
  /\ stack' = Front(stack)
  /\ UNCHANGED <<env, link, watch, snap, disposed, refs, failed, known, waited, opened>>

-----------------------------------------------------------------------------

Network == \E s \in Service : Appear(s) \/ Vanish(s)
Resolved == Notify \/ RefuseBrowse \/ Die \/ Restart \/ Expire
Io == IoBegins \/ HangUp \/ IoRead \/ IoDispatch \/ IoReconnect \/ IoIdle \/ IoFails
Wait == WaitRead \/ WaitDispatch \/ WaitReconnect \/ Tick \/ WaitEnds

Next == Network \/ Resolved \/ Attach \/ Dispose \/ Io \/ Wait

Spec == Init /\ [][Next]_vars

\* The main loop runs, time passes, and resolved announces what it sees.
Fairness == WF_vars(Io) /\ WF_vars(Wait) /\ WF_vars(Notify)

FairSpec == Spec /\ Fairness

-----------------------------------------------------------------------------
(* Properties                                                              *)

\* No message of the queue from the k-th on takes service s back.
Stays(s, k) == \A j \in DOMAIN link.queue : j >= k => s \notin link.queue[j].removed

\* What the application will have seen once the queue is processed.
Seen ==
  {s \in Service :
     \/ s \in known /\ Stays(s, 1)
     \/ \E k \in DOMAIN link.queue : s \in link.queue[k].added /\ Stays(s, k)}

\* What the wait loop of an attach has read and not dispatched (it stops at the
\* first service, or at the deadline) stays in libsystemd's buffer: nothing calls
\* the library again until resolved sends more, or hangs up.
Stranded ==
  MainLoop /\ watch /\ ~link.closed /\ link.queue # <<>> /\ link.read = Len(link.queue)

(* On a watched link the application has seen, once the queue is processed,   *)
(* whatever systemd-resolved announced, and before the first reconnect       *)
(* nothing that it has withdrawn, in any nesting of attaches, wait loops and  *)
(* io callbacks.  The queue of a link that is no longer watched (varlink_io_cb*)
(* removed its source) is never processed: what is lost with it, "failure"    *)
(* has been emitted for.                                                      *)
ViewOfLink ==
  link # None =>
    /\ watch => /\ link.sent \subseteq Seen
                /\ refs <= 1 => Seen \subseteq link.sent
    /\ ~watch /\ attached /\ ~(link.sent \subseteq known) => failed

(* A browser that was attached and whose subscription is over has said so:   *)
(* back in the main loop, either it watches a link with a subscription, or    *)
(* "failure" was emitted since the link was opened, or the error that ended   *)
(* the subscription was not dispatched yet (it is on its way, or Stranded).   *)
DeafIsReported ==
  MainLoop /\ attached /\ ~failed =>
    /\ link # None /\ watch
    /\ link.ended => link.queue # <<>>

(* A connection that systemd-resolved closed is noticed, in whichever loop   *)
(* the library is: it is replaced, given up, or reported.                    *)
LossNoticed ==
  attached /\ link # None /\ link.closed ~> failed \/ link = None \/ ~link.closed

(* A service that stays on the network is signalled as new while the         *)
(* subscription lasts, or what announces it is stranded in a buffer of an     *)
(* attach that stopped at an earlier service.                                 *)
Discovered ==
  \A s \in Service :
    s \in live /\ Serving ~> s \in known \/ s \notin live \/ ~Serving \/ Stranded

(* "Wait for initial snapshot (bounded, up to 1s)" (ga-service-browser.c:527)*)
(* holds per link, not per call: a reconnect from inside a wait waits up to a *)
(* second of its own, but time the outer loops have used is not waited again. *)
BoundedWait == stack # <<>> => waited <= Slices * opened

(* What the documentation says, and a reconnect does not do.                 *)

(* "The object has been removed from the network" (ga-enums.h:65): a service *)
(* that vanished is signalled removed, unless it comes back, the browser      *)
(* fails, or a message is stranded.  What vanishes around a reconnect is not   *)
(* on the new link.                                                          *)
VanishedIsRemoved ==
  \A s \in Service :
    s \in known \ live ~>
      s \notin known \/ s \in live \/ failed \/ disposed \/ Stranded
===============================================================================
