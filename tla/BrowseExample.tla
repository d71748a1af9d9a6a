----------------------------- MODULE BrowseExample -----------------------------
(***************************************************************************)
(* example-browse.c: a program that browses for services, looks each one up *)
(* in the handler of new-service, and ends on Ctrl+C or when browsing       *)
(* fails.                                                                  *)
(*                                                                         *)
(* It composes the browser (the steps of ServiceBrowser, whose signals call *)
(* the handlers of the program) with a resolver per announced service.  Of  *)
(* a resolver it keeps what matters here: its thread, and its references.   *)
(* There is one main thread; a GTask is completed by the main loop only,    *)
(* not by the loops in which the browser waits and processes.               *)
(***************************************************************************)
EXTENDS ServiceBrowser, FiniteSets, Integers

CONSTANTS
  MaxLookups,  \* bound: services that systemd-resolved announces
  MaxSignals,  \* bound: how often the user presses Ctrl+C
  MayHang      \* can the handler wait for a lock that the main thread holds?

ASSUME ExampleBoundsType == /\ MaxLookups \in Nat /\ MaxSignals \in Nat
                            /\ MayHang \in BOOLEAN

\* A notification is a finite list.
ASSUME ServicesFinite == IsFiniteSet(Service)

VARIABLES
  main,        \* what main does next
  loop,        \* what main_loop points to: "null", "live", "freed"
  running,     \* is_running of the main loop
  lookup,      \* the resolvers: "running", "returned", "done"
  clientRefs,  \* references to the client
  ended,       \* "no", or how the process ended
  signals,     \* how many signals there were
  told         \* history: the running main loop was told to stop

program == <<main, loop, running, lookup, clientRefs, ended, signals, told>>
all     == <<vars, program>>

Unfinished(l) == {i \in DOMAIN l : l[i] # "done"}

ExampleInit ==
  /\ Init
  /\ main = "client" /\ loop = "null" /\ running = FALSE
  /\ lookup = <<>> /\ clientRefs = 0
  /\ ended = "no" /\ signals = 0 /\ told = FALSE

-----------------------------------------------------------------------------
(* main                                                                    *)

Main(at, to) ==
  /\ ended = "no" /\ MainLoop
  /\ main = at /\ main' = to

\* A client that cannot start is not freed.
StartClient ==
  /\ Main("client", "attach")
  /\ clientRefs' = 1
  /\ ended' \in {"no", "returned"}
  /\ UNCHANGED <<vars, loop, running, lookup, signals, told>>

\* The browser is made and attached, which waits; when it fails, main gives up.
AttachBrowser ==
  /\ ended = "no" /\ main = "attach"
  /\ Attach
  /\ main' = IF stack' = <<>> THEN "unrefbrowser" ELSE main
  /\ clientRefs' = clientRefs + 1
  /\ UNCHANGED <<loop, running, lookup, ended, signals, told>>

NewLoop ==
  /\ Main("newloop", "run")
  /\ loop' = "live"
  /\ UNCHANGED <<vars, running, lookup, clientRefs, ended, signals, told>>

\* g_main_loop_run, whatever was done to the loop before.
Run ==
  /\ Main("run", "polling")
  /\ running' = TRUE
  /\ UNCHANGED <<vars, loop, lookup, clientRefs, ended, signals, told>>

LoopEnds ==
  /\ Main("polling", "unrefloop")
  /\ ~running
  /\ UNCHANGED <<vars, loop, running, lookup, clientRefs, ended, signals, told>>

UnrefLoop ==
  /\ Main("unrefloop", "unrefbrowser")
  /\ loop' = "freed"
  /\ UNCHANGED <<vars, running, lookup, clientRefs, ended, signals, told>>

UnrefBrowser ==
  /\ Main("unrefbrowser", "unrefclient")
  /\ Dispose
  /\ clientRefs' = clientRefs - 1
  /\ UNCHANGED <<loop, running, lookup, ended, signals, told>>

\* The lookups under way end with the process.
Return ==
  /\ Main("unrefclient", "unrefclient")
  /\ clientRefs' = clientRefs - 1
  /\ ended' = "returned"
  /\ UNCHANGED <<vars, loop, running, lookup, signals, told>>

-----------------------------------------------------------------------------
(* The handlers, and the library's steps that call them                    *)

\* g_main_loop_quit has no effect on a loop that is NULL or does not run yet.
Quit == running' = FALSE

\* Mutant: the failure is only printed.
OnFailurePrints == UNCHANGED running

OnFailure == Quit

Failure   == OnFailure /\ told' = (told \/ running)
NoFailure == UNCHANGED <<running, told>>

\* A resolver is made and attached, which takes a reference to the client.
OnNewService(added) ==
  /\ lookup' = lookup \o [i \in 1..Cardinality(added) |-> "running"]
  /\ clientRefs' = clientRefs + Cardinality(added)

\* A notification, in the io callback or in the wait of an attach.
Notified ==
  /\ IoDispatch \/ WaitDispatch
  /\ OnNewService(Head(link.queue).added)
  /\ IF Head(link.queue).kind = "error" THEN Failure ELSE NoFailure
  /\ UNCHANGED <<main, loop, ended, signals>>

\* The connection was lost: the browser attaches again, or reports a failure.
Reattaches ==
  /\ IoReconnect \/ WaitReconnect
  /\ clientRefs' = clientRefs + 1
  /\ IF failed' THEN Failure ELSE NoFailure
  /\ UNCHANGED <<main, loop, lookup, ended, signals>>

Reports ==
  /\ \/ main = "polling" /\ HangUp
     \/ IoFails
  /\ Failure
  /\ UNCHANGED <<main, loop, lookup, clientRefs, ended, signals>>

GoesOn ==
  /\ \/ main = "polling" /\ IoBegins
     \/ IoRead \/ IoIdle \/ WaitRead \/ Tick
  /\ UNCHANGED program

\* An attach returns TRUE: to main, or to the callback that called it.
AttachReturns ==
  /\ WaitEnds
  /\ main' = IF Innermost = "attach" THEN "newloop" ELSE main
  /\ UNCHANGED <<loop, running, lookup, clientRefs, ended, signals, told>>

Browser == ended = "no" /\ (Notified \/ Reattaches \/ Reports \/ GoesOn \/ AttachReturns)

\* The thread of a lookup returns its answer, or an error.
ThreadReturns(i) ==
  /\ ended = "no"
  /\ lookup[i] = "running"
  /\ lookup' = [lookup EXCEPT ![i] = "returned"]
  /\ UNCHANGED <<vars, main, loop, running, clientRefs, ended, signals, told>>

\* Mutant: the handler prints the address and keeps the resolver.
OnAnswerKeeps(i) ==
  /\ lookup' = [lookup EXCEPT ![i] = "done"]
  /\ UNCHANGED clientRefs

\* on_resolver_found and on_resolver_failure drop the resolver; its last
\* reference goes with the task, and its reference to the client with it.
OnAnswer(i) ==
  /\ lookup' = [lookup EXCEPT ![i] = "done"]
  /\ clientRefs' = clientRefs - 1

Completes(i) ==
  /\ Main("polling", "polling")
  /\ lookup[i] = "returned"
  /\ OnAnswer(i)
  /\ UNCHANGED <<vars, loop, running, ended, signals, told>>

\* signal_handler, between two steps of the main thread.  It quits the loop, uses
\* the loop that was freed, or waits for ever, before it quits, for a lock of what
\* it interrupts: g_print's, or the context's, which g_main_loop_run holds too
\* whenever it is not in poll().  SIGTERM in the middle of the handler of SIGINT
\* is like one after the other, or hangs on the lock of the first.
Signal ==
  /\ ended = "no" /\ signals < MaxSignals
  /\ signals' = signals + 1
  /\ \/ Quit /\ told' = (told \/ running) /\ UNCHANGED ended
     \/ loop = "freed" /\ ended' = "crashed" /\ UNCHANGED <<running, told>>
     \/ MayHang /\ ended' = "hung" /\ UNCHANGED <<running, told>>
  /\ UNCHANGED <<vars, main, loop, lookup, clientRefs>>

-----------------------------------------------------------------------------

\* resolved announces no more services than the bound allows.
Announced == Cardinality(live \ link.sent)
             + FoldLeft(LAMBDA n, m : n + Cardinality(m.added), Len(lookup), link.queue)

Outside ==
  /\ ended = "no"
  /\ \/ Network \/ RefuseBrowse \/ Die \/ Restart \/ Expire
     \/ link # None /\ Announced <= MaxLookups /\ Notify
  /\ UNCHANGED program

MainThread ==
  \/ StartClient \/ AttachBrowser \/ NewLoop \/ Run \/ LoopEnds
  \/ UnrefLoop \/ UnrefBrowser \/ Return
  \/ Browser
  \/ \E i \in DOMAIN lookup : Completes(i)

ExampleNext ==
  \/ MainThread \/ Outside \/ Signal
  \/ \E i \in DOMAIN lookup : ThreadReturns(i)

\* The system schedules the main thread, and time passes.
ExampleSpec == ExampleInit /\ [][ExampleNext]_all /\ WF_all(MainThread)

-----------------------------------------------------------------------------
(* Properties                                                              *)

(* Nobody uses a client that was freed, and when main returns every          *)
(* reference was given back but those of lookups under way and one for each  *)
(* time the browser attached again: attaches, nested ones included, the      *)
(* handlers of announced services and their answers take and return in pairs. *)
ClientCounted ==
  /\ ended = "no" /\ (refs > 0 \/ Unfinished(lookup) # {}) => clientRefs > 0
  /\ ended = "returned" =>
       clientRefs = IF main = "attach" THEN 1
                    ELSE refs + Cardinality(Unfinished(lookup))

(* Once the running main loop was told to stop, by Ctrl+C or by a failure of *)
(* the browser, also one in the middle of nested attaches, main returns, or a *)
(* later signal uses the freed loop: provided that no handler waits for ever  *)
(* for a lock, in which case nothing more happens.                            *)
QuitStops ==
  [](ended # "hung") => (told ~> ended \in {"returned", "crashed"})

===============================================================================
