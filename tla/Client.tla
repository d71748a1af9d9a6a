-------------------------------- MODULE Client --------------------------------
(***************************************************************************)
(* GaClient (ga-client.c): ga_client_start connects to systemd-resolved     *)
(* once, drops the connection, and keeps what came of it as the state.      *)
(*                                                                         *)
(* Both emissions of state-changed run handlers of the application in the   *)
(* middle of the call, and those may start the client again, or call other  *)
(* objects of the library: the calls under way are a stack.  Modules that   *)
(* extend this one put calls of their own on it.  The main context a client *)
(* is given is not modelled: nothing in the library reads it again.         *)
(***************************************************************************)
EXTENDS Naturals, SequencesExt

CONSTANTS
  MaxDepth,    \* bound: calls nested in handlers
  MaxStarts    \* bound: calls of ga_client_start

ASSUME ClientBounds == MaxDepth \in Nat /\ MaxStarts \in Nat

VARIABLES
  up,          \* does systemd-resolved accept connections?
  state,       \* priv->state
  refs,        \* references to the client object
  held,        \* does the application hold one of them?
  stack,       \* the calls under way, innermost last
  starts,      \* calls of ga_client_start so far
  probe        \* history: what came of the last connection test

clientVars == <<state, refs, held, starts, probe>>

ClientState == {"NOT_STARTED", "CONNECTING", "S_RUNNING", "FAILURE"}

ClientTypeOK ==
  /\ up \in BOOLEAN /\ held \in BOOLEAN
  /\ state \in ClientState /\ probe \in ClientState
  /\ refs \in Nat /\ starts \in 0..MaxStarts
  /\ Len(stack) <= MaxDepth

ClientInit ==
  /\ up \in BOOLEAN
  /\ state = "NOT_STARTED" /\ probe = "NOT_STARTED"
  /\ refs = 1 /\ held = TRUE
  /\ stack = <<>> /\ starts = 0

\* Code of the application runs: in the main loop, or in a handler.
Emitting == {"connecting", "announced", "record", "all-for-now"}
AppRuns  == stack # <<>> => Last(stack).at \in Emitting
MayCall  == AppRuns /\ Len(stack) < MaxDepth

Inside(call, at) == stack # <<>> /\ Last(stack).call = call /\ Last(stack).at = at
GoesTo(at)       == stack' = Append(Front(stack), [Last(stack) EXCEPT !.at = at])
Under(call)      == \E i \in DOMAIN stack : stack[i].call = call

-----------------------------------------------------------------------------
(* ga_client_start_in_context                                              *)

\* CONNECTING is emitted before anything is tried.
Start ==
  /\ MayCall /\ held /\ starts < MaxStarts
  /\ state' = "CONNECTING" /\ starts' = starts + 1
  /\ stack' = Append(stack, [call |-> "start", at |-> "connecting"])
  /\ UNCHANGED <<up, refs, held, probe>>

\* Mutant: a client that runs is not made to fail.
ProbeKeepsRunning(outcome) ==
  /\ Inside("start", "connecting")
  /\ outcome = "S_RUNNING" => up
  /\ state' = IF probe = "S_RUNNING" THEN probe ELSE outcome
  /\ probe' = outcome
  /\ GoesTo("announced")
  /\ UNCHANGED <<up, refs, held, starts>>

\* The handlers of CONNECTING have returned: connect, and announce the outcome.
\* A connection may also be refused by a systemd-resolved that is there.
Probe(outcome) ==
  /\ Inside("start", "connecting")
  /\ outcome = "S_RUNNING" => up
  /\ state' = outcome /\ probe' = outcome
  /\ GoesTo("announced")
  /\ UNCHANGED <<up, refs, held, starts>>

StartReturns ==
  /\ Inside("start", "announced")
  /\ stack' = Front(stack)
  /\ UNCHANGED <<up, clientVars>>

\* The application drops its reference, outside of the client's own calls.
DropClient ==
  /\ AppRuns /\ held /\ ~Under("start")
  /\ held' = FALSE /\ refs' = refs - 1
  /\ UNCHANGED <<up, state, stack, starts, probe>>

\* systemd-resolved dies, or comes back.
Flap == up' = ~up /\ UNCHANGED <<stack, clientVars>>

ClientNext ==
  \/ Start \/ Probe("S_RUNNING") \/ Probe("FAILURE")
  \/ StartReturns \/ DropClient \/ Flap

-----------------------------------------------------------------------------
(* Properties                                                              *)

(* Whatever starts were nested in the handlers of others, once they have all *)
(* returned the state is the outcome of the connection test made last: never *)
(* CONNECTING, and never the outcome of an older test                        *)
(* (ga_client_start_in_context sets the state before it emits, and does not  *)
(* touch it afterwards).                                                     *)
StateSettled == ~Under("start") => state = probe
===============================================================================
