--------------------------- MODULE ServiceResolver ---------------------------
(***************************************************************************)
(* GaServiceResolver (ga-service-resolver.c): one lookup per attach, each   *)
(* made by a thread of GTask's pool and completed on the main loop.         *)
(*                                                                         *)
(* An attach copies what it asks for and returns at once, so the            *)
(* application can change a property, attach again or drop the resolver     *)
(* while lookups are under way, and they complete in any order.  A          *)
(* completion overwrites the fields its answer has and leaves the others.   *)
(* systemd-resolved's answers are external: any list of SRV entries that    *)
(* was announced for the name, with the addresses of the family asked for.  *)
(***************************************************************************)
EXTENDS Naturals, SequencesExt

CONSTANTS
  Name,        \* values of the name property
  Address,     \* IPv4 and IPv6 addresses
  ProtoOf,     \* [Address -> {"INET", "INET6"}]
  Port,        \* ports of SRV entries; 0 is one too, and means none to the code
  Txt,         \* TXT lists
  Announced,   \* [Name -> the lists of SRV entries resolved can answer with]
  Settings,    \* what the application sets the properties to
  MaxAttach,   \* bound: calls of ga_service_resolver_attach
  None         \* no address, port or TXT list

Protocol == {"UNSPEC", "INET", "INET6"}

ASSUME ProtoOfType   == ProtoOf \in [Address -> {"INET", "INET6"}]
ASSUME PortType      == Port \subseteq 0..65535
ASSUME MaxAttachType == MaxAttach \in Nat
\* An SRV entry of an answer, with the addresses of its host.
SrvEntry == [port : Port \cup {None}, addresses : Seq(Address)]

ASSUME AnnouncedType == Announced \in [Name -> SUBSET Seq(SrvEntry)]

ASSUME SettingsType  ==
  Settings \subseteq [name : Name, aprotocol : Protocol]

Lookup  == 1..MaxAttach
GaError == {"NO_DAEMON", "FAILURE", "NOT_FOUND"}

VARIABLES
  priv,        \* the properties of the next lookup: name, aprotocol
  port, address, txt, resolved,  \* the fields a completion fills
  task,        \* the lookups, by the number of their attach
  started,     \* how many attaches there were
  held,        \* does the application hold its reference?
  clientRefs,  \* references to the client that the resolver took and kept
  answered     \* history: the lookups in the order they completed

fields == <<port, address, txt, resolved>>
vars   == <<priv, fields, task, started, held, clientRefs, answered>>

\* What the thread returns: an error, or what the answer has.
Failed(e) == [error |-> e, address |-> None, port |-> 0, txt |-> None]

Pending(i) == task[i].status \in {"running", "returned"}
Idle(t)    == \A i \in Lookup : t[i].status \notin {"running", "returned"}
Gone       == ~held /\ Idle(task)

TypeOK ==
  /\ priv \in Settings
  /\ port \in Port \cup {0}
  /\ address \in Address \cup {None}
  /\ txt \in Txt \cup {None}
  /\ resolved \in BOOLEAN
  /\ \A i \in Lookup :
       /\ task[i].status \in {"none", "running", "returned", "done"}
       /\ task[i].asked \in Settings
       /\ task[i].result.error \in GaError \cup {"OK"}
       /\ task[i].result.address \in Address \cup {None}
       /\ task[i].result.port \in Port \cup {0}
       /\ task[i].result.txt \in Txt \cup {None}
  /\ started \in 0..MaxAttach
  /\ held \in BOOLEAN
  /\ clientRefs \in 0..MaxAttach
  /\ answered \in Seq(Lookup)

\* ga_service_resolver_new: the properties are what the application gives.
New == priv \in Settings

Init ==
  /\ New
  /\ port = 0 /\ address = None /\ txt = None /\ resolved = FALSE
  /\ task = [i \in Lookup |-> [status |-> "none", asked |-> priv,
                               result |-> Failed("FAILURE")]]
  /\ started = 0 /\ held = TRUE /\ clientRefs = 0
  /\ answered = <<>>

-----------------------------------------------------------------------------
(* extract_address_from_services                                           *)

\* The places of the addresses of family p in an entry, the entries with any.
OfProto(entry, p)   == {j \in DOMAIN entry.addresses : ProtoOf[entry.addresses[j]] = p}
Having(services, p) == {i \in DOMAIN services : OfProto(services[i], p) # {}}

\* Every address of a family overwrites the one before: the last one counts.
LastOfProto(services, p) ==
  LET entry == services[Max(Having(services, p))] IN
  entry.addresses[Max(OfProto(entry, p))]

\* The preferred family if there is one, IPv4 before IPv6 otherwise.
SelectAddress(services, aprotocol) ==
  LET has(p) == Having(services, p) # {}
      first == IF aprotocol = "INET6" /\ has("INET6") THEN "INET6"
               ELSE IF has("INET") THEN "INET" ELSE "INET6" IN
  IF has(first) THEN LastOfProto(services, first) ELSE None

WithPort(services) == {i \in DOMAIN services : services[i].port # None}

\* Mutant: the port is not initialised.
SelectPortUnset(services) ==
  IF WithPort(services) = {} THEN None ELSE services[Max(WithPort(services))].port

\* The port of the last entry that has one, a 0 too, whichever entry has the
\* address.
SelectPort(services) ==
  IF WithPort(services) = {} THEN 0 ELSE services[Max(WithPort(services))].port

-----------------------------------------------------------------------------
(* The application                                                         *)

\* ga_service_resolver_set_property: it changes no lookup under way.
SetProperty(p) ==
  /\ held
  /\ p # priv
  /\ priv' = p
  /\ UNCHANGED <<fields, task, started, held, clientRefs, answered>>

\* ga_service_resolver_attach takes a reference to the client every time.
Attach ==
  /\ held /\ started < MaxAttach
  /\ started'    = started + 1
  /\ task'       = [task EXCEPT ![started + 1].status = "running",
                                ![started + 1].asked  = priv]
  /\ clientRefs' = clientRefs + 1
  /\ UNCHANGED <<priv, fields, held, answered>>

\* Mutant: the references of the lookups to the resolver are not counted.
ReleaseAtOnce(t, h) ==
  clientRefs' = IF ~h /\ clientRefs > 0 THEN clientRefs - 1 ELSE clientRefs

\* Dispose returns one reference, once nobody holds the resolver any more.
Release(t, h) ==
  clientRefs' = IF ~h /\ Idle(t) /\ clientRefs > 0 THEN clientRefs - 1 ELSE clientRefs

\* The application drops its reference, in a signal handler or elsewhere.
Drop ==
  /\ held
  /\ held' = FALSE
  /\ Release(task, FALSE)
  /\ UNCHANGED <<priv, fields, task, started, answered>>

-----------------------------------------------------------------------------
(* resolve_task_thread                                                     *)

Return(i, r) ==
  /\ task[i].status = "running"
  /\ task' = [task EXCEPT ![i].status = "returned", ![i].result = r]
  /\ UNCHANGED <<priv, fields, started, held, clientRefs, answered>>

\* Mutant: the error paths leave without g_task_return_new_error.
ThreadFailsSilently(i) ==
  /\ task[i].status = "running"
  /\ task' = [task EXCEPT ![i].status = "none"]
  /\ UNCHANGED <<priv, fields, started, held, clientRefs, answered>>

\* No connection, a call that fails, an answer that is an error.
ThreadFails(i) == \E e \in GaError : Return(i, Failed(e))

\* A port is passed on with an address only.
AnswerOf(services, t, aprotocol) ==
  LET a == SelectAddress(services, aprotocol) IN
  [error |-> "OK", address |-> a,
   port |-> IF a = None THEN 0 ELSE SelectPort(services), txt |-> t]

\* resolved was asked for addresses of one family, or of both: those it leaves
\* out leave their places empty here.
InFamily(services, aprotocol) ==
  [i \in DOMAIN services |-> [services[i] EXCEPT !.addresses =
     Restrict(@, {j \in DOMAIN @ : aprotocol \in {"UNSPEC", ProtoOf[@[j]]}})]]

\* Mutant: the thread reads the name the resolver has by now.
ThreadAnswersLate(i) ==
  \E s \in Announced[priv.name], t \in Txt \cup {None} :
    Return(i, AnswerOf(InFamily(s, priv.aprotocol), t, priv.aprotocol))

ThreadAnswers(i) ==
  LET asked == task[i].asked IN
  \E s \in Announced[asked.name], t \in Txt \cup {None} :
    Return(i, AnswerOf(InFamily(s, asked.aprotocol), t, asked.aprotocol))

-----------------------------------------------------------------------------
(* resolve_complete_cb                                                     *)

Finished(i) ==
  /\ task[i].status = "returned"
  /\ task' = [task EXCEPT ![i].status = "done"]
  /\ Release(task', held)
  /\ answered' = Append(answered, i)

CompletesFailure(i) ==
  /\ task[i].result.error # "OK"
  /\ Finished(i)
  /\ UNCHANGED <<priv, fields, started, held>>

\* Mutant: the port is stored when there is one, the address the first time.
FillKeepsAddress(r) ==
  /\ port'    = IF r.address = None THEN port ELSE r.port
  /\ address' = IF r.address = None \/ address # None THEN address ELSE r.address
  /\ txt'     = IF r.txt = None THEN txt ELSE r.txt
  /\ resolved' = TRUE

\* Only what the answer has is overwritten.
Fill(r) ==
  /\ port'    = IF r.address = None THEN port ELSE r.port
  /\ address' = IF r.address = None THEN address ELSE r.address
  /\ txt'     = IF r.txt = None THEN txt ELSE r.txt
  /\ resolved' = TRUE

\* "found" is emitted with the fields, and the properties, as they are now.
CompletesFound(i) ==
  /\ task[i].result.error = "OK"
  /\ Finished(i)
  /\ Fill(task[i].result)
  /\ UNCHANGED <<priv, started, held>>

-----------------------------------------------------------------------------

Thread(i)    == ThreadFails(i) \/ ThreadAnswers(i)
Completes(i) == CompletesFailure(i) \/ CompletesFound(i)

Next ==
  \/ \E p \in Settings : SetProperty(p)
  \/ Attach
  \/ Drop
  \/ \E i \in Lookup : Thread(i) \/ Completes(i)

Spec == Init /\ [][Next]_vars

\* The pool runs a task, a lookup ends, and the main loop completes it.
Fairness == \A i \in Lookup : WF_vars(Thread(i)) /\ WF_vars(Completes(i))

FairSpec == Spec /\ Fairness

-----------------------------------------------------------------------------
(* Properties                                                              *)

\* ga_service_resolver_get_address returns TRUE: a port of 0 is none, also when
\* it was announced.
GetAddress == resolved /\ port # 0

\* The k-th completion is the last of those that had an address.
HasAddress(k)    == task[answered[k]].result.address # None
LastAddressIs(k) ==
  /\ k \in DOMAIN answered /\ HasAddress(k)
  /\ \A j \in DOMAIN answered : j > k => ~HasAddress(j)

(* What ga_service_resolver_get_address returns is the address and the port  *)
(* of one answer, the last that had an address: no order of completions,     *)
(* failures and answers without an address in between mixes two lookups.     *)
LastAnswer ==
  GetAddress =>
    \E k \in DOMAIN answered :
      /\ LastAddressIs(k)
      /\ LET r == task[answered[k]].result IN address = r.address /\ port = r.port

(* A lookup answers the question its attach asked: the address was announced *)
(* for the name, and is of the protocol, the resolver had then, whatever the *)
(* application has set since.                                                *)
AnswersTheAttach ==
  \A i \in Lookup :
    LET r == task[i].result
        asked == task[i].asked IN
    r.address # None =>
      /\ \E s \in Announced[asked.name] : \E k \in DOMAIN s :
           r.address \in Range(s[k].addresses)
      /\ asked.aprotocol \in {"UNSPEC", ProtoOf[r.address]}

(* The client outlives every lookup of the resolver, also when a handler of  *)
(* one of them drops the resolver while others are under way.                *)
ClientKept == (\E i \in Lookup : Pending(i)) => clientRefs > 0

(* Every attach that returned TRUE is answered with "found" or "failure",    *)
(* even after the application has dropped the resolver.                      *)
Answered == \A i \in Lookup : Pending(i) ~> task[i].status = "done"

(* What the documentation says, and the code does not do.                    *)

(* "Resolve service names to IP addresses and ports" (README.md:16): the     *)
(* port is one that was announced with the address.                          *)
PairAnnounced ==
  GetAddress =>
    \E n \in Name : \E s \in Announced[n] : \E k \in DOMAIN s :
      s[k].port = port /\ address \in Range(s[k].addresses)
=============================================================================
