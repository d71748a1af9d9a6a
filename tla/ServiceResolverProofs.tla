------------------------- MODULE ServiceResolverProofs -------------------------
(***************************************************************************)
(* Lookups of GaServiceResolver that overlap, for any number of them and    *)
(* any answers: what get_address returns is one answer's, each answer is to *)
(* the question of its attach, and the client outlives them all.            *)
(***************************************************************************)
EXTENDS ServiceResolver, SequenceTheorems, WellFoundedInduction, TLAPS

IsLookup(l) == l = [status |-> l.status, asked |-> l.asked, result |-> l.result]

\* A lookup that was not made is none; one that failed has no address.
Lookups ==
  /\ started \in 0..MaxAttach
  /\ DOMAIN task = Lookup /\ task = [i \in Lookup |-> task[i]]
  /\ \A i \in Lookup :
       /\ IsLookup(task[i])
       /\ i > started => task[i].status = "none"
       /\ task[i].result.error # "OK" => task[i].result.address = None

\* Until the resolver is gone it has a reference for each of its attaches.
Counted == held \/ ~Idle(task) => clientRefs = started

Completed ==
  /\ answered \in Seq(Lookup)
  /\ \A k \in DOMAIN answered : task[answered[k]].status = "done"

\* The fields are those of the last answer with an address, or no port is set.
Filled ==
  \/ /\ port = 0
     /\ \A j \in DOMAIN answered : ~HasAddress(j)
  \/ \E k \in DOMAIN answered :
       /\ LastAddressIs(k)
       /\ LET r == task[answered[k]].result IN address = r.address /\ port = r.port

IInv == Lookups /\ Counted /\ Completed /\ Filled

USE DEF fields

-----------------------------------------------------------------------------
(* The lookups                                                             *)

\* What a change of one field does to a table of lookups.
SetStatus(t, i, x) == [t EXCEPT ![i].status = x]
SetResult(t, i, x) == [t EXCEPT ![i].result = x]
SetAsked(t, i, x)  == [t EXCEPT ![i].asked = x]

LEMMA StatusSet ==
  ASSUME NEW t, DOMAIN t = Lookup, \A j \in Lookup : IsLookup(t[j]),
         NEW i \in Lookup, NEW x
  PROVE  LET u == SetStatus(t, i, x) IN
         /\ DOMAIN u = Lookup /\ u = [j \in Lookup |-> u[j]]
         /\ u[i].status = x
         /\ \A j \in Lookup : /\ IsLookup(u[j])
                              /\ u[j].result = t[j].result /\ u[j].asked = t[j].asked
                              /\ j # i => u[j] = t[j]
<1> DEFINE u == [t EXCEPT ![i].status = x]
<1>1. DOMAIN u = Lookup /\ u = [j \in Lookup |-> u[j]]
  OBVIOUS
<1>2. \A j \in Lookup : j # i => u[j] = t[j]
  OBVIOUS
<1>3. u[i] = [t[i] EXCEPT !.status = x]
  OBVIOUS
<1>4. u[i] = [status |-> x, asked |-> t[i].asked, result |-> t[i].result]
  <2> DEFINE r == t[i]
  <2>1. r = [status |-> r.status, asked |-> r.asked, result |-> r.result]
    BY DEF IsLookup
  <2> HIDE DEF r
  <2>2. [r EXCEPT !.status = x] = [status |-> x, asked |-> r.asked, result |-> r.result]
    BY <2>1
  <2> QED
    BY <2>2, <1>3 DEF r
<1> HIDE DEF u
<1>5. IsLookup(u[i]) /\ u[i].status = x /\ u[i].result = t[i].result /\ u[i].asked = t[i].asked
  BY <1>4 DEF IsLookup
<1>6. \A j \in Lookup : /\ IsLookup(u[j])
                        /\ u[j].result = t[j].result /\ u[j].asked = t[j].asked
  BY <1>2, <1>5
<1> QED
  BY <1>1, <1>2, <1>5, <1>6 DEF u, SetStatus

LEMMA ResultSet ==
  ASSUME NEW t, DOMAIN t = Lookup, \A j \in Lookup : IsLookup(t[j]),
         NEW i \in Lookup, NEW x
  PROVE  LET u == SetResult(t, i, x) IN
         /\ DOMAIN u = Lookup /\ u = [j \in Lookup |-> u[j]]
         /\ u[i].result = x
         /\ \A j \in Lookup : /\ IsLookup(u[j])
                              /\ u[j].status = t[j].status /\ u[j].asked = t[j].asked
                              /\ j # i => u[j] = t[j]
<1> DEFINE u == [t EXCEPT ![i].result = x]
<1>1. DOMAIN u = Lookup /\ u = [j \in Lookup |-> u[j]]
  OBVIOUS
<1>2. \A j \in Lookup : j # i => u[j] = t[j]
  OBVIOUS
<1>3. u[i] = [t[i] EXCEPT !.result = x]
  OBVIOUS
<1>4. u[i] = [status |-> t[i].status, asked |-> t[i].asked, result |-> x]
  <2> DEFINE r == t[i]
  <2>1. r = [status |-> r.status, asked |-> r.asked, result |-> r.result]
    BY DEF IsLookup
  <2> HIDE DEF r
  <2>2. [r EXCEPT !.result = x] = [status |-> r.status, asked |-> r.asked, result |-> x]
    BY <2>1
  <2> QED
    BY <2>2, <1>3 DEF r
<1> HIDE DEF u
<1>5. IsLookup(u[i]) /\ u[i].result = x /\ u[i].status = t[i].status /\ u[i].asked = t[i].asked
  BY <1>4 DEF IsLookup
<1>6. \A j \in Lookup : IsLookup(u[j]) /\ u[j].status = t[j].status /\ u[j].asked = t[j].asked
  BY <1>2, <1>5
<1> QED
  BY <1>1, <1>2, <1>5, <1>6 DEF u, SetResult

LEMMA AskedSet ==
  ASSUME NEW t, DOMAIN t = Lookup, \A j \in Lookup : IsLookup(t[j]),
         NEW i \in Lookup, NEW x
  PROVE  LET u == SetAsked(t, i, x) IN
         /\ DOMAIN u = Lookup /\ u = [j \in Lookup |-> u[j]]
         /\ u[i].asked = x
         /\ \A j \in Lookup : /\ IsLookup(u[j])
                              /\ u[j].status = t[j].status /\ u[j].result = t[j].result
                              /\ j # i => u[j] = t[j]
<1> DEFINE u == [t EXCEPT ![i].asked = x]
<1>1. DOMAIN u = Lookup /\ u = [j \in Lookup |-> u[j]]
  OBVIOUS
<1>2. \A j \in Lookup : j # i => u[j] = t[j]
  OBVIOUS
<1>3. u[i] = [t[i] EXCEPT !.asked = x]
  OBVIOUS
<1>4. u[i] = [status |-> t[i].status, asked |-> x, result |-> t[i].result]
  <2> DEFINE r == t[i]
  <2>1. r = [status |-> r.status, asked |-> r.asked, result |-> r.result]
    BY DEF IsLookup
  <2> HIDE DEF r
  <2>2. [r EXCEPT !.asked = x] = [status |-> r.status, asked |-> x, result |-> r.result]
    BY <2>1
  <2> QED
    BY <2>2, <1>3 DEF r
<1> HIDE DEF u
<1>5. IsLookup(u[i]) /\ u[i].status = t[i].status /\ u[i].result = t[i].result /\ u[i].asked = x
  BY <1>4 DEF IsLookup
<1>6. \A j \in Lookup : IsLookup(u[j]) /\ u[j].status = t[j].status /\ u[j].result = t[j].result
  BY <1>2, <1>5
<1> QED
  BY <1>1, <1>2, <1>5, <1>6 DEF u, SetAsked

LEMMA ResolverStarts == Init => IInv
<1> SUFFICES ASSUME Init PROVE IInv
  OBVIOUS
<1>1. Lookups
  BY MaxAttachType DEF Init, Lookups, IsLookup, Failed
<1>2. Counted
  BY DEF Init, Counted
<1>3. Completed /\ Filled
  BY DEF Init, Completed, Filled
<1> QED
  BY <1>1, <1>2, <1>3 DEF IInv

\* Completions, and the fields, when no result of a completed lookup changes.
LEMMA AnsweredKept ==
  ASSUME IInv, UNCHANGED <<fields, answered>>,
         \A j \in Lookup : task[j].status = "done" =>
            task'[j].status = "done" /\ task'[j].result = task[j].result
  PROVE  Completed' /\ Filled'
<1>1. \A k \in DOMAIN answered :
        /\ task'[answered[k]].status = "done"
        /\ task'[answered[k]].result = task[answered[k]].result
  BY DEF IInv, Completed
<1>2. Completed'
  BY <1>1 DEF IInv, Completed
<1>3. \A k \in DOMAIN answered : HasAddress(k)' = HasAddress(k)
  BY <1>1 DEF HasAddress
<1>4. \A k \in DOMAIN answered : LastAddressIs(k)' = LastAddressIs(k)
  BY <1>3 DEF LastAddressIs
<1>5. Filled'
  BY <1>1, <1>3, <1>4 DEF IInv, Filled
<1> QED
  BY <1>2, <1>5

LEMMA AttachKeeps == ASSUME IInv, Attach PROVE IInv'
<1> DEFINE i == started + 1
           t == SetStatus(task, i, "running")
<1>1. /\ i \in Lookup /\ started' = i /\ started \in Nat /\ clientRefs' = clientRefs + 1
      /\ held /\ held' = held /\ UNCHANGED <<fields, answered>>
      /\ task[i].status = "none" /\ i <= MaxAttach
  BY MaxAttachType DEF Attach, Lookup, IInv, Lookups
<1>2. task' = SetAsked(t, i, priv)
  BY DEF Attach, SetStatus, SetAsked
<1>3. DOMAIN task = Lookup /\ \A j \in Lookup : IsLookup(task[j])
  BY DEF IInv, Lookups
<1> HIDE DEF i
<1>4. /\ DOMAIN t = Lookup /\ t[i].status = "running"
      /\ \A j \in Lookup : IsLookup(t[j]) /\ t[j].result = task[j].result
                           /\ (j # i => t[j] = task[j])
  BY <1>1, <1>3, StatusSet
<1> HIDE DEF t
<1>5. /\ DOMAIN task' = Lookup /\ task' = [j \in Lookup |-> task'[j]]
      /\ \A j \in Lookup : IsLookup(task'[j]) /\ task'[j].result = task[j].result
                           /\ (j # i => task'[j] = task[j])
  BY <1>1, <1>2, <1>4, AskedSet
<1>6. Lookups'
  <2>1. started' \in 0..MaxAttach
    BY <1>1 DEF Lookup
  <2>2. ASSUME NEW j \in Lookup, j > started' PROVE task'[j].status = "none"
    BY <2>2, <1>1, <1>5 DEF IInv, Lookups, Lookup, i
  <2> QED
    BY <2>1, <2>2, <1>5 DEF IInv, Lookups
<1>7. Counted'
  BY <1>1 DEF IInv, Counted, i
<1>8. Completed' /\ Filled'
  BY <1>1, <1>5, AnsweredKept
<1> QED
  BY <1>6, <1>7, <1>8 DEF IInv

LEMMA DropKeeps == ASSUME IInv, Drop PROVE IInv'
<1>1. /\ UNCHANGED <<fields, task, started, answered>> /\ ~held' /\ held
      /\ ~Idle(task) => clientRefs' = clientRefs
  BY DEF Drop, Release
<1>2. Counted'
  BY <1>1 DEF IInv, Counted
<1>3. Completed' /\ Filled'
  BY <1>1, AnsweredKept
<1> QED
  BY <1>1, <1>2, <1>3 DEF IInv, Lookups

\* The thread returns: an error comes without an address.
LEMMA ReturnKeeps ==
  ASSUME IInv, NEW i \in Lookup, NEW r, Return(i, r),
         r.error # "OK" => r.address = None
  PROVE  IInv'
<1> DEFINE t == SetStatus(task, i, "returned")
<1>1. /\ task[i].status = "running" /\ task' = SetResult(t, i, r)
      /\ UNCHANGED <<fields, started, held, clientRefs, answered>>
  BY DEF Return, SetStatus, SetResult
<1>2. DOMAIN task = Lookup /\ \A j \in Lookup : IsLookup(task[j])
  BY DEF IInv, Lookups
<1>3. /\ DOMAIN t = Lookup /\ t[i].status = "returned"
      /\ \A j \in Lookup : IsLookup(t[j]) /\ (j # i => t[j] = task[j])
  BY <1>2, StatusSet
<1> HIDE DEF t
<1>4. /\ DOMAIN task' = Lookup /\ task' = [j \in Lookup |-> task'[j]]
      /\ task'[i].result = r /\ task'[i].status = "returned"
      /\ \A j \in Lookup : IsLookup(task'[j]) /\ (j # i => task'[j] = task[j])
  BY <1>1, <1>3, ResultSet
<1>5. Lookups'
  <2>1. ASSUME NEW j \in Lookup
        PROVE  /\ j > started' => task'[j].status = "none"
               /\ task'[j].result.error # "OK" => task'[j].result.address = None
    <3>1. CASE j = i
      BY <3>1, <1>1, <1>4 DEF IInv, Lookups
    <3>2. CASE j # i
      BY <3>2, <1>1, <1>4 DEF IInv, Lookups
    <3> QED
      BY <3>1, <3>2
  <2> QED
    BY <2>1, <1>1, <1>4 DEF IInv, Lookups
<1>6. Counted'
  <2>1. ~Idle(task)
    BY <1>1 DEF Idle
  <2> QED
    BY <2>1, <1>1 DEF IInv, Counted
<1>7. Completed' /\ Filled'
  BY <1>1, <1>4, AnsweredKept
<1> QED
  BY <1>5, <1>6, <1>7 DEF IInv

\* A completion, but for what it fills in.
LEMMA FinishedKeeps ==
  ASSUME IInv, NEW i \in Lookup, Finished(i), UNCHANGED <<started, held>>
  PROVE  /\ Lookups' /\ Counted' /\ Completed'
         /\ answered' = Append(answered, i)
         /\ \A j \in Lookup : task'[j].result = task[j].result
<1>1. /\ task[i].status = "returned" /\ task' = SetStatus(task, i, "done")
      /\ answered' = Append(answered, i) /\ answered \in Seq(Lookup)
      /\ held \/ ~Idle(task') => clientRefs' = clientRefs
  BY DEF Finished, Release, IInv, Completed, SetStatus
<1>2. DOMAIN task = Lookup /\ \A j \in Lookup : IsLookup(task[j])
  BY DEF IInv, Lookups
<1>3. /\ DOMAIN task' = Lookup /\ task' = [j \in Lookup |-> task'[j]]
      /\ task'[i].status = "done"
      /\ \A j \in Lookup : /\ IsLookup(task'[j]) /\ task'[j].result = task[j].result
                           /\ j # i => task'[j] = task[j]
  BY <1>1, <1>2, StatusSet
<1>4. Lookups'
  <2>1. i <= started
    BY <1>1 DEF IInv, Lookups, Lookup
  <2>2. ASSUME NEW j \in Lookup, j > started' PROVE task'[j].status = "none"
    <3>1. j # i
      BY <2>1, <2>2 DEF IInv, Lookups, Lookup
    <3> QED
      BY <2>2, <3>1, <1>3 DEF IInv, Lookups
  <2> QED
    BY <2>2, <1>3 DEF IInv, Lookups
<1>5. Counted'
  <2>1. ~Idle(task)
    BY <1>1 DEF Idle
  <2> QED
    BY <2>1, <1>1 DEF IInv, Counted
<1>6. Completed'
  <2>1. answered' \in Seq(Lookup)
    BY <1>1
  <2>2. \A k \in DOMAIN answered' : \/ k \in DOMAIN answered /\ answered'[k] = answered[k]
                                 \/ answered'[k] = i
    BY <1>1
  <2> QED
    BY <2>1, <2>2, <1>3 DEF IInv, Completed
<1> QED
  BY <1>1, <1>3, <1>4, <1>5, <1>6

\* One more completion: the older ones have the addresses they had.
LEMMA OneMoreAnswer ==
  ASSUME answered \in Seq(Lookup), NEW i \in Lookup, answered' = Append(answered, i),
         \A j \in Lookup : task'[j].result = task[j].result
  PROVE  \E n \in Nat :
           /\ DOMAIN answered' = 1..n /\ DOMAIN answered = 1..(n - 1)
           /\ task'[answered'[n]].result = task[i].result
           /\ HasAddress(n)' <=> task[i].result.address # None
           /\ \A k \in DOMAIN answered :
                /\ task'[answered'[k]].result = task[answered[k]].result
                /\ HasAddress(k)' <=> HasAddress(k)
<1>1. PICK n \in Nat : n = Len(answered) + 1
  OBVIOUS
<1>2. /\ DOMAIN answered' = 1..n /\ DOMAIN answered = 1..(n - 1)
      /\ answered'[n] = i
      /\ \A k \in DOMAIN answered : answered'[k] = answered[k] /\ answered[k] \in Lookup
  BY <1>1
<1>3. \A k \in DOMAIN answered : task'[answered'[k]].result = task[answered[k]].result
  BY <1>2
<1>4. task'[answered'[n]].result = task[i].result
  BY <1>2
<1>5. \A k \in DOMAIN answered : HasAddress(k)' <=> HasAddress(k)
  BY <1>3 DEF HasAddress
<1>6. HasAddress(n)' <=> task[i].result.address # None
  BY <1>4 DEF HasAddress
<1> QED
  BY <1>2, <1>3, <1>4, <1>5, <1>6

\* An answer without an address, or a failure, leaves the fields to the one before.
LEMMA FilledKept ==
  ASSUME IInv, NEW i \in Lookup, answered' = Append(answered, i),
         \A j \in Lookup : task'[j].result = task[j].result,
         task[i].result.address = None, UNCHANGED <<address, port>>
  PROVE  Filled'
<1>1. PICK n \in Nat :
        /\ DOMAIN answered' = 1..n /\ DOMAIN answered = 1..(n - 1)
        /\ ~HasAddress(n)'
        /\ \A k \in DOMAIN answered :
             /\ task'[answered'[k]].result = task[answered[k]].result
             /\ HasAddress(k)' <=> HasAddress(k)
  BY OneMoreAnswer DEF IInv, Completed
<1>2. \A k \in DOMAIN answered' : k \in DOMAIN answered \/ k = n
  BY <1>1
<1>3. CASE port = 0 /\ \A k \in DOMAIN answered : ~HasAddress(k)
  <2>1. \A k \in DOMAIN answered' : ~HasAddress(k)'
    BY <1>1, <1>2, <1>3
  <2> QED
    BY <1>3, <2>1 DEF Filled
<1>4. ASSUME NEW k \in DOMAIN answered, LastAddressIs(k),
             LET r == task[answered[k]].result IN address = r.address /\ port = r.port
      PROVE  Filled'
  <2>1. k \in DOMAIN answered' /\ HasAddress(k)'
    BY <1>4, <1>1 DEF LastAddressIs
  <2>2. \A j \in DOMAIN answered' : j > k => ~HasAddress(j)'
    BY <1>4, <1>1, <1>2 DEF LastAddressIs
  <2>3. LastAddressIs(k)'
    BY <2>1, <2>2 DEF LastAddressIs
  <2> QED
    BY <1>4, <2>1, <2>3, <1>1 DEF Filled
<1> QED
  BY <1>3, <1>4 DEF IInv, Filled

LEMMA CompletesFailureKeeps ==
  ASSUME IInv, NEW i \in Lookup, CompletesFailure(i)
  PROVE  IInv'
<1>1. /\ Finished(i) /\ UNCHANGED <<fields, started, held>>
      /\ task[i].result.address = None
  BY DEF CompletesFailure, IInv, Lookups
<1>2. /\ Lookups' /\ Counted' /\ Completed'
      /\ answered' = Append(answered, i)
      /\ \A j \in Lookup : task'[j].result = task[j].result
  BY <1>1, FinishedKeeps
<1>3. Filled'
  BY <1>1, <1>2, FilledKept
<1> QED
  BY <1>2, <1>3 DEF IInv

LEMMA CompletesFoundKeeps ==
  ASSUME IInv, NEW i \in Lookup, CompletesFound(i)
  PROVE  IInv'
<1>1. /\ Finished(i) /\ UNCHANGED <<started, held>>
      /\ port' = IF task[i].result.address = None THEN port ELSE task[i].result.port
      /\ address' = IF task[i].result.address = None THEN address ELSE task[i].result.address
  BY DEF CompletesFound, Fill
<1>2. /\ Lookups' /\ Counted' /\ Completed'
      /\ answered' = Append(answered, i)
      /\ \A j \in Lookup : task'[j].result = task[j].result
  BY <1>1, FinishedKeeps
<1>3. CASE task[i].result.address # None
  <2>1. PICK n \in Nat :
          /\ DOMAIN answered' = 1..n /\ DOMAIN answered = 1..(n - 1)
          /\ task'[answered'[n]].result = task[i].result
          /\ HasAddress(n)'
    BY <1>2, <1>3, OneMoreAnswer DEF IInv, Completed
  <2>2. n \in DOMAIN answered'
    <3>1. DOMAIN answered' # {}
      BY <1>2 DEF IInv, Completed
    <3> QED
      BY <2>1, <3>1
  <2>3. \A j \in DOMAIN answered' : ~(j > n)
    BY <2>1
  <2>4. LastAddressIs(n)'
    BY <2>1, <2>2, <2>3 DEF LastAddressIs
  <2>5. address' = task'[answered'[n]].result.address /\ port' = task'[answered'[n]].result.port
    BY <1>1, <1>3, <2>1
  <2>6. Filled'
    BY <2>2, <2>4, <2>5 DEF Filled
  <2> QED
    BY <2>6, <1>2 DEF IInv
<1>4. CASE task[i].result.address = None
  <2>1. Filled'
    BY <1>1, <1>2, <1>4, FilledKept
  <2> QED
    BY <2>1, <1>2 DEF IInv
<1> QED
  BY <1>3, <1>4

LEMMA ResolverStays == IInv /\ [Next]_vars => IInv'
<1> SUFFICES ASSUME IInv, [Next]_vars PROVE IInv'
  OBVIOUS
<1>1. ASSUME UNCHANGED <<fields, task, started, held, clientRefs, answered>>
      PROVE  IInv'
  BY <1>1, AnsweredKept DEF IInv, Lookups, Counted
<1>2. ASSUME NEW p \in Settings, SetProperty(p) PROVE IInv'
  BY <1>1, <1>2 DEF SetProperty
<1>3. ASSUME NEW i \in Lookup, Thread(i) PROVE IInv'
  <2>1. ASSUME NEW e \in GaError, Return(i, Failed(e)) PROVE IInv'
    BY <2>1, ReturnKeeps DEF Failed
  <2>2. ASSUME NEW s, NEW u, NEW p, Return(i, AnswerOf(s, u, p)) PROVE IInv'
    <3>1. AnswerOf(s, u, p).error = "OK"
      BY DEF AnswerOf
    <3> QED
      BY <2>2, <3>1, ReturnKeeps
  <2> QED
    BY <1>3, <2>1, <2>2 DEF Thread, ThreadFails, ThreadAnswers
<1>4. ASSUME NEW i \in Lookup, Completes(i) PROVE IInv'
  BY <1>4, CompletesFailureKeeps, CompletesFoundKeeps DEF Completes
<1>5. CASE UNCHANGED vars
  BY <1>1, <1>5 DEF vars
<1> QED
  BY <1>2, <1>3, <1>4, <1>5, AttachKeeps, DropKeeps DEF Next

LEMMA ResolverInvariant == Spec => []IInv
<1> QED
  BY ResolverStarts, ResolverStays, PTL DEF Spec

-----------------------------------------------------------------------------

\* What ga_service_resolver_get_address returns is the address and the port of
\* the last answer that had an address, in whatever order the lookups completed.
THEOREM AddressOfLastAnswer == Spec => []LastAnswer
<1>1. IInv => LastAnswer
  BY DEF IInv, Filled, LastAnswer, GetAddress
<1> QED
  BY <1>1, ResolverInvariant, PTL

\* The client lives while a lookup is under way, also when its resolver was
\* dropped (ga_service_resolver_attach, ga_service_resolver_dispose).
THEOREM ClientStaysKept == Spec => []ClientKept
<1>1. IInv => ClientKept
  <2> SUFFICES ASSUME IInv, NEW i \in Lookup, Pending(i) PROVE clientRefs > 0
    BY DEF ClientKept
  <2>1. clientRefs = started
    BY DEF IInv, Counted, Idle, Pending
  <2>2. i <= started
    BY DEF IInv, Lookups, Lookup, Pending
  <2> QED
    BY <2>1, <2>2 DEF IInv, Lookups, Lookup
<1> QED
  BY <1>1, ResolverInvariant, PTL

-----------------------------------------------------------------------------
(* What an answer has                                                      *)

Less == {p \in Nat \X Nat : p[1] < p[2]}

\* A set of places has a last one.
LEMMA MaxExists ==
  ASSUME NEW n \in Nat, NEW S \in SUBSET (1..n), S # {}
  PROVE  Max(S) \in S
<1> DEFINE U == {m \in Nat : \A y \in S : m >= y}
<1>1. IsWellFoundedOn(Less, Nat)
  <2>1. Less = OpToRel(<, Nat)
    BY DEF Less, OpToRel
  <2> QED
    BY <2>1, NatLessThanWellFounded
<1>2. U \subseteq Nat /\ n \in U
  OBVIOUS
<1>3. PICK m \in U : \A y \in U : ~(<<y, m>> \in Less)
  BY <1>1, <1>2, WFMin
<1>4. m \in S
  <2> SUFFICES ASSUME m \notin S PROVE FALSE
    OBVIOUS
  <2>a. PICK y \in S : TRUE
    OBVIOUS
  <2>1. y \in Nat /\ y >= 1 /\ m >= y
    BY <1>3
  <2>2. m - 1 \in Nat /\ m - 1 < m
    BY <2>1, <1>3
  <2>3. \A z \in S : m - 1 >= z
    BY <1>3
  <2> QED
    BY <2>2, <2>3, <1>3 DEF Less
<1>5. \E x \in S : \A y \in S : x >= y
  BY <1>3, <1>4
<1> QED
  BY <1>5 DEF Max

LEMMA EntryFiltered ==
  ASSUME NEW e \in SrvEntry, NEW x
  PROVE  /\ [e EXCEPT !.addresses = x].port = e.port
         /\ [e EXCEPT !.addresses = x].addresses = x
         /\ e.port \in Port \cup {None} /\ e.addresses \in Seq(Address)
BY DEF SrvEntry

\* The port that is selected is the port of an entry, or none.
LEMMA PortSelected ==
  ASSUME NEW s, DOMAIN s = 1..Len(s), Len(s) \in Nat,
         \A i \in DOMAIN s : s[i].port \in Port \cup {None}
  PROVE  SelectPort(s) \in Port \cup {0}
<1>1. CASE WithPort(s) = {}
  BY <1>1 DEF SelectPort
<1>2. CASE WithPort(s) # {}
  <2>1. Max(WithPort(s)) \in WithPort(s)
    BY <1>2, MaxExists DEF WithPort
  <2>2. s[Max(WithPort(s))].port \in Port
    BY <2>1 DEF WithPort
  <2> QED
    BY <1>2, <2>2 DEF SelectPort
<1> QED
  BY <1>1, <1>2

\* The address that is selected is one of the answer, of the family that was
\* asked for (extract_address_from_services, resolve_task_thread).
LEMMA AddressSelected ==
  ASSUME NEW s \in Seq(SrvEntry), NEW f \in Protocol,
         NEW a, a = SelectAddress(InFamily(s, f), f), a # None
  PROVE  /\ f \in {"UNSPEC", ProtoOf[a]}
         /\ \E k \in DOMAIN s : a \in Range(s[k].addresses)
<1> DEFINE t == InFamily(s, f)
           place(k) == {j \in DOMAIN s[k].addresses : f \in {"UNSPEC", ProtoOf[s[k].addresses[j]]}}
<1>1. /\ DOMAIN t = DOMAIN s /\ DOMAIN s = 1..Len(s) /\ Len(s) \in Nat
      /\ \A k \in DOMAIN s : s[k] \in SrvEntry
  BY DEF InFamily
<1>2. \A k \in DOMAIN s : /\ s[k].addresses \in Seq(Address)
                          /\ t[k].addresses = Restrict(s[k].addresses, place(k))
  <2> SUFFICES ASSUME NEW k \in DOMAIN s
               PROVE  /\ s[k].addresses \in Seq(Address)
                      /\ t[k].addresses = Restrict(s[k].addresses, place(k))
    OBVIOUS
  <2>1. t[k] = [s[k] EXCEPT !.addresses = Restrict(s[k].addresses, place(k))]
    BY DEF InFamily
  <2> QED
    BY <1>1, <2>1, EntryFiltered
<1> HIDE DEF t
<1>3. \A k \in DOMAIN s : /\ DOMAIN t[k].addresses = place(k)
                          /\ \A j \in place(k) : t[k].addresses[j] = s[k].addresses[j]
  BY <1>2 DEF Restrict
<1>4. PICK p \in {"INET", "INET6"} : Having(t, p) # {} /\ a = LastOfProto(t, p)
  BY DEF SelectAddress, t
<1>5. PICK k \in DOMAIN s : k = Max(Having(t, p)) /\ OfProto(t[k], p) # {}
  <2>1. Having(t, p) \in SUBSET (1..Len(s))
    BY <1>1 DEF Having
  <2>2. Max(Having(t, p)) \in Having(t, p)
    BY <1>1, <1>4, <2>1, MaxExists
  <2> QED
    BY <1>1, <2>2 DEF Having
<1>6. PICK j \in place(k) : j = Max(OfProto(t[k], p))
  <2>1. OfProto(t[k], p) \in SUBSET (1..Len(s[k].addresses)) /\ Len(s[k].addresses) \in Nat
    BY <1>1, <1>3 DEF OfProto
  <2>2. Max(OfProto(t[k], p)) \in OfProto(t[k], p)
    BY <1>5, <2>1, MaxExists
  <2> QED
    BY <1>3, <2>2 DEF OfProto
<1>7. a = s[k].addresses[j]
  BY <1>3, <1>4, <1>5, <1>6 DEF LastOfProto
<1> QED
  BY <1>6, <1>7 DEF Range

\* What a thread returns for one of the announced lists.
LEMMA AnswerSelected ==
  ASSUME NEW q \in Settings, NEW s \in Announced[q.name], NEW u \in Txt \cup {None},
         NEW r, r = AnswerOf(InFamily(s, q.aprotocol), u, q.aprotocol)
  PROVE  /\ r.error = "OK" /\ r.txt \in Txt \cup {None} /\ r.port \in Port \cup {0}
         /\ r.address \in Address \cup {None}
         /\ r.address # None =>
              /\ \E l \in Announced[q.name] : \E k \in DOMAIN l : r.address \in Range(l[k].addresses)
              /\ q.aprotocol \in {"UNSPEC", ProtoOf[r.address]}
<1>1. s \in Seq(SrvEntry) /\ q.aprotocol \in Protocol
  BY AnnouncedType, SettingsType
<1> DEFINE t == InFamily(s, q.aprotocol)
           a == SelectAddress(t, q.aprotocol)
<1>2. /\ r.error = "OK" /\ r.txt = u /\ r.address = a
      /\ r.port = IF a = None THEN 0 ELSE SelectPort(t)
  BY DEF AnswerOf
<1>3. SelectPort(t) \in Port \cup {0}
  <2>1. /\ DOMAIN t = 1..Len(s) /\ Len(s) \in Nat
        /\ \A i \in DOMAIN t : s[i] \in SrvEntry /\ t[i].port = s[i].port
    <3>1. DOMAIN t = 1..Len(s) /\ Len(s) \in Nat /\ \A i \in DOMAIN t : s[i] \in SrvEntry
      BY <1>1 DEF InFamily
    <3>2. ASSUME NEW i \in DOMAIN t PROVE t[i].port = s[i].port
      <4>1. PICK x : t[i] = [s[i] EXCEPT !.addresses = x]
        BY <3>1 DEF InFamily
      <4> QED
        BY <3>1, <4>1, EntryFiltered
    <3> QED
      BY <3>1, <3>2
  <2>2. Len(t) = Len(s)
    BY <2>1
  <2> HIDE DEF t
  <2> QED
    BY <2>1, <2>2, PortSelected DEF SrvEntry
<1>4. a # None => /\ \E k \in DOMAIN s : a \in Range(s[k].addresses)
                  /\ q.aprotocol \in {"UNSPEC", ProtoOf[a]}
  BY <1>1, AddressSelected
<1> HIDE DEF t, a
<1>5. \A k \in DOMAIN s : Range(s[k].addresses) \subseteq Address
  <2> SUFFICES ASSUME NEW k \in DOMAIN s PROVE Range(s[k].addresses) \subseteq Address
    OBVIOUS
  <2>1. s[k].addresses \in Seq(Address)
    BY <1>1, EntryFiltered
  <2> QED
    BY <2>1 DEF Range
<1> QED
  BY <1>2, <1>3, <1>4, <1>5

-----------------------------------------------------------------------------
(* Types, and answers to the question of the attach                        *)

ResultOK(r) ==
  /\ r.error \in GaError \cup {"OK"}
  /\ r.address \in Address \cup {None}
  /\ r.port \in Port \cup {0}
  /\ r.txt \in Txt \cup {None}

\* An address in a result answers what was asked.
Answers(asked, r) ==
  r.address # None =>
    /\ \E s \in Announced[asked.name] : \E k \in DOMAIN s : r.address \in Range(s[k].addresses)
    /\ asked.aprotocol \in {"UNSPEC", ProtoOf[r.address]}

LookupOK(l) ==
  /\ l.status \in {"none", "running", "returned", "done"}
  /\ l.asked \in Settings
  /\ ResultOK(l.result)
  /\ Answers(l.asked, l.result)
  /\ l.status = "none" => l.result.address = None

FieldsOK ==
  /\ priv \in Settings
  /\ port \in Port \cup {0} /\ address \in Address \cup {None}
  /\ txt \in Txt \cup {None} /\ resolved \in BOOLEAN
  /\ held \in BOOLEAN
  /\ clientRefs \in 0..MaxAttach

AInv == FieldsOK /\ \A i \in Lookup : LookupOK(task[i])

LEMMA AnswersStart == Init => AInv
<1> SUFFICES ASSUME Init PROVE AInv
  OBVIOUS
<1>1. FieldsOK
  <2>1. clientRefs \in 0..MaxAttach
    BY MaxAttachType DEF Init
  <2> QED
    BY <2>1 DEF Init, New, FieldsOK
<1>2. ASSUME NEW i \in Lookup PROVE LookupOK(task[i])
  <2>1. task[i] = [status |-> "none", asked |-> priv, result |-> Failed("FAILURE")]
    BY DEF Init
  <2> QED
    BY <2>1, <1>1 DEF FieldsOK, LookupOK, ResultOK, Answers, Failed, GaError
<1> QED
  BY <1>1, <1>2 DEF AInv

LEMMA AttachAnswers == ASSUME IInv, AInv, Attach PROVE AInv'
<1> DEFINE i == started + 1
           t == SetStatus(task, i, "running")
<1>1. /\ i \in Lookup /\ task[i].status = "none" /\ clientRefs' = clientRefs + 1
      /\ clientRefs = started /\ UNCHANGED <<priv, fields, held>>
  BY MaxAttachType DEF Attach, Lookup, IInv, Lookups, Counted
<1>2. task' = SetAsked(t, i, priv)
  BY DEF Attach, SetStatus, SetAsked
<1>3. DOMAIN task = Lookup /\ \A j \in Lookup : IsLookup(task[j])
  BY DEF IInv, Lookups
<1>4. FieldsOK'
  BY <1>1, MaxAttachType DEF AInv, FieldsOK, Lookup
<1> HIDE DEF i
<1>5. /\ DOMAIN t = Lookup /\ t[i].status = "running"
      /\ \A j \in Lookup : IsLookup(t[j]) /\ t[j].result = task[j].result
                           /\ (j # i => t[j] = task[j])
  BY <1>1, <1>3, StatusSet
<1> HIDE DEF t
<1>6. /\ task'[i].status = "running" /\ task'[i].asked = priv
      /\ task'[i].result = task[i].result
      /\ \A j \in Lookup : j # i => task'[j] = task[j]
  BY <1>1, <1>2, <1>5, AskedSet
<1>7. LookupOK(task'[i])
  <2>1. LookupOK(task[i]) /\ task[i].result.address = None
    BY <1>1 DEF AInv, LookupOK
  <2> QED
    BY <2>1, <1>6 DEF AInv, FieldsOK, LookupOK, Answers
<1> QED
  BY <1>1, <1>4, <1>6, <1>7 DEF AInv

LEMMA ReturnAnswers ==
  ASSUME IInv, AInv, NEW i \in Lookup, NEW r, Return(i, r),
         ResultOK(r), Answers(task[i].asked, r)
  PROVE  AInv'
<1> DEFINE t == SetStatus(task, i, "returned")
<1>1. /\ task' = SetResult(t, i, r)
      /\ UNCHANGED <<priv, fields, held, clientRefs>>
  BY DEF Return, SetStatus, SetResult
<1>2. DOMAIN task = Lookup /\ \A j \in Lookup : IsLookup(task[j])
  BY DEF IInv, Lookups
<1>3. /\ DOMAIN t = Lookup /\ t[i].status = "returned" /\ t[i].asked = task[i].asked
      /\ \A j \in Lookup : IsLookup(t[j]) /\ (j # i => t[j] = task[j])
  BY <1>2, StatusSet
<1> HIDE DEF t
<1>4. /\ task'[i].result = r /\ task'[i].status = "returned" /\ task'[i].asked = task[i].asked
      /\ \A j \in Lookup : j # i => task'[j] = task[j]
  BY <1>1, <1>3, ResultSet
<1>5. LookupOK(task'[i])
  BY <1>4 DEF AInv, LookupOK
<1>6. FieldsOK'
  BY <1>1 DEF AInv, FieldsOK
<1> QED
  BY <1>4, <1>5, <1>6 DEF AInv

LEMMA CompletesAnswers ==
  ASSUME IInv, AInv, NEW i \in Lookup, Completes(i)
  PROVE  AInv'
<1>1. /\ task' = SetStatus(task, i, "done") /\ UNCHANGED <<priv, held>>
      /\ clientRefs' \in {clientRefs, clientRefs - 1}
      /\ clientRefs' # clientRefs => clientRefs > 0
  BY DEF Completes, CompletesFailure, CompletesFound, Finished, Release, SetStatus
<1>2. DOMAIN task = Lookup /\ \A j \in Lookup : IsLookup(task[j])
  BY DEF IInv, Lookups
<1>3. /\ task'[i].status = "done" /\ task'[i].asked = task[i].asked
      /\ task'[i].result = task[i].result
      /\ \A j \in Lookup : j # i => task'[j] = task[j]
  BY <1>1, <1>2, StatusSet
<1>4. LookupOK(task'[i])
  BY <1>3 DEF AInv, LookupOK
<1>5. clientRefs' \in 0..MaxAttach
  BY <1>1, MaxAttachType DEF AInv, FieldsOK
<1>6. ResultOK(task[i].result)
  BY DEF AInv, LookupOK
<1>7. /\ port' \in Port \cup {0} /\ address' \in Address \cup {None}
      /\ txt' \in Txt \cup {None} /\ resolved' \in BOOLEAN
  BY <1>6 DEF Completes, CompletesFailure, CompletesFound, Fill, ResultOK, AInv, FieldsOK
<1>8. FieldsOK'
  BY <1>1, <1>5, <1>7 DEF AInv, FieldsOK
<1> QED
  BY <1>3, <1>4, <1>8 DEF AInv

LEMMA AnswersStay == IInv /\ AInv /\ [Next]_vars => AInv'
<1> SUFFICES ASSUME IInv, AInv, [Next]_vars PROVE AInv'
  OBVIOUS
<1>1. ASSUME NEW p \in Settings, SetProperty(p) PROVE AInv'
  BY <1>1 DEF SetProperty, AInv, FieldsOK
<1>2. CASE Drop
  <2>1. clientRefs' \in 0..MaxAttach
    BY <1>2, MaxAttachType DEF Drop, Release, AInv, FieldsOK
  <2> QED
    BY <1>2, <2>1 DEF Drop, AInv, FieldsOK
<1>3. ASSUME NEW i \in Lookup, Thread(i) PROVE AInv'
  <2>1. ASSUME NEW e \in GaError, Return(i, Failed(e)) PROVE AInv'
    <3>1. ResultOK(Failed(e)) /\ Answers(task[i].asked, Failed(e))
      BY DEF Failed, ResultOK, Answers
    <3> QED
      BY <2>1, <3>1, ReturnAnswers
  <2>2. ASSUME NEW s \in Announced[task[i].asked.name], NEW u \in Txt \cup {None},
               Return(i, AnswerOf(InFamily(s, task[i].asked.aprotocol), u, task[i].asked.aprotocol))
        PROVE  AInv'
    <3>1. PICK q \in Settings : q = task[i].asked
      BY DEF AInv, LookupOK
    <3>2. PICK r : r = AnswerOf(InFamily(s, q.aprotocol), u, q.aprotocol)
      OBVIOUS
    <3>3. ResultOK(r) /\ Answers(task[i].asked, r)
      <4>1. s \in Announced[q.name]
        BY <3>1
      <4>2. /\ r.error = "OK" /\ r.txt \in Txt \cup {None} /\ r.port \in Port \cup {0}
            /\ r.address \in Address \cup {None}
            /\ Answers(q, r)
        BY <3>2, <4>1, AnswerSelected DEF Answers
      <4> QED
        BY <3>1, <4>2 DEF ResultOK
    <3> QED
      BY <2>2, <3>1, <3>2, <3>3, ReturnAnswers
  <2> QED
    BY <1>3, <2>1, <2>2 DEF Thread, ThreadFails, ThreadAnswers
<1>4. CASE UNCHANGED vars
  BY <1>4 DEF vars, AInv, FieldsOK
<1> QED
  BY <1>1, <1>2, <1>3, <1>4, AttachAnswers, CompletesAnswers DEF Next

LEMMA AnswersInvariant == Spec => []AInv
<1> QED
  BY AnswersStart, AnswersStay, ResolverInvariant, PTL DEF Spec

\* Every field of the resolver and of its lookups keeps its type: no entry of an
\* answer, with or without a port or an address, yields anything else.
THEOREM ResolverTyped == Spec => []TypeOK
<1>1. IInv /\ AInv => TypeOK
  BY DEF IInv, Lookups, Completed, AInv, FieldsOK, LookupOK, ResultOK, TypeOK
<1> QED
  BY <1>1, ResolverInvariant, AnswersInvariant, PTL

\* The address of a lookup was announced for the name, and is of the protocol, its
\* attach asked for, whatever the application has set since (resolve_task_thread).
THEOREM EachAttachIsAnswered == Spec => []AnswersTheAttach
<1>1. AInv => AnswersTheAttach
  BY DEF AInv, LookupOK, Answers, AnswersTheAttach
<1> QED
  BY <1>1, AnswersInvariant, PTL

================================================================================
