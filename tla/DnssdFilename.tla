----------------------------- MODULE DnssdFilename ----------------------------
(***************************************************************************)
(* generate_dnssd_filename (ga-entry-group.c): the file a service is        *)
(* written to, computed from its name and its type one byte at a time.      *)
(*                                                                         *)
(* EntryGroup takes the result as its constant FileOf; this module says     *)
(* which values that constant can have: what a path may contain, and which  *)
(* services share one.                                                      *)
(***************************************************************************)
EXTENDS Naturals, FiniteSets, SequencesExt

CONSTANTS
  Alnum,       \* the letters and digits of ASCII that are told apart
  Other,       \* the bytes the code has no case for: "/", control, UTF-8
  Names,       \* the names and the types of services
  Types

Char == Alnum \cup {"-", "_", " ", "."} \cup Other

ASSUME CharsApart ==
  /\ Alnum \cap ({"-", "_", " ", ".", ".dnssd"} \cup Other) = {}
  /\ Other \cap {"-", "_", " ", ".", ".dnssd"} = {}

ASSUME InputType == Names \subseteq Seq(Char) /\ Types \subseteq Seq(Char)

VARIABLES
  name, type,  \* the arguments
  at,          \* the loop that runs: over "name", over "type", or none: "done"
  p,           \* the bytes it has passed
  filename     \* the string built so far; ".dnssd" stands for its six bytes

vars == <<name, type, at, p, filename>>

Init ==
  /\ name \in Names /\ type \in Types
  /\ at = "name" /\ p = 0 /\ filename = <<>>

Emit(s) == filename' = filename \o s

\* Mutant: what has no case is copied.
OfNameCopies(c) == IF c = " " THEN <<"_">> ELSE <<c>>

\* Mutant: underscores are treated as in a type.
OfNameAsType(c) ==
  IF c \in Alnum \cup {"-"} THEN <<c>> ELSE IF c \in {" ", "_"} THEN <<"-">> ELSE <<>>

\* What a byte of the name, and of the type, contributes.
OfName(c) ==
  IF c \in Alnum \cup {"-", "_"} THEN <<c>> ELSE IF c = " " THEN <<"_">> ELSE <<>>

\* Mutant: dots are dropped.
OfTypeDropsDots(c) ==
  IF c \in Alnum \cup {"-"} THEN <<c>> ELSE IF c = "_" THEN <<"-">> ELSE <<>>

OfType(c) ==
  IF c \in Alnum \cup {"-"} THEN <<c>> ELSE IF c \in {"_", "."} THEN <<"-">> ELSE <<>>

NameChar ==
  /\ at = "name" /\ p < Len(name)
  /\ Emit(OfName(name[p + 1])) /\ p' = p + 1
  /\ UNCHANGED <<name, type, at>>

NameEnds ==
  /\ at = "name" /\ p = Len(name)
  /\ Emit(<<"-">>) /\ at' = "type" /\ p' = 0
  /\ UNCHANGED <<name, type>>

TypeChar ==
  /\ at = "type" /\ p < Len(type)
  /\ Emit(OfType(type[p + 1])) /\ p' = p + 1
  /\ UNCHANGED <<name, type, at>>

TypeEnds ==
  /\ at = "type" /\ p = Len(type)
  /\ Emit(<<".dnssd">>) /\ at' = "done"
  /\ UNCHANGED <<name, type, p>>

Next == NameChar \/ NameEnds \/ TypeChar \/ TypeEnds

Spec == Init /\ [][Next]_vars

-----------------------------------------------------------------------------
(* Properties                                                              *)

Safe == Alnum \cup {"-", "_"}

(* The name is a single component of a path, never hidden, "." or "..", and  *)
(* the file is one that systemd-resolved reads: bytes of the service's name  *)
(* or type cannot lead out of /run/systemd/dnssd, and ".dnssd" is at the end *)
(* and nowhere else.                                                         *)
Contained ==
  /\ at # "done" => \A i \in DOMAIN filename : filename[i] \in Safe
  /\ at = "done" => /\ Len(filename) > 1 /\ Last(filename) = ".dnssd"
                    /\ \A i \in 1..(Len(filename) - 1) : filename[i] \in Safe

\* The reference: the bytes that are kept up to the i-th, and where they go.
NameDrops == Other \cup {"."}
TypeDrops == Other \cup {" "}
Kept(s, drop, i) == {j \in 1..i : s[j] \notin drop}
NamePlace(n, i)  == Cardinality(Kept(n, NameDrops, i))
TypePlace(t, i)  == Cardinality(Kept(t, TypeDrops, i))
Replace(c, from, to) == IF c \in from THEN to ELSE c

\* f is the name without the bytes dropped from it, a hyphen, the type without
\* the bytes dropped from it, and the suffix.
IsFilename(f, n, t) ==
  LET h == NamePlace(n, Len(n)) + 1 IN
  /\ Len(f) = h + TypePlace(t, Len(t)) + 1
  /\ \A i \in Kept(n, NameDrops, Len(n)) :
       f[NamePlace(n, i)] = Replace(n[i], {" "}, "_")
  /\ f[h] = "-"
  /\ \A i \in Kept(t, TypeDrops, Len(t)) :
       f[h + TypePlace(t, i)] = Replace(t[i], {"_", "."}, "-")
  /\ f[Len(f)] = ".dnssd"

(* The loops compute that: nothing is dropped or replaced that the two       *)
(* tables do not name, whatever stands next to it.                           *)
Computed == at = "done" => IsFilename(filename, name, type)

\* A name without the characters that are dropped or replaced, and a type
\* _service._protocol of labels with no hyphen first, last or beside another.
Plain(n) == \A i \in DOMAIN n : n[i] \in Safe
Label(t, first, last) ==
  /\ first <= last /\ t[first] \in Alnum /\ t[last] \in Alnum
  /\ \A i \in first..last : t[i] \in Alnum \cup {"-"}
  /\ \A i \in first..(last - 1) : t[i] = "-" => t[i + 1] # "-"
WellFormed(t) ==
  \E i \in 2..(Len(t) - 1) :
    /\ t[1] = "_" /\ t[i] = "." /\ t[i + 1] = "_"
    /\ Label(t, 2, i - 1) /\ Label(t, i + 2, Len(t))

(* "Use name and type to create a unique filename" (ga-entry-group.c:472):   *)
(* two services with plain names and well-formed types share a file only if  *)
(* they are the same service, although the hyphen that separates name from   *)
(* type is also a character of both.                                         *)
PlainIsUnique ==
  at = "done" /\ Plain(name) /\ WellFormed(type) =>
    \A n \in Names, t \in Types :
      Plain(n) /\ WellFormed(t) /\ IsFilename(filename, n, t) => n = name /\ t = type
===============================================================================
