-------------------------- MODULE DnssdFilenameProofs --------------------------
(***************************************************************************)
(* generate_dnssd_filename stays inside the directory, computes what the    *)
(* reference says, and tells plain names and well-formed types apart, for   *)
(* every name and every type.                                               *)
(***************************************************************************)
EXTENDS DnssdFilename, FiniteSetTheorems, TLAPS

Token == Char \cup {".dnssd"}

TypeInv ==
  /\ name \in Seq(Char) /\ type \in Seq(Char)
  /\ at \in {"name", "type", "done"}
  /\ p \in Nat
  /\ filename \in Seq(Token)

\* The hyphen between name and type makes the file longer than its suffix.
Hyphenated == at = "type" => Len(filename) > 0

IInv == TypeInv /\ Hyphenated /\ Contained

\* A byte of the name or of the type becomes at most one safe byte
\* (the two chains of conditions at ga-entry-group.c:474 and 484).
LEMMA SafePieces ==
  ASSUME NEW c \in Char
  PROVE  OfName(c) \in Seq(Safe) /\ OfType(c) \in Seq(Safe)
<1>1. <<>> \in Seq(Safe) /\ \A s \in Safe : <<s>> \in Seq(Safe)
  OBVIOUS
<1>2. OfName(c) = <<>> \/ \E s \in Safe : OfName(c) = <<s>>
  BY DEF OfName, Safe
<1>3. OfType(c) = <<>> \/ \E s \in Safe : OfType(c) = <<s>>
  BY DEF OfType, Safe
<1> QED
  BY <1>1, <1>2, <1>3

\* Safe bytes appended to safe bytes are safe.
LEMMA SafeAppended ==
  ASSUME NEW f \in Seq(Token), NEW s \in Seq(Safe),
         \A i \in DOMAIN f : f[i] \in Safe
  PROVE  /\ f \o s \in Seq(Token)
         /\ \A i \in DOMAIN (f \o s) : (f \o s)[i] \in Safe
         /\ Len(f \o s) = Len(f) + Len(s)
<1>1. Safe \subseteq Token
  BY DEF Safe, Token, Char
<1>2. f \in Seq(Safe)
  OBVIOUS
<1>3. f \o s \in Seq(Safe)
  BY <1>2
<1> QED
  BY <1>1, <1>3

LEMMA StartsSafe == Init => IInv
  BY InputType DEF Init, IInv, TypeInv, Hyphenated, Contained, Token

LEMMA StaysSafe == IInv /\ [Next]_vars => IInv'
<1> SUFFICES ASSUME IInv, [Next]_vars PROVE IInv'
  OBVIOUS
<1> USE DEF IInv, TypeInv, Hyphenated, Contained
<1>1. CASE NameChar
  <2>1. name[p + 1] \in Char
    BY <1>1 DEF NameChar
  <2>2. OfName(name[p + 1]) \in Seq(Safe)
    BY <2>1, SafePieces
  <2> QED
    BY <1>1, <2>2, SafeAppended DEF NameChar, Emit
<1>2. CASE NameEnds
  <2> DEFINE f == filename \o <<"-">>
  <2>1. "-" \in Safe
    BY DEF Safe
  <2>2. <<"-">> \in Seq(Safe) /\ Len(<<"-">>) = 1
    BY <2>1
  <2>3. /\ at = "name" /\ at' = "type" /\ p' = 0 /\ filename' = f
        /\ name' = name /\ type' = type
    BY <1>2 DEF NameEnds, Emit
  <2>4. /\ f \in Seq(Token) /\ Len(f) = Len(filename) + 1
        /\ \A i \in DOMAIN f : f[i] \in Safe
    BY <2>2, <2>3, SafeAppended
  <2> QED
    BY <2>3, <2>4
<1>3. CASE TypeChar
  <2>1. type[p + 1] \in Char
    BY <1>3 DEF TypeChar
  <2>2. OfType(type[p + 1]) \in Seq(Safe)
    BY <2>1, SafePieces
  <2> QED
    BY <1>3, <2>2, SafeAppended DEF TypeChar, Emit
<1>4. CASE TypeEnds
  <2>1. filename' = filename \o <<".dnssd">> /\ at' = "done"
    BY <1>4 DEF TypeEnds, Emit
  <2>2. \A i \in DOMAIN filename : filename[i] \in Safe
    BY <1>4 DEF TypeEnds
  <2>3. /\ filename' \in Seq(Token) /\ Len(filename') = Len(filename) + 1
        /\ filename'[Len(filename) + 1] = ".dnssd"
        /\ \A i \in 1..Len(filename) : filename'[i] = filename[i]
    BY <2>1 DEF Token
  <2>4. Last(filename') = ".dnssd"
    BY <2>3 DEF Last
  <2> QED
    BY <1>4, <2>1, <2>2, <2>3, <2>4 DEF TypeEnds
<1>5. CASE UNCHANGED vars
  BY <1>5 DEF vars
<1> QED
  BY <1>1, <1>2, <1>3, <1>4, <1>5 DEF Next

\* Whatever bytes a service's name and type consist of, "/" and "." included,
\* the generated file name is one visible component of a path with ".dnssd" at
\* its end only: commit writes, and cleanup removes, nothing outside
\* /run/systemd/dnssd.
THEOREM StaysInDirectory == Spec => []Contained
<1>1. IInv => Contained
  BY DEF IInv
<1> QED
  BY <1>1, StartsSafe, StaysSafe, PTL DEF Spec

-----------------------------------------------------------------------------
(* The places of the bytes that are kept                                   *)

\* One more byte is one more place, or none.
LEMMA OnePlaceMore ==
  ASSUME NEW s, NEW drop, NEW i \in Nat
  PROVE  /\ IsFiniteSet(Kept(s, drop, i)) /\ Cardinality(Kept(s, drop, i)) \in 0..i
         /\ Kept(s, drop, 0) = {} /\ Cardinality(Kept(s, drop, 0)) = 0
         /\ s[i + 1] \in drop =>
              Kept(s, drop, i + 1) = Kept(s, drop, i)
         /\ s[i + 1] \notin drop =>
              /\ Kept(s, drop, i + 1) = Kept(s, drop, i) \cup {i + 1}
              /\ Cardinality(Kept(s, drop, i + 1)) = Cardinality(Kept(s, drop, i)) + 1
<1>1. IsFiniteSet(1..i) /\ Cardinality(1..i) = i
  BY FS_Interval
<1>2. Kept(s, drop, i) \subseteq 1..i
  BY DEF Kept
<1>3. IsFiniteSet(Kept(s, drop, i)) /\ Cardinality(Kept(s, drop, i)) <= i
  BY <1>1, <1>2, FS_Subset
<1>4. Cardinality(Kept(s, drop, i)) \in Nat
  BY <1>3, FS_CardinalityType
<1>5. Kept(s, drop, 0) = {}
  BY DEF Kept
<1>6. 1..(i + 1) = (1..i) \cup {i + 1} /\ i + 1 \notin 1..i
  OBVIOUS
<1>7. ASSUME s[i + 1] \in drop PROVE Kept(s, drop, i + 1) = Kept(s, drop, i)
  BY <1>6, <1>7 DEF Kept
<1>8. ASSUME s[i + 1] \notin drop
      PROVE  /\ Kept(s, drop, i + 1) = Kept(s, drop, i) \cup {i + 1}
             /\ Cardinality(Kept(s, drop, i + 1)) = Cardinality(Kept(s, drop, i)) + 1
  <2>1. Kept(s, drop, i + 1) = Kept(s, drop, i) \cup {i + 1}
    BY <1>6, <1>8 DEF Kept
  <2>2. i + 1 \notin Kept(s, drop, i)
    BY <1>2, <1>6
  <2> QED
    BY <1>3, <2>1, <2>2, FS_AddElement
<1> QED
  BY <1>3, <1>4, <1>5, <1>7, <1>8, FS_EmptySet

\* A byte that is kept has a place of its own, among those of the bytes so far.
LEMMA PlaceInRange ==
  ASSUME NEW s, NEW drop, NEW k \in Nat, NEW i \in Kept(s, drop, k)
  PROVE  /\ i \in 1..k
         /\ Cardinality(Kept(s, drop, i)) \in 1..Cardinality(Kept(s, drop, k))
<1>1. i \in 1..k /\ s[i] \notin drop /\ i - 1 \in Nat /\ (i - 1) + 1 = i
  BY DEF Kept
<1>2. Cardinality(Kept(s, drop, i)) = Cardinality(Kept(s, drop, i - 1)) + 1
  <2>1. PICK j \in Nat : j = i - 1 /\ j + 1 = i
    BY <1>1
  <2> QED
    BY <1>1, <2>1, OnePlaceMore
<1>3. Cardinality(Kept(s, drop, i - 1)) \in Nat /\ Cardinality(Kept(s, drop, k)) \in Nat
  BY <1>1, OnePlaceMore
<1>4. Kept(s, drop, i) \subseteq Kept(s, drop, k) /\ IsFiniteSet(Kept(s, drop, k))
  <2>1. 1..i \subseteq 1..k
    BY <1>1
  <2>2. IsFiniteSet(Kept(s, drop, k))
    BY OnePlaceMore
  <2> QED
    BY <2>1, <2>2 DEF Kept
<1>5. Cardinality(Kept(s, drop, i)) <= Cardinality(Kept(s, drop, k))
  BY <1>4, FS_Subset
<1> QED
  BY <1>1, <1>2, <1>3, <1>5

-----------------------------------------------------------------------------
(* What the loops have computed so far                                     *)

\* The first k bytes of the name are written, ...
NameWritten(f, n, k) ==
  \A i \in Kept(n, NameDrops, k) : f[NamePlace(n, i)] = Replace(n[i], {" "}, "_")

\* ... and the first k of the type, after h others.
TypeWritten(f, t, k, h) ==
  \A i \in Kept(t, TypeDrops, k) : f[h + TypePlace(t, i)] = Replace(t[i], {"_", "."}, "-")

Separator == NamePlace(name, Len(name)) + 1

Progress ==
  /\ at = "name" => /\ p <= Len(name) /\ Len(filename) = NamePlace(name, p)
                    /\ NameWritten(filename, name, p)
  /\ at = "type" => /\ p <= Len(type) /\ Len(filename) = Separator + TypePlace(type, p)
                    /\ NameWritten(filename, name, Len(name))
                    /\ filename[Separator] = "-"
                    /\ TypeWritten(filename, type, p, Separator)
  /\ at = "done" => IsFilename(filename, name, type)

\* What one byte contributes is what the reference says of it.
LEMMA OneByte ==
  ASSUME NEW c \in Char
  PROVE  /\ OfName(c) = IF c \in NameDrops THEN <<>> ELSE <<Replace(c, {" "}, "_")>>
         /\ OfType(c) = IF c \in TypeDrops THEN <<>> ELSE <<Replace(c, {"_", "."}, "-")>>
BY CharsApart DEF Char, OfName, OfType, NameDrops, TypeDrops, Replace

LEMMA Appended ==
  ASSUME NEW f \in Seq(Token), NEW c \in Token
  PROVE  /\ f \o <<>> = f
         /\ Len(f \o <<c>>) = Len(f) + 1 /\ (f \o <<c>>)[Len(f) + 1] = c
         /\ \A i \in 1..Len(f) : (f \o <<c>>)[i] = f[i]
OBVIOUS

LEMMA ProgressStarts == Init => Progress
<1> SUFFICES ASSUME Init PROVE Progress
  OBVIOUS
<1>1. name \in Seq(Char) /\ at = "name" /\ p = 0 /\ filename = <<>>
  BY InputType DEF Init
<1>2. NamePlace(name, 0) = 0 /\ Kept(name, NameDrops, 0) = {}
  BY OnePlaceMore DEF NamePlace
<1>3. NameWritten(filename, name, p)
  BY <1>1, <1>2 DEF NameWritten
<1>4. p <= Len(name) /\ Len(filename) = NamePlace(name, p)
  BY <1>1, <1>2
<1> QED
  BY <1>1, <1>3, <1>4 DEF Progress

\* A byte of the name is passed: the places of the earlier ones stay.
LEMMA NameProgress ==
  ASSUME IInv, Progress, NameChar
  PROVE  Progress'
<1>1. /\ at = "name" /\ at' = "name" /\ p \in Nat /\ p' = p + 1 /\ p + 1 <= Len(name)
      /\ filename \in Seq(Token) /\ name' = name /\ name[p + 1] \in Char
      /\ filename' = filename \o OfName(name[p + 1])
      /\ Len(filename) = NamePlace(name, p) /\ NameWritten(filename, name, p)
  BY DEF NameChar, Emit, IInv, TypeInv, Progress
<1> DEFINE c == Replace(name[p + 1], {" "}, "_")
<1>2. ASSUME name[p + 1] \in NameDrops PROVE Progress'
  <2>1. filename' = filename
    <3>1. OfName(name[p + 1]) = <<>>
      BY <1>1, <1>2, OneByte
    <3> QED
      BY <1>1, <3>1
  <2>2. Kept(name, NameDrops, p + 1) = Kept(name, NameDrops, p)
    BY <1>1, <1>2, OnePlaceMore
  <2>3. NamePlace(name, p + 1) = NamePlace(name, p)
    BY <2>2 DEF NamePlace
  <2> QED
    BY <1>1, <2>1, <2>2, <2>3 DEF Progress, NameWritten
<1>3. ASSUME name[p + 1] \notin NameDrops PROVE Progress'
  <2>1. filename' = filename \o <<c>> /\ c \in Token
    BY <1>1, <1>3, OneByte DEF Token, Char, Replace
  <2>2. /\ Kept(name, NameDrops, p + 1) = Kept(name, NameDrops, p) \cup {p + 1}
        /\ NamePlace(name, p + 1) = NamePlace(name, p) + 1
    BY <1>1, <1>3, OnePlaceMore DEF NamePlace
  <2>3. \A i \in Kept(name, NameDrops, p) : NamePlace(name, i) \in 1..Len(filename)
    BY <1>1, PlaceInRange DEF NamePlace
  <2> HIDE DEF c
  <2>4. /\ Len(filename') = Len(filename) + 1 /\ filename'[Len(filename) + 1] = c
        /\ \A i \in 1..Len(filename) : filename'[i] = filename[i]
    BY <1>1, <2>1, Appended
  <2>5. NameWritten(filename', name, p + 1)
    BY <1>1, <2>2, <2>3, <2>4 DEF NameWritten, c
  <2> QED
    BY <1>1, <2>2, <2>4, <2>5 DEF Progress
<1> QED
  BY <1>2, <1>3

LEMMA SeparatorProgress ==
  ASSUME IInv, Progress, NameEnds
  PROVE  Progress'
<1>1. /\ at' = "type" /\ p' = 0 /\ name' = name /\ type' = type
      /\ name \in Seq(Char) /\ type \in Seq(Char) /\ filename \in Seq(Token)
      /\ filename' = filename \o <<"-">> /\ "-" \in Token
      /\ Len(filename) = NamePlace(name, Len(name)) /\ NameWritten(filename, name, Len(name))
  BY DEF NameEnds, Emit, IInv, TypeInv, Progress, Token, Char
<1>2. /\ Len(filename') = Len(filename) + 1 /\ filename'[Len(filename) + 1] = "-"
      /\ \A i \in 1..Len(filename) : filename'[i] = filename[i]
  BY <1>1, Appended
<1>3. Kept(type, TypeDrops, 0) = {} /\ TypePlace(type, 0) = 0 /\ Len(filename) \in Nat
  BY <1>1, OnePlaceMore DEF TypePlace
<1>4. \A i \in Kept(name, NameDrops, Len(name)) : NamePlace(name, i) \in 1..Len(filename)
  BY <1>1, PlaceInRange DEF NamePlace
<1>5. NameWritten(filename', name, Len(name))
  BY <1>1, <1>2, <1>4 DEF NameWritten
<1>6. Separator' = Separator /\ Separator = Len(filename) + 1
  BY <1>1 DEF Separator
<1>7. TypeWritten(filename', type, 0, Separator)
  BY <1>3 DEF TypeWritten
<1> QED
  BY <1>1, <1>2, <1>3, <1>5, <1>6, <1>7 DEF Progress

LEMMA TypeProgress ==
  ASSUME IInv, Progress, TypeChar
  PROVE  Progress'
<1>1. /\ at = "type" /\ at' = "type" /\ p \in Nat /\ p' = p + 1 /\ p + 1 <= Len(type)
      /\ filename \in Seq(Token) /\ name' = name /\ type' = type /\ type[p + 1] \in Char
      /\ name \in Seq(Char)
      /\ filename' = filename \o OfType(type[p + 1])
      /\ Len(filename) = Separator + TypePlace(type, p)
      /\ NameWritten(filename, name, Len(name)) /\ filename[Separator] = "-"
      /\ TypeWritten(filename, type, p, Separator)
  BY DEF TypeChar, Emit, IInv, TypeInv, Progress
<1> DEFINE c == Replace(type[p + 1], {"_", "."}, "-")
<1>2. Separator' = Separator /\ Separator \in Nat /\ Separator > 0
      /\ TypePlace(type, p) \in Nat
  BY <1>1, OnePlaceMore DEF Separator, NamePlace, TypePlace
<1>s. NamePlace(name, Len(name)) \in Nat /\ NamePlace(name, Len(name)) < Separator
  BY <1>1, OnePlaceMore DEF Separator, NamePlace
<1>3. ASSUME type[p + 1] \in TypeDrops PROVE Progress'
  <2>1. filename' = filename
    <3>1. OfType(type[p + 1]) = <<>>
      BY <1>1, <1>3, OneByte
    <3> QED
      BY <1>1, <3>1
  <2>2. Kept(type, TypeDrops, p + 1) = Kept(type, TypeDrops, p)
    BY <1>1, <1>3, OnePlaceMore
  <2>3. TypePlace(type, p + 1) = TypePlace(type, p)
    BY <2>2 DEF TypePlace
  <2> QED
    BY <1>1, <1>2, <2>1, <2>2, <2>3 DEF Progress, TypeWritten
<1>4. ASSUME type[p + 1] \notin TypeDrops PROVE Progress'
  <2>1. filename' = filename \o <<c>> /\ c \in Token
    BY <1>1, <1>4, OneByte DEF Token, Char, Replace
  <2>2. /\ Kept(type, TypeDrops, p + 1) = Kept(type, TypeDrops, p) \cup {p + 1}
        /\ TypePlace(type, p + 1) = TypePlace(type, p) + 1
    BY <1>1, <1>4, OnePlaceMore DEF TypePlace
  <2>3. \A i \in Kept(type, TypeDrops, p) : Separator + TypePlace(type, i) \in 1..Len(filename)
    <3>1. \A i \in Kept(type, TypeDrops, p) : TypePlace(type, i) \in 1..TypePlace(type, p)
      BY <1>1, PlaceInRange DEF TypePlace
    <3> QED
      BY <1>1, <1>2, <3>1
  <2>4. \A i \in Kept(name, NameDrops, Len(name)) : NamePlace(name, i) \in 1..Len(filename)
    <3>1. \A i \in Kept(name, NameDrops, Len(name)) :
            NamePlace(name, i) \in 1..NamePlace(name, Len(name))
      BY <1>1, PlaceInRange DEF NamePlace
    <3> QED
      BY <1>1, <1>2, <1>s, <3>1
  <2> HIDE DEF c
  <2>5. /\ Len(filename') = Len(filename) + 1 /\ filename'[Len(filename) + 1] = c
        /\ \A i \in 1..Len(filename) : filename'[i] = filename[i]
    BY <1>1, <2>1, Appended
  <2>6. TypeWritten(filename', type, p + 1, Separator)
    <3>1. Separator + TypePlace(type, p + 1) = Len(filename) + 1
      BY <1>1, <1>2, <2>2
    <3>2. filename'[Separator + TypePlace(type, p + 1)] = c
      BY <2>5, <3>1
    <3>3. \A i \in Kept(type, TypeDrops, p) :
            filename'[Separator + TypePlace(type, i)] = Replace(type[i], {"_", "."}, "-")
      BY <1>1, <2>3, <2>5 DEF TypeWritten
    <3> QED
      BY <2>2, <3>2, <3>3 DEF TypeWritten, c
  <2>7. NameWritten(filename', name, Len(name)) /\ filename'[Separator] = "-"
    <3>1. Separator \in 1..Len(filename)
      BY <1>1, <1>2
    <3> QED
      BY <1>1, <2>4, <2>5, <3>1 DEF NameWritten
  <2> QED
    BY <1>1, <1>2, <2>2, <2>5, <2>6, <2>7 DEF Progress
<1> QED
  BY <1>3, <1>4

LEMMA SuffixProgress ==
  ASSUME IInv, Progress, TypeEnds
  PROVE  Progress'
<1>1. /\ at' = "done" /\ name' = name /\ type' = type
      /\ filename \in Seq(Token) /\ name \in Seq(Char) /\ type \in Seq(Char)
      /\ filename' = filename \o <<".dnssd">>
      /\ Len(filename) = Separator + TypePlace(type, Len(type))
      /\ NameWritten(filename, name, Len(name)) /\ filename[Separator] = "-"
      /\ TypeWritten(filename, type, Len(type), Separator)
  BY DEF TypeEnds, Emit, IInv, TypeInv, Progress
<1>2. Separator \in Nat /\ Separator > 0 /\ TypePlace(type, Len(type)) \in Nat
  BY <1>1, OnePlaceMore DEF Separator, NamePlace, TypePlace
<1>s. NamePlace(name, Len(name)) \in Nat /\ NamePlace(name, Len(name)) < Separator
  BY <1>1, OnePlaceMore DEF Separator, NamePlace
<1>3. /\ Len(filename') = Len(filename) + 1 /\ filename'[Len(filename) + 1] = ".dnssd"
      /\ \A i \in 1..Len(filename) : filename'[i] = filename[i]
  BY <1>1, Appended DEF Token
<1>4. \A i \in Kept(type, TypeDrops, Len(type)) : Separator + TypePlace(type, i) \in 1..Len(filename)
  <2>1. \A i \in Kept(type, TypeDrops, Len(type)) : TypePlace(type, i) \in 1..TypePlace(type, Len(type))
    BY <1>1, PlaceInRange DEF TypePlace
  <2> QED
    BY <1>1, <1>2, <2>1
<1>5. \A i \in Kept(name, NameDrops, Len(name)) : NamePlace(name, i) \in 1..Len(filename)
  <2>1. \A i \in Kept(name, NameDrops, Len(name)) :
          NamePlace(name, i) \in 1..NamePlace(name, Len(name))
    BY <1>1, PlaceInRange DEF NamePlace
  <2> QED
    BY <1>1, <1>2, <1>s, <2>1
<1>6. /\ NameWritten(filename', name, Len(name)) /\ filename'[Separator] = "-"
      /\ TypeWritten(filename', type, Len(type), Separator)
  <2>1. Separator \in 1..Len(filename)
    BY <1>1, <1>2
  <2>2. NameWritten(filename', name, Len(name)) /\ filename'[Separator] = "-"
    BY <1>1, <1>3, <1>5, <2>1 DEF NameWritten
  <2>3. TypeWritten(filename', type, Len(type), Separator)
    BY <1>1, <1>3, <1>4 DEF TypeWritten
  <2> QED
    BY <2>2, <2>3
<1>7. IsFilename(filename', name, type)
  BY <1>1, <1>2, <1>3, <1>6
     DEF IsFilename, NameWritten, TypeWritten, Separator
<1> QED
  BY <1>1, <1>7 DEF Progress

LEMMA ProgressStays == IInv /\ Progress /\ [Next]_vars => Progress'
<1> SUFFICES ASSUME IInv, Progress, [Next]_vars PROVE Progress'
  OBVIOUS
<1>1. CASE UNCHANGED vars
  BY <1>1 DEF vars, Progress, Separator
<1> QED
  BY <1>1, NameProgress, SeparatorProgress, TypeProgress, SuffixProgress DEF Next

\* The file name is the name and the type without the bytes that have no case in
\* the two chains, the others replaced as they say and kept in their order.
THEOREM LoopsCompute == Spec => []Computed
<1>1. Progress => Computed
  BY DEF Progress, Computed
<1> QED
  BY <1>1, StartsSafe, StaysSafe, ProgressStarts, ProgressStays, PTL DEF Spec

-----------------------------------------------------------------------------
(* Plain names and well-formed types                                       *)

\* When nothing is dropped every byte keeps its place.
LEMMA NothingDropped ==
  ASSUME NEW s \in Seq(Char), NEW drop, \A i \in DOMAIN s : s[i] \notin drop,
         NEW i \in 0..Len(s)
  PROVE  /\ Kept(s, drop, i) = 1..i
         /\ Cardinality(Kept(s, drop, i)) = i
<1>1. \A j \in 1..i : j \in DOMAIN s
  OBVIOUS
<1>2. Kept(s, drop, i) = 1..i
  BY <1>1 DEF Kept
<1>3. i \in Nat /\ Cardinality(1..i) = i
  BY FS_Interval
<1> QED
  BY <1>2, <1>3

\* The last label of a type, or the first, between two hyphens and the place e.
LabelEndsAt(f, a, e) ==
  /\ a \in Nat /\ e \in Nat /\ a > 2 /\ a <= e
  /\ f[a - 2] = "-" /\ f[a - 1] = "-" /\ f[a] \in Alnum
  /\ \A i \in a..(e - 1) : f[i] = "-" => f[i + 1] # "-"

\* There is one place where it can begin.
LEMMA OneLabel ==
  ASSUME NEW f, NEW a, NEW b, NEW e, LabelEndsAt(f, a, e), LabelEndsAt(f, b, e)
  PROVE  a = b
<1>1. ASSUME NEW x, NEW y, LabelEndsAt(f, x, e), LabelEndsAt(f, y, e), x < y
      PROVE  FALSE
  <2>1. x # y - 1
    <3>1. "-" \notin Alnum
      BY CharsApart
    <3> QED
      BY <1>1, <3>1 DEF LabelEndsAt
  <2>2. y - 2 \in x..(e - 1) /\ (y - 2) + 1 = y - 1
    BY <1>1, <2>1 DEF LabelEndsAt
  <2> QED
    BY <1>1, <2>2 DEF LabelEndsAt
<1>2. a \in Nat /\ b \in Nat
  BY DEF LabelEndsAt
<1>3. ~(a < b) /\ ~(b < a)
  BY <1>1
<1> QED
  BY <1>2, <1>3

\* Where the parts of a plain name and a well-formed type are in their file; i
\* is the place of the dot.
PartsOf(f, n, t, i) ==
  /\ i \in 3..(Len(t) - 2) /\ t[1] = "_" /\ t[i] = "." /\ t[i + 1] = "_"
  /\ Len(f) = Len(n) + 1 + Len(t) + 1
  /\ \A j \in 1..Len(n) : f[j] = n[j]
  /\ \A j \in 2..(i - 1) : f[Len(n) + 1 + j] = t[j]
  /\ \A j \in (i + 2)..Len(t) : f[Len(n) + 1 + j] = t[j]
  /\ LabelEndsAt(f, Len(n) + 3, Len(n) + i)
  /\ LabelEndsAt(f, Len(n) + i + 3, Len(n) + 1 + Len(t))

LEMMA PlainParts ==
  ASSUME NEW f, NEW n \in Seq(Char), NEW t \in Seq(Char),
         Plain(n), WellFormed(t), IsFilename(f, n, t)
  PROVE  \E i \in Nat : PartsOf(f, n, t, i)
<1>1. PICK i \in 2..(Len(t) - 1) :
        /\ t[1] = "_" /\ t[i] = "." /\ t[i + 1] = "_"
        /\ Label(t, 2, i - 1) /\ Label(t, i + 2, Len(t))
  BY DEF WellFormed
<1>2. i \in 3..(Len(t) - 2) /\ Len(t) \in Nat /\ Len(n) \in Nat
  <2>1. 2 <= i - 1 /\ i + 2 <= Len(t)
    BY <1>1 DEF Label
  <2>2. Len(t) \in Nat /\ Len(n) \in Nat
    OBVIOUS
  <2> QED
    BY <2>1, <2>2
<1>3. /\ \A j \in 2..(i - 1) : t[j] \in Alnum \cup {"-"}
      /\ \A j \in (i + 2)..Len(t) : t[j] \in Alnum \cup {"-"}
      /\ \A j \in 2..(i - 2) : t[j] = "-" => t[j + 1] # "-"
      /\ \A j \in (i + 2)..(Len(t) - 1) : t[j] = "-" => t[j + 1] # "-"
      /\ t[2] \in Alnum /\ t[i + 2] \in Alnum
  <2>1. (i - 1) - 1 = i - 2
    BY <1>2
  <2> QED
    BY <1>1, <2>1 DEF Label
<1>4. \A j \in DOMAIN n : n[j] \notin NameDrops /\ n[j] \notin {" "}
  BY CharsApart DEF Plain, Safe, NameDrops
<1>5. \A j \in DOMAIN t : t[j] \notin TypeDrops
  <2>1. ASSUME NEW j \in DOMAIN t PROVE t[j] \in Alnum \cup {"-", "_", "."}
    <3>1. j = 1 \/ j = i \/ j = i + 1 \/ j \in 2..(i - 1) \/ j \in (i + 2)..Len(t)
      BY <1>2
    <3> QED
      BY <1>1, <1>3, <3>1
  <2> QED
    BY <2>1, CharsApart DEF TypeDrops
<1>6. /\ Kept(n, NameDrops, Len(n)) = 1..Len(n)
      /\ \A j \in 0..Len(n) : NamePlace(n, j) = j
  <2>1. ASSUME NEW j \in 0..Len(n) PROVE Kept(n, NameDrops, j) = 1..j /\ NamePlace(n, j) = j
    BY <1>4, NothingDropped DEF NamePlace
  <2> QED
    BY <1>2, <2>1
<1>7. /\ Kept(t, TypeDrops, Len(t)) = 1..Len(t)
      /\ \A j \in 0..Len(t) : TypePlace(t, j) = j
  <2>1. ASSUME NEW j \in 0..Len(t) PROVE Kept(t, TypeDrops, j) = 1..j /\ TypePlace(t, j) = j
    BY <1>5, NothingDropped DEF TypePlace
  <2> QED
    BY <1>2, <2>1
<1>8. NamePlace(n, Len(n)) + 1 = Len(n) + 1 /\ TypePlace(t, Len(t)) = Len(t)
  BY <1>2, <1>6, <1>7
<1>9. /\ Len(f) = Len(n) + 1 + Len(t) + 1
      /\ \A j \in 1..Len(n) : f[j] = n[j]
      /\ f[Len(n) + 1] = "-"
      /\ \A j \in 1..Len(t) : f[Len(n) + 1 + j] = Replace(t[j], {"_", "."}, "-")
  <2>1. \A j \in 1..Len(n) : NamePlace(n, j) = j /\ Replace(n[j], {" "}, "_") = n[j]
    <3>1. ASSUME NEW j \in 1..Len(n)
          PROVE  NamePlace(n, j) = j /\ Replace(n[j], {" "}, "_") = n[j]
      <4>1. j \in DOMAIN n /\ j \in 0..Len(n)
        OBVIOUS
      <4> QED
        BY <1>4, <1>6, <4>1 DEF Replace
    <3> QED
      BY <3>1
  <2>2. \A j \in 1..Len(t) : TypePlace(t, j) = j
    BY <1>2, <1>7
  <2> QED
    BY <1>6, <1>7, <1>8, <2>1, <2>2 DEF IsFilename
<1>10. /\ f[Len(n) + 1 + 1] = "-" /\ f[Len(n) + 1 + i] = "-" /\ f[Len(n) + 1 + (i + 1)] = "-"
  <2>1. 1 \in 1..Len(t) /\ i \in 1..Len(t) /\ i + 1 \in 1..Len(t)
    BY <1>2
  <2>2. Replace("_", {"_", "."}, "-") = "-" /\ Replace(".", {"_", "."}, "-") = "-"
    BY DEF Replace
  <2> QED
    BY <1>1, <1>9, <2>1, <2>2
<1>11. /\ \A j \in 2..(i - 1) : f[Len(n) + 1 + j] = t[j]
       /\ \A j \in (i + 2)..Len(t) : f[Len(n) + 1 + j] = t[j]
  <2>1. \A c \in Alnum \cup {"-"} : Replace(c, {"_", "."}, "-") = c
    BY CharsApart DEF Replace
  <2>2. \A j \in 2..(i - 1) : j \in 1..Len(t)
    BY <1>2
  <2>3. \A j \in (i + 2)..Len(t) : j \in 1..Len(t)
    BY <1>2
  <2> QED
    BY <1>3, <1>9, <2>1, <2>2, <2>3
<1>12. LabelEndsAt(f, Len(n) + 3, Len(n) + i)
  <2>1. f[Len(n) + 3] \in Alnum
    <3>1. 2 \in 2..(i - 1) /\ Len(n) + 1 + 2 = Len(n) + 3
      BY <1>2
    <3>2. f[Len(n) + 1 + 2] = t[2]
      BY <1>11, <3>1
    <3> QED
      BY <1>3, <3>1, <3>2
  <2>2. ASSUME NEW k \in (Len(n) + 3)..(Len(n) + i - 1), f[k] = "-" PROVE f[k + 1] # "-"
    <3>1. PICK j \in 2..(i - 2) : k = Len(n) + 1 + j
      <4>1. k - Len(n) - 1 \in 2..(i - 2) /\ k = Len(n) + 1 + (k - Len(n) - 1)
        BY <1>2
      <4> QED
        BY <4>1
    <3>2. f[k] = t[j] /\ f[k + 1] = t[j + 1]
      <4>1. j \in 2..(i - 1) /\ j + 1 \in 2..(i - 1) /\ k + 1 = Len(n) + 1 + (j + 1)
        BY <1>2, <3>1
      <4> QED
        BY <1>11, <3>1, <4>1
    <3> QED
      BY <1>3, <2>2, <3>2
  <2>3. /\ Len(n) + 3 \in Nat /\ Len(n) + i \in Nat
        /\ Len(n) + 3 > 2 /\ Len(n) + 3 <= Len(n) + i
        /\ (Len(n) + 3) - 2 = Len(n) + 1 /\ (Len(n) + 3) - 1 = Len(n) + 1 + 1
    BY <1>2
  <2> QED
    <3>1. f[(Len(n) + 3) - 2] = "-" /\ f[(Len(n) + 3) - 1] = "-"
      BY <1>9, <1>10, <2>3
    <3> QED
      BY <2>1, <2>2, <2>3, <3>1 DEF LabelEndsAt
<1>13. LabelEndsAt(f, Len(n) + i + 3, Len(n) + 1 + Len(t))
  <2>1. f[Len(n) + i + 3] \in Alnum
    <3>1. i + 2 \in (i + 2)..Len(t) /\ Len(n) + 1 + (i + 2) = Len(n) + i + 3
      BY <1>2
    <3>2. f[Len(n) + 1 + (i + 2)] = t[i + 2]
      BY <1>11, <3>1
    <3> QED
      BY <1>3, <3>1, <3>2
  <2>2. ASSUME NEW k \in (Len(n) + i + 3)..(Len(n) + 1 + Len(t) - 1), f[k] = "-"
        PROVE  f[k + 1] # "-"
    <3>1. PICK j \in (i + 2)..(Len(t) - 1) : k = Len(n) + 1 + j
      <4>1. k - Len(n) - 1 \in (i + 2)..(Len(t) - 1) /\ k = Len(n) + 1 + (k - Len(n) - 1)
        BY <1>2
      <4> QED
        BY <4>1
    <3>2. f[k] = t[j] /\ f[k + 1] = t[j + 1]
      <4>1. j \in (i + 2)..Len(t) /\ j + 1 \in (i + 2)..Len(t) /\ k + 1 = Len(n) + 1 + (j + 1)
        BY <1>2, <3>1
      <4> QED
        BY <1>11, <3>1, <4>1
    <3> QED
      BY <1>3, <2>2, <3>2
  <2>3. /\ Len(n) + i + 3 \in Nat /\ Len(n) + 1 + Len(t) \in Nat
        /\ Len(n) + i + 3 > 2 /\ Len(n) + i + 3 <= Len(n) + 1 + Len(t)
        /\ (Len(n) + i + 3) - 2 = Len(n) + 1 + i
        /\ (Len(n) + i + 3) - 1 = Len(n) + 1 + (i + 1)
    BY <1>2
  <2> QED
    <3>1. f[(Len(n) + i + 3) - 2] = "-" /\ f[(Len(n) + i + 3) - 1] = "-"
      BY <1>10, <2>3
    <3> QED
      BY <2>1, <2>2, <2>3, <3>1 DEF LabelEndsAt
<1>14. /\ t[1] = "_" /\ t[i] = "." /\ t[i + 1] = "_"
       /\ Len(f) = Len(n) + 1 + Len(t) + 1
       /\ \A j \in 1..Len(n) : f[j] = n[j]
  BY <1>1, <1>9
<1>15. PartsOf(f, n, t, i)
  BY <1>2, <1>11, <1>12, <1>13, <1>14 DEF PartsOf
<1> QED
  BY <1>2, <1>15

\* The parts are read off the file from its end.
LEMMA PartsAreUnique ==
  ASSUME NEW f, NEW n \in Seq(Char), NEW t \in Seq(Char), NEW i \in Nat, PartsOf(f, n, t, i),
         NEW m \in Seq(Char), NEW u \in Seq(Char), NEW k \in Nat, PartsOf(f, m, u, k)
  PROVE  m = n /\ u = t
<1>1. Len(n) \in Nat /\ Len(t) \in Nat /\ Len(m) \in Nat /\ Len(u) \in Nat
  OBVIOUS
<1>2. Len(n) + 1 + Len(t) = Len(m) + 1 + Len(u)
  <2>1. Len(f) = Len(n) + 1 + Len(t) + 1
    BY DEF PartsOf
  <2>2. Len(f) = Len(m) + 1 + Len(u) + 1
    BY DEF PartsOf
  <2>3. PICK x \in Nat : x = Len(n) + 1 + Len(t)
    BY <1>1
  <2>4. PICK y \in Nat : y = Len(m) + 1 + Len(u)
    BY <1>1
  <2>5. x + 1 = y + 1
    BY <2>1, <2>2, <2>3, <2>4
  <2> QED
    BY <2>3, <2>4, <2>5
<1>3. Len(n) + i + 3 = Len(m) + k + 3
  <2>1. /\ LabelEndsAt(f, Len(n) + i + 3, Len(n) + 1 + Len(t))
        /\ LabelEndsAt(f, Len(m) + k + 3, Len(m) + 1 + Len(u))
    BY DEF PartsOf
  <2> QED
    BY <1>2, <2>1, OneLabel
<1>4. Len(n) + i = Len(m) + k
  BY <1>1, <1>3
<1>5. Len(n) + 3 = Len(m) + 3
  <2>1. LabelEndsAt(f, Len(n) + 3, Len(n) + i) /\ LabelEndsAt(f, Len(m) + 3, Len(m) + k)
    BY DEF PartsOf
  <2> QED
    BY <1>4, <2>1, OneLabel
<1>6. Len(n) = Len(m) /\ Len(t) = Len(u) /\ i = k
  BY <1>1, <1>2, <1>4, <1>5
<1>7. \A j \in 1..Len(n) : n[j] = m[j]
  BY <1>6 DEF PartsOf
<1>8. ASSUME NEW j \in 1..Len(t) PROVE t[j] = u[j]
  <2>1. \/ j = 1 \/ j = i \/ j = i + 1
        \/ j \in 2..(i - 1) \/ j \in (i + 2)..Len(t)
    BY <1>1
  <2>2. /\ t[1] = u[1] /\ t[i] = u[i] /\ t[i + 1] = u[i + 1]
        /\ \A l \in 2..(i - 1) : t[l] = u[l]
        /\ \A l \in (i + 2)..Len(t) : t[l] = u[l]
    <3>1. t[1] = u[1] /\ t[i] = u[i] /\ t[i + 1] = u[i + 1]
      BY <1>6 DEF PartsOf
    <3>2. /\ \A l \in 2..(i - 1) : f[Len(n) + 1 + l] = t[l] /\ f[Len(n) + 1 + l] = u[l]
          /\ \A l \in (i + 2)..Len(t) : f[Len(n) + 1 + l] = t[l] /\ f[Len(n) + 1 + l] = u[l]
      BY <1>6 DEF PartsOf
    <3> QED
      BY <3>1, <3>2
  <2> QED
    BY <2>1, <2>2
<1> QED
  BY <1>6, <1>7, <1>8

\* Two services with plain names and well-formed types that have the same file are
\* the same service: the labels of a type cannot contain the two hyphens that its
\* "_" and "._" become, so that its end is found from the end of the file.
THEOREM PlainNamesAreUnique == Spec => []PlainIsUnique
<1>1. IInv /\ Progress => PlainIsUnique
  <2> SUFFICES ASSUME IInv, Progress, at = "done", Plain(name), WellFormed(type),
                      NEW n \in Names, NEW t \in Types,
                      Plain(n), WellFormed(t), IsFilename(filename, n, t)
               PROVE  n = name /\ t = type
    BY DEF PlainIsUnique
  <2>1. name \in Seq(Char) /\ type \in Seq(Char) /\ n \in Seq(Char) /\ t \in Seq(Char)
    BY InputType DEF IInv, TypeInv
  <2>2. PICK i \in Nat : PartsOf(filename, name, type, i)
    BY <2>1, PlainParts DEF Progress
  <2>3. PICK k \in Nat : PartsOf(filename, n, t, k)
    BY <2>1, PlainParts
  <2> QED
    BY <2>1, <2>2, <2>3, PartsAreUnique
<1> QED
  BY <1>1, StartsSafe, StaysSafe, ProgressStarts, ProgressStays, PTL DEF Spec

===============================================================================
