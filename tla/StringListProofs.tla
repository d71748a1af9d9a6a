--------------------------- MODULE StringListProofs ---------------------------
(***************************************************************************)
(* What is published under a key is what is found under it, for every       *)
(* alphabet, every set of keys and values and every list, provided that no  *)
(* byte of it means something in a .dnssd file; for every such byte, and    *)
(* whatever a line with one is taken for.                                   *)
(***************************************************************************)
EXTENDS StringList, SequenceTheorems, WellFoundedInduction, TLAPS

-----------------------------------------------------------------------------
(* Texts and their parts                                                   *)

Less == {p \in Nat \X Nat : p[1] < p[2]}

\* A byte that occurs in a text has a first place in it: what strchr, memchr
\* and strlen rely on (ga-entry-group.c:310, 412 and 776).
LEMMA FirstExists ==
  ASSUME NEW t \in Seq(Byte), NEW c, HasByte(t, c)
  PROVE  /\ First(t, c) \in 1..Len(t)
         /\ t[First(t, c)] = c
         /\ \A j \in 1..(First(t, c) - 1) : t[j] # c
<1> DEFINE T == {i \in 1..Len(t) : t[i] = c}
<1>1. IsWellFoundedOn(Less, Nat)
  <2>1. Less = OpToRel(<, Nat)
    BY DEF Less, OpToRel
  <2> QED
    BY <2>1, NatLessThanWellFounded
<1>2. T \subseteq Nat /\ T # {}
  BY DEF HasByte
<1>3. \E x \in T : \A y \in T : ~(<<y, x>> \in Less)
  BY <1>1, <1>2, WFMin
<1>4. PICK x \in T : \A y \in T : ~(<<y, x>> \in Less)
  BY <1>3
<1>5. ASSUME NEW j \in 1..(x - 1) PROVE t[j] # c
  <2>1. j \in 1..Len(t) /\ <<j, x>> \in Less
    BY DEF Less
  <2> QED
    BY <1>4, <2>1
<1>6. \E i \in DOMAIN t : t[i] = c /\ \A j \in 1..(i - 1) : t[j] # c
  BY <1>4, <1>5
<1> QED
  BY <1>6 DEF First

\* What g_strndup makes of bytes is a text (ga-entry-group.c:418).
LEMMA CStringType ==
  ASSUME NEW v \in Seq(Byte)
  PROVE  CString(v) \in Seq(Byte)
<1>1. CASE HasByte(v, Nul)
  <2>1. First(v, Nul) \in 1..Len(v)
    BY <1>1, FirstExists
  <2>2. SubSeq(v, 1, First(v, Nul) - 1) \in Seq(Byte)
    BY <2>1
  <2> QED
    BY <1>1, <2>2 DEF CString
<1>2. CASE ~HasByte(v, Nul)
  BY <1>2 DEF CString
<1> QED
  BY <1>1, <1>2

\* The place of the "=" that a publisher wrote after a key.
LEMMA FirstAfterKey ==
  ASSUME NEW k \in Seq(Char), NEW w \in Seq(Byte)
  PROVE  LET t == k \o <<Eq>> \o w IN
         /\ t \in Seq(Byte)
         /\ Len(t) = Len(k) + 1 + Len(w)
         /\ \A i \in 1..Len(k) : t[i] = k[i]
         /\ t[Len(k) + 1] = Eq
         /\ \A i \in 1..Len(w) : t[Len(k) + 1 + i] = w[i]
         /\ HasByte(t, Eq)
         /\ First(t, Eq) = Len(k) + 1
<1> DEFINE t == k \o <<Eq>> \o w
<1>1. /\ k \in Seq(Byte) /\ <<Eq>> \in Seq(Byte)
      /\ \A i \in 1..Len(k) : k[i] # Eq
  BY BytesApart DEF Byte
<1>2. /\ k \o <<Eq>> \in Seq(Byte)
      /\ Len(k \o <<Eq>>) = Len(k) + 1
      /\ \A i \in 1..Len(k) : (k \o <<Eq>>)[i] = k[i]
      /\ (k \o <<Eq>>)[Len(k) + 1] = Eq
  BY <1>1
<1>3. /\ t \in Seq(Byte)
      /\ Len(t) = Len(k) + 1 + Len(w)
      /\ \A i \in 1..Len(k) : t[i] = k[i]
      /\ t[Len(k) + 1] = Eq
      /\ \A i \in 1..Len(w) : t[Len(k) + 1 + i] = w[i]
  BY <1>2
<1>4. HasByte(t, Eq)
  BY <1>3 DEF HasByte
<1>5. First(t, Eq) = Len(k) + 1
  <2>1. /\ First(t, Eq) \in 1..Len(t)
        /\ t[First(t, Eq)] = Eq
        /\ \A j \in 1..(First(t, Eq) - 1) : t[j] # Eq
    BY <1>3, <1>4, FirstExists
  <2> HIDE DEF t
  <2>2. Len(k) \in Nat /\ Len(t) \in Nat
    BY <1>3
  <2>3. ASSUME First(t, Eq) < Len(k) + 1 PROVE FALSE
    <3>1. First(t, Eq) \in 1..Len(k)
      BY <2>1, <2>2, <2>3
    <3> QED
      BY <2>1, <3>1, <1>1, <1>3
  <2>4. ~(First(t, Eq) > Len(k) + 1)
    BY <2>1, <2>2, <1>3
  <2> QED
    BY <2>1, <2>2, <2>3, <2>4
<1> QED
  BY <1>3, <1>4, <1>5

\* A key that is not followed by "=" has none.
LEMMA BareKey ==
  ASSUME NEW k \in Key
  PROVE  /\ k \in Seq(Char) /\ k \in Seq(Byte)
         /\ \A i \in 1..Len(k) : k[i] # Eq
         /\ ~HasByte(k, Eq)
BY KeysPlain, BytesApart DEF HasByte, Byte

\* Taking apart the text of an entry gives back what it was made of: strchr in
\* add_service, memchr in get_pair (ga-entry-group.c:309-319 and 776-800).
LEMMA PairOfText ==
  ASSUME NEW k \in Key, NEW v \in Seq(Byte) \cup {None}
  PROVE  /\ Text(k, v) \in Seq(Byte)
         /\ KeyOf(Text(k, v)) = k
         /\ ValueOf(Text(k, v)) = IF v = None THEN <<>> ELSE v
         /\ HasByte(Text(k, v), Eq) <=> v # None
<1>1. CASE v = None
  BY <1>1, BareKey DEF Text, KeyOf, ValueOf
<1>2. CASE v # None
  <2> DEFINE t == k \o <<Eq>> \o v
  <2>1. v \in Seq(Byte) /\ k \in Seq(Char) /\ k \in Seq(Byte)
    BY <1>2, BareKey
  <2>2. /\ t \in Seq(Byte)
        /\ Len(t) = Len(k) + 1 + Len(v)
        /\ \A i \in 1..Len(k) : t[i] = k[i]
        /\ \A i \in 1..Len(v) : t[Len(k) + 1 + i] = v[i]
        /\ HasByte(t, Eq)
        /\ First(t, Eq) = Len(k) + 1
    BY <2>1, FirstAfterKey
  <2>3. Text(k, v) = t
    BY <1>2 DEF Text
  <2> HIDE DEF t
  <2>4. SubSeq(t, 1, Len(k)) = k
    BY <2>1, <2>2
  <2>5. SubSeq(t, Len(k) + 2, Len(t)) = v
    BY <2>1, <2>2
  <2>6. First(t, Eq) - 1 = Len(k) /\ First(t, Eq) + 1 = Len(k) + 2
    BY <2>1, <2>2
  <2>7. KeyOf(t) = k /\ ValueOf(t) = v
    BY <2>2, <2>4, <2>5, <2>6 DEF KeyOf, ValueOf
  <2> QED
    BY <1>2, <2>2, <2>3, <2>7
<1> QED
  BY <1>1, <1>2

\* ga_string_list_find recognises the texts of its key that have a value, and no
\* other: not those of a longer or a shorter key (ga-entry-group.c:747-749).
THEOREM MatchesOnlyItsKey ==
  ASSUME NEW k \in Key, NEW key \in Key, NEW v \in Seq(Byte) \cup {None}
  PROVE  Matches(Text(k, v), key) <=> k = key /\ v # None
<1>0. /\ k \in Seq(Byte) /\ \A i \in 1..Len(k) : k[i] # Eq
      /\ key \in Seq(Byte) /\ \A i \in 1..Len(key) : key[i] # Eq
  BY BareKey
<1>1. CASE v = None
  <2>1. Text(k, v) = k
    BY <1>1 DEF Text
  <2> QED
    BY <1>0, <1>1, <2>1 DEF Matches
<1>2. CASE v # None
  <2> DEFINE t == k \o <<Eq>> \o v
  <2>1. v \in Seq(Byte) /\ k \in Seq(Char)
    BY <1>2, BareKey
  <2>2. /\ t \in Seq(Byte)
        /\ Len(t) = Len(k) + 1 + Len(v)
        /\ \A i \in 1..Len(k) : t[i] = k[i]
        /\ t[Len(k) + 1] = Eq
    BY <2>1, FirstAfterKey
  <2>3. Text(k, v) = t
    BY <1>2 DEF Text
  <2> HIDE DEF t
  <2>4. ASSUME k = key PROVE Matches(t, key)
    <3>1. SubSeq(t, 1, Len(k)) = k
      BY <1>0, <2>1, <2>2
    <3> QED
      BY <1>0, <2>1, <2>2, <2>4, <3>1 DEF Matches
  <2>5. ASSUME Matches(t, key) PROVE k = key
    <3>1. Len(t) > Len(key) /\ t[Len(key) + 1] = Eq /\ SubSeq(t, 1, Len(key)) = key
      BY <2>5 DEF Matches
    <3>2. \A i \in 1..Len(key) : key[i] = t[i]
      <4>1. \A i \in 1..Len(key) : SubSeq(t, 1, Len(key))[i] = t[i]
        BY <1>0, <2>2, <3>1
      <4> QED
        BY <3>1, <4>1
    <3>3. ~(Len(key) < Len(k))
      BY <1>0, <2>2, <3>1
    <3>4. ~(Len(k) < Len(key))
      BY <1>0, <2>2, <3>2
    <3>5. Len(k) = Len(key)
      BY <1>0, <3>3, <3>4
    <3> QED
      BY <1>0, <2>2, <3>2, <3>5, SeqEqual
  <2> QED
    BY <1>2, <2>3, <2>4, <2>5
<1> QED
  BY <1>1, <1>2

-----------------------------------------------------------------------------
(* The inductive invariant                                                 *)

\* The table e is what the first n mentions of ms made of it.
AgreesUpTo(e, ms, n) ==
  \A k \in Key :
    \/ e[k] = Unset /\ \A j \in 1..n : ms[j][1] # k
    \/ \E i \in 1..n : /\ ms[i][1] = k /\ e[k] = Stored(ms[i][2])
                       /\ \A j \in (i + 1)..n : ms[j][1] # k

\* The mentions that have reached the table.
Processed ==
  IF stage \in {"new", "listing"} THEN 0
  ELSE IF stage = "adding" THEN pos ELSE Len(mentions)

\* Before the list is parsed, the mentions are what the array is made of.
Meant ==
  stage \in {"listing", "adding"} => mentions \in Seq(Key \X (CStrings \cup {None}))

MeantText(i) == Text(mentions[i][1], mentions[i][2])

Listing ==
  stage = "listing" =>
    /\ pos = Len(list) /\ pos <= Len(mentions)
    /\ \A i \in 1..pos : list[i] = MeantText(i)
    /\ Len(array) >= Len(mentions)
    /\ \A i \in 1..Len(mentions) : array[i] = MeantText(i)
    /\ \/ length = Len(mentions)
       \/ /\ length < 0 \/ length > Len(mentions)
          /\ array[Len(mentions) + 1] = None

Adding ==
  stage = "adding" =>
    /\ Len(list) = Len(mentions) /\ pos <= Len(list)
    /\ \A i \in 1..Len(list) : list[i] = MeantText(i)

\* The file that is read has the lines of the table.
Written == stage \in {"answering", "found"} => file = Lines

\* The answer has the texts that were sent; while all of them are plain it has
\* each once, and nothing else.
Answered ==
  /\ stage \notin {"answering", "found"} => answer = <<>> /\ sent = {}
  /\ \A t \in sent : Plain(t) => \E n \in DOMAIN answer : answer[n] = t
  /\ (\A t \in sent : Plain(t)) =>
       /\ \A n \in DOMAIN answer : answer[n] \in sent
       /\ \A m, n \in DOMAIN answer : answer[m] = answer[n] => m = n
  /\ stage = "found" => sent = file

Blank == stage \in {"new", "listing"} => entries = [k \in Key |-> Unset]

Start == stage = "new" => pos = 0 /\ list = <<>>

IInv ==
  /\ TypeOK /\ Start /\ Blank /\ Meant /\ Listing /\ Adding /\ Written /\ Answered
  /\ AgreesUpTo(entries, mentions, Processed)

-----------------------------------------------------------------------------
(* The table                                                               *)

\* One more mention reaches the table: the one before it of that key no longer
\* counts, the others still do.
LEMMA OneMore ==
  ASSUME NEW S, NEW e \in [Key -> S], NEW ms, NEW n \in Nat, AgreesUpTo(e, ms, n),
         ms[n + 1][1] \in Key
  PROVE  AgreesUpTo([e EXCEPT ![ms[n + 1][1]] = Stored(ms[n + 1][2])], ms, n + 1)
<1> DEFINE f == [e EXCEPT ![ms[n + 1][1]] = Stored(ms[n + 1][2])]
<1> SUFFICES ASSUME NEW k \in Key
             PROVE  \/ f[k] = Unset /\ \A j \in 1..(n + 1) : ms[j][1] # k
                    \/ \E i \in 1..(n + 1) : /\ ms[i][1] = k /\ f[k] = Stored(ms[i][2])
                                             /\ \A j \in (i + 1)..(n + 1) : ms[j][1] # k
  BY DEF AgreesUpTo
<1>1. CASE k = ms[n + 1][1]
  <2>1. f[k] = Stored(ms[n + 1][2])
    BY <1>1
  <2>2. n + 1 \in 1..(n + 1) /\ \A j \in (n + 2)..(n + 1) : ms[j][1] # k
    OBVIOUS
  <2> QED
    BY <1>1, <2>1, <2>2
<1>2. CASE k # ms[n + 1][1]
  <2>1. f[k] = e[k]
    BY <1>2
  <2>2. CASE e[k] = Unset /\ \A j \in 1..n : ms[j][1] # k
    <3>1. \A j \in 1..(n + 1) : ms[j][1] # k
      BY <1>2, <2>2
    <3> QED
      BY <2>1, <2>2, <3>1
  <2>3. ASSUME NEW i \in 1..n, ms[i][1] = k, e[k] = Stored(ms[i][2]),
               \A j \in (i + 1)..n : ms[j][1] # k
        PROVE  \E m \in 1..(n + 1) : /\ ms[m][1] = k /\ f[k] = Stored(ms[m][2])
                                     /\ \A j \in (m + 1)..(n + 1) : ms[j][1] # k
    <3>1. i \in 1..(n + 1) /\ \A j \in (i + 1)..(n + 1) : ms[j][1] # k
      BY <1>2, <2>3
    <3> QED
      BY <2>1, <2>3, <3>1
  <2> QED
    BY <2>2, <2>3 DEF AgreesUpTo
<1> QED
  BY <1>1, <1>2

\* Agreement looks at the mentions it counts only.
LEMMA SamePrefix ==
  ASSUME NEW e, NEW ms, NEW ns, NEW n \in Nat, \A j \in 1..n : ms[j] = ns[j],
         AgreesUpTo(e, ms, n)
  PROVE  AgreesUpTo(e, ns, n)
BY DEF AgreesUpTo

\* A C string is stored as it is.
LEMMA StoredCString ==
  ASSUME NEW v \in CStrings \cup {None}
  PROVE  Stored(v) = v /\ v \in Seq(Byte) \cup {None}
BY ValuesBytes DEF Stored, CString, CStrings

LEMMA StoredType ==
  ASSUME NEW v \in Value \cup {None, Unset}
  PROVE  /\ Stored(v) \in Seq(Byte) \cup {None, Unset}
         /\ v \in Value => Stored(v) = CString(v) /\ Stored(v) \in Seq(Byte)
         /\ v \notin Value => Stored(v) = v
<1>1. CASE v \in Value
  BY <1>1, ValuesBytes, MarksApart, CStringType DEF Stored
<1>2. CASE v \in {None, Unset}
  BY <1>2, ValuesBytes, MarksApart DEF Stored
<1> QED
  BY <1>1, <1>2

-----------------------------------------------------------------------------
(* Every step keeps the invariant                                          *)

LEMMA TableStarts == Init => IInv
<1> SUFFICES ASSUME Init PROVE IInv
  OBVIOUS
<1>1. TypeOK /\ Start /\ Blank /\ Meant /\ Listing /\ Adding /\ Written /\ Answered
  BY DEF Init, TypeOK, Start, Blank, Meant, Listing, Adding, Written, Answered
<1>2. AgreesUpTo(entries, mentions, Processed)
  BY DEF Init, AgreesUpTo, Processed
<1> QED
  BY <1>1, <1>2 DEF IInv

LEMMA KeepsNewList ==
  ASSUME IInv, NEW meant \in Lists, NEW ended \in BOOLEAN,
         NEW more \in {<<>>} \cup {<<k>> : k \in Key}, NewList(meant, ended, more)
  PROVE  IInv'
<1> DEFINE texts == [i \in DOMAIN meant |-> Text(meant[i][1], meant[i][2])]
           term  == IF ended THEN <<None>> ELSE <<>>
<1>1. /\ stage = "new" /\ stage' = "listing"
      /\ array' = texts \o term \o more
      /\ length' \in IF ended THEN {-1, Len(meant) + 1} ELSE {Len(meant)}
      /\ mentions' = meant
      /\ UNCHANGED <<list, pos, entries, file, sent, answer>>
  BY DEF NewList
<1>2. meant \in Seq(Key \X (CStrings \cup {None}))
  BY ListsPlain
<1>3. pos = 0 /\ list = <<>> /\ entries = [k \in Key |-> Unset]
  BY <1>1 DEF IInv, Start, Blank
<1>4. \A i \in 1..Len(meant) : Text(meant[i][1], meant[i][2]) \in Seq(Byte)
  <2> SUFFICES ASSUME NEW i \in 1..Len(meant)
               PROVE  Text(meant[i][1], meant[i][2]) \in Seq(Byte)
    OBVIOUS
  <2>1. meant[i] \in Key \X (CStrings \cup {None})
    BY <1>2
  <2>2. meant[i][1] \in Key /\ meant[i][2] \in CStrings \cup {None}
    BY <2>1
  <2> QED
    BY <2>2, StoredCString, PairOfText
<1> DEFINE S == Seq(Byte) \cup {None}
<1>5. /\ texts \in Seq(S) /\ Len(texts) = Len(meant)
      /\ \A i \in 1..Len(meant) : texts[i] = Text(meant[i][1], meant[i][2])
  BY <1>2, <1>4
<1>6. term \in Seq(S) /\ (ended => Len(term) = 1 /\ term[1] = None)
  <2>1. <<None>> \in Seq(S) /\ Len(<<None>>) = 1 /\ <<None>>[1] = None
    OBVIOUS
  <2>2. <<>> \in Seq(S)
    OBVIOUS
  <2> QED
    BY <2>1, <2>2
<1>7. more \in Seq(S)
  <2>1. ASSUME NEW k \in Key PROVE <<k>> \in Seq(S)
    <3>1. k \in S
      BY BareKey
    <3> HIDE DEF S
    <3> QED
      BY <3>1
  <2>2. <<>> \in Seq(S)
    OBVIOUS
  <2> HIDE DEF S
  <2> QED
    BY <2>1, <2>2
<1> HIDE DEF texts, term, S
<1>8. /\ texts \o term \in Seq(S)
      /\ Len(texts \o term) = Len(texts) + Len(term)
      /\ \A i \in 1..Len(texts) : (texts \o term)[i] = texts[i]
      /\ ended => (texts \o term)[Len(texts) + 1] = None
  <2>1. /\ texts \o term \in Seq(S)
        /\ Len(texts \o term) = Len(texts) + Len(term)
        /\ \A i \in 1..(Len(texts) + Len(term)) :
             (texts \o term)[i] = IF i <= Len(texts) THEN texts[i] ELSE term[i - Len(texts)]
    <3>1. texts \in Seq(S) /\ term \in Seq(S)
      BY <1>5, <1>6
    <3> QED
      BY <3>1, ConcatProperties
  <2> QED
    BY <1>5, <1>6, <2>1
<1>9. /\ array' \in Seq(S) /\ Len(array') >= Len(meant)
      /\ \A i \in 1..Len(meant) : array'[i] = texts[i]
      /\ ended => array'[Len(meant) + 1] = None
  BY <1>1, <1>5, <1>6, <1>7, <1>8
<1>10. mentions' \in Seq(Key \X (Value \cup {None, Unset}))
  BY <1>1, <1>2, SeqMonotonic DEF CStrings
<1>11. TypeOK' /\ Start' /\ Blank' /\ Meant' /\ Adding' /\ Written' /\ Answered'
  <2>1. TypeOK'
    BY <1>1, <1>2, <1>9, <1>10 DEF IInv, TypeOK, S
  <2>2. Start' /\ Blank' /\ Meant' /\ Adding'
    BY <1>1, <1>2, <1>3 DEF Start, Blank, Meant, Adding
  <2>3. Written' /\ Answered'
    BY <1>1 DEF IInv, Written, Answered
  <2> QED
    BY <2>1, <2>2, <2>3
<1>12. Listing'
  <2>1. pos' = Len(list') /\ pos' <= Len(mentions')
    BY <1>1, <1>2, <1>3
  <2>2. \A i \in 1..pos' : list'[i] = MeantText(i)'
    BY <1>1, <1>3
  <2>3. \A i \in 1..Len(mentions') : array'[i] = MeantText(i)'
    BY <1>1, <1>5, <1>9 DEF MeantText
  <2>4. \/ length' = Len(mentions')
        \/ /\ length' < 0 \/ length' > Len(mentions')
           /\ array'[Len(mentions') + 1] = None
    <3>1. Len(meant) \in Nat
      BY <1>2
    <3>2. CASE ended
      <4>1. length' \in {-1, Len(meant) + 1}
        BY <1>1, <3>2, Zenon
      <4>2. array'[Len(mentions') + 1] = None
        BY <1>1, <1>9, <3>2, Zenon
      <4> QED
        BY <1>1, <3>1, <4>1, <4>2
    <3>3. CASE ~ended
      BY <1>1, <3>3
    <3> QED
      BY <3>2, <3>3
  <2> QED
    BY <1>1, <1>9, <2>1, <2>2, <2>3, <2>4 DEF Listing
<1>13. AgreesUpTo(entries, mentions, Processed)'
  BY <1>1, <1>3 DEF AgreesUpTo, Processed
<1> QED
  BY <1>11, <1>12, <1>13 DEF IInv

LEMMA KeepsNewNode == ASSUME IInv, NewNode PROVE IInv'
<1> USE DEF IInv
<1>1. /\ stage = "listing" /\ array[pos + 1] # None
      /\ length < 0 \/ pos < length
      /\ list' = Append(list, array[pos + 1]) /\ pos' = pos + 1
      /\ UNCHANGED <<stage, array, length, entries, file, sent, answer, mentions>>
  BY DEF NewNode, More
<1>2. /\ pos = Len(list) /\ pos \in Nat /\ Len(mentions) \in Nat
      /\ list \in Seq(Seq(Byte)) /\ length \in Int
      /\ mentions \in Seq(Key \X (CStrings \cup {None}))
  BY <1>1 DEF Listing, TypeOK, Meant
<1>3. pos < Len(mentions)
  BY <1>1, <1>2 DEF Listing
<1>4. array[pos + 1] = MeantText(pos + 1) /\ array[pos + 1] \in Seq(Byte)
  <2>1. array[pos + 1] = MeantText(pos + 1)
    BY <1>1, <1>2, <1>3 DEF Listing
  <2>2. array[pos + 1] \in Seq(Byte) \cup {None}
    BY <1>1, <1>2, <1>3 DEF Listing, TypeOK
  <2> QED
    BY <1>1, <2>1, <2>2
<1>5. list' \in Seq(Seq(Byte)) /\ Len(list') = pos + 1
  BY <1>1, <1>2, <1>4
<1>6. \A i \in 1..(pos + 1) : list'[i] = MeantText(i)
  BY <1>1, <1>2, <1>4 DEF Listing
<1>7. TypeOK' /\ Start' /\ Blank' /\ Meant' /\ Adding'
  BY <1>1, <1>2, <1>5 DEF TypeOK, Start, Blank, Meant, Adding
<1>8. Listing'
  <2>1. \A i \in 1..pos' : list'[i] = MeantText(i)'
    BY <1>1, <1>6 DEF MeantText
  <2>2. \A i \in 1..Len(mentions') : array'[i] = MeantText(i)'
    BY <1>1 DEF Listing, MeantText
  <2> QED
    BY <1>1, <1>2, <1>3, <1>5, <2>1, <2>2 DEF Listing
<1>9. Written' /\ Answered' /\ AgreesUpTo(entries, mentions, Processed)'
  BY <1>1 DEF Written, Answered, AgreesUpTo, Processed
<1> QED
  BY <1>7, <1>8, <1>9

LEMMA KeepsListEnds == ASSUME IInv, ListEnds PROVE IInv'
<1> USE DEF IInv
<1>1. /\ stage = "listing" /\ stage' = "adding" /\ pos' = 0
      /\ (length < 0 \/ pos < length) => array[pos + 1] = None
      /\ UNCHANGED <<array, length, list, entries, file, sent, answer, mentions>>
  BY DEF ListEnds, More
<1>2. /\ pos = Len(list) /\ pos \in Nat /\ Len(mentions) \in Nat
      /\ pos <= Len(mentions) /\ length \in Int
      /\ mentions \in Seq(Key \X (CStrings \cup {None}))
  BY <1>1 DEF Listing, TypeOK, Meant
<1>3. pos = Len(mentions)
  <2> SUFFICES ASSUME pos < Len(mentions) PROVE FALSE
    BY <1>2
  <2>1. pos + 1 \in 1..Len(mentions)
    BY <1>2
  <2>2. mentions[pos + 1] \in Key \X (CStrings \cup {None})
    BY <1>2, <2>1
  <2>3. mentions[pos + 1][1] \in Key /\ mentions[pos + 1][2] \in CStrings \cup {None}
    BY <2>2
  <2>4. MeantText(pos + 1) \in Seq(Byte)
    BY <2>3, StoredCString, PairOfText DEF MeantText
  <2>5. array[pos + 1] = MeantText(pos + 1)
    BY <1>1, <2>1 DEF Listing
  <2>6. array[pos + 1] # None
    BY <2>4, <2>5, MarksApart
  <2>7. length < 0 \/ pos < length
    BY <1>1, <1>2 DEF Listing
  <2> QED
    BY <1>1, <2>6, <2>7
<1>4. TypeOK' /\ Start' /\ Blank' /\ Meant' /\ Listing'
  BY <1>1 DEF TypeOK, Start, Blank, Meant, Listing
<1>5. Adding'
  BY <1>1, <1>2, <1>3 DEF Listing, Adding, MeantText
<1>6. Written' /\ Answered' /\ AgreesUpTo(entries, mentions, Processed)'
  BY <1>1 DEF Written, Answered, AgreesUpTo, Processed
<1> QED
  BY <1>4, <1>5, <1>6

LEMMA KeepsAddEntry == ASSUME IInv, AddEntry PROVE IInv'
<1> USE DEF IInv
<1> DEFINE t == list[pos + 1]
           k == mentions[pos + 1][1]
           v == mentions[pos + 1][2]
<1>1. /\ stage = "adding" /\ pos < Len(list) /\ pos' = pos + 1
      /\ entries' = [entries EXCEPT ![KeyOf(t)] = IF HasByte(t, Eq) THEN ValueOf(t)
                                                                   ELSE None]
      /\ UNCHANGED <<stage, array, length, list, file, sent, answer, mentions>>
  BY DEF AddEntry
<1>2. /\ pos \in Nat /\ Len(list) = Len(mentions) /\ Len(mentions) \in Nat
      /\ mentions \in Seq(Key \X (CStrings \cup {None}))
      /\ entries \in [Key -> Seq(Byte) \cup {None, Unset}]
  BY <1>1 DEF Adding, TypeOK, Meant
<1>3. pos + 1 \in 1..Len(mentions) /\ mentions[pos + 1] \in Key \X (CStrings \cup {None})
  BY <1>1, <1>2
<1>4. k \in Key /\ v \in CStrings \cup {None} /\ t = Text(k, v)
  BY <1>1, <1>2, <1>3 DEF Adding, MeantText
<1> HIDE DEF t, k, v
<1>5. /\ v \in Seq(Byte) \cup {None} /\ Stored(v) = v
      /\ KeyOf(t) = k
      /\ HasByte(t, Eq) <=> v # None
      /\ ValueOf(t) = IF v = None THEN <<>> ELSE v
  BY <1>4, StoredCString, PairOfText
<1>6. entries' = [entries EXCEPT ![k] = Stored(v)]
  BY <1>1, <1>5
<1>7. AgreesUpTo(entries', mentions, pos + 1)
  <2>1. AgreesUpTo(entries, mentions, pos)
    BY <1>1 DEF Processed
  <2> QED
    BY <1>2, <1>4, <1>6, <2>1, OneMore DEF k, v
<1>8. AgreesUpTo(entries, mentions, Processed)'
  BY <1>1, <1>7 DEF Processed, AgreesUpTo
<1>9. TypeOK'
  <2>1. entries' \in [Key -> Seq(Byte) \cup {None, Unset}]
    BY <1>2, <1>5, <1>6
  <2>2. pos' \in Nat
    BY <1>1, <1>2
  <2> QED
    BY <1>1, <2>1, <2>2 DEF TypeOK
<1>10. Start' /\ Blank' /\ Meant' /\ Listing' /\ Adding' /\ Written' /\ Answered'
  BY <1>1, <1>2 DEF Start, Blank, Meant, Listing, Adding, Written, Answered, MeantText
<1> QED
  BY <1>8, <1>9, <1>10

LEMMA KeepsAdded == ASSUME IInv, Added PROVE IInv'
<1> USE DEF IInv
<1>1. /\ stage = "adding" /\ pos = Len(list) /\ stage' = "editing"
      /\ array' = <<>> /\ length' = 0 /\ list' = <<>> /\ pos' = 0
      /\ UNCHANGED <<entries, file, sent, answer, mentions>>
  BY DEF Added
<1>2. Processed = Len(mentions) /\ Processed' = Len(mentions)
  BY <1>1 DEF Adding, Processed
<1>3. AgreesUpTo(entries, mentions, Processed)'
  BY <1>1, <1>2 DEF AgreesUpTo
<1>4. TypeOK'
  BY <1>1 DEF TypeOK
<1>5. Start' /\ Blank' /\ Meant' /\ Listing' /\ Adding' /\ Written' /\ Answered'
  BY <1>1 DEF Start, Blank, Meant, Listing, Adding, Written, Answered
<1> QED
  BY <1>3, <1>4, <1>5

LEMMA KeepsEdit ==
  ASSUME IInv, NEW k \in Key, NEW v \in Value \cup {None, Unset}, Edit(k, v, Stored(v))
  PROVE  IInv'
<1> USE DEF IInv
<1>1. /\ stage = "editing"
      /\ entries' = [entries EXCEPT ![k] = Stored(v)]
      /\ mentions' = Append(mentions, <<k, v>>)
      /\ UNCHANGED <<stage, array, length, list, pos, file, sent, answer>>
  BY DEF Edit
<1>2. /\ mentions \in Seq(Key \X (Value \cup {None, Unset})) /\ Len(mentions) \in Nat
      /\ entries \in [Key -> Seq(Byte) \cup {None, Unset}]
  BY DEF TypeOK
<1>3. /\ mentions' \in Seq(Key \X (Value \cup {None, Unset}))
      /\ Len(mentions') = Len(mentions) + 1
      /\ \A j \in 1..Len(mentions) : mentions[j] = mentions'[j]
      /\ mentions'[Len(mentions) + 1] = <<k, v>>
  BY <1>1, <1>2
<1>4. AgreesUpTo(entries, mentions, Len(mentions))
  BY <1>1 DEF Processed
<1>5. AgreesUpTo(entries, mentions', Len(mentions))
  BY <1>2, <1>3, <1>4, SamePrefix
<1>6. AgreesUpTo(entries', mentions', Len(mentions) + 1)
  <2>1. mentions'[Len(mentions) + 1][1] = k /\ mentions'[Len(mentions) + 1][2] = v
    BY <1>3
  <2> QED
    BY <1>1, <1>2, <1>5, <2>1, OneMore
<1>7. AgreesUpTo(entries, mentions, Processed)'
  <2>1. Processed' = Len(mentions) + 1
    BY <1>1, <1>3 DEF Processed
  <2> QED
    BY <1>6, <2>1 DEF AgreesUpTo
<1>8. TypeOK'
  <2>1. entries' \in [Key -> Seq(Byte) \cup {None, Unset}]
    BY <1>1, <1>2, StoredType
  <2> QED
    BY <1>1, <1>3, <2>1 DEF TypeOK
<1>9. Answered'
  <2>1. answer' = <<>> /\ sent' = {}
    BY <1>1 DEF Answered
  <2> QED
    BY <1>1, <2>1 DEF Answered
<1>10. Start' /\ Blank' /\ Meant' /\ Listing' /\ Adding' /\ Written'
  BY <1>1 DEF Start, Blank, Meant, Listing, Adding, Written
<1> QED
  BY <1>7, <1>8, <1>9, <1>10

LEMMA KeepsEdits ==
  ASSUME IInv, NEW k \in Key,
         \/ \E v \in CStrings \cup {None} : Set(k, v)
         \/ \E v \in Value : SetArbitrary(k, v)
         \/ RemoveKey(k)
  PROVE  IInv'
<1>1. ASSUME NEW v \in CStrings \cup {None}, Set(k, v) PROVE IInv'
  <2>1. v \in Value \cup {None, Unset} /\ Edit(k, v, Stored(v))
    BY <1>1, StoredCString DEF Set, CStrings
  <2> QED
    BY <2>1, KeepsEdit
<1>2. ASSUME NEW v \in Value, SetArbitrary(k, v) PROVE IInv'
  <2>1. Edit(k, v, Stored(v))
    BY <1>2, StoredType DEF SetArbitrary
  <2> QED
    BY <2>1, KeepsEdit
<1>3. CASE RemoveKey(k)
  <2>1. Edit(k, Unset, Stored(Unset))
    BY <1>3 DEF RemoveKey, Stored
  <2> QED
    BY <2>1, KeepsEdit
<1> QED
  BY <1>1, <1>2, <1>3

LEMMA KeepsAnswer == ASSUME IInv, NEW t \in file, NEW read, Answer(t, read) PROVE IInv'
<1> USE DEF IInv
<1>1. /\ stage = "answering" /\ t \in file /\ t \notin sent
      /\ sent' = sent \cup {t} /\ answer' = answer \o read
      /\ UNCHANGED <<stage, array, length, list, pos, entries, file, mentions>>
  BY DEF Answer
<1>2. /\ answer \in Seq(Seq(Byte)) /\ sent \subseteq file /\ file \subseteq Seq(Byte)
      /\ DOMAIN answer = 1..Len(answer) /\ Len(answer) \in Nat
  BY DEF TypeOK
<1>3. read \in Seq(Seq(Byte)) /\ (Plain(t) => read = <<t>>)
  <2>1. CASE Plain(t)
    <3>1. read = <<t>> /\ t \in Seq(Byte)
      BY <2>1, <1>2 DEF Answer
    <3> QED
      BY <3>1
  <2>2. CASE ~Plain(t)
    <3>1. read \in Misread
      BY <2>2 DEF Answer
    <3> QED
      BY <2>2, <3>1, SpecialType
  <2> QED
    BY <2>1, <2>2
<1>4. /\ answer' \in Seq(Seq(Byte)) /\ DOMAIN answer \subseteq DOMAIN answer'
      /\ \A n \in DOMAIN answer : answer'[n] = answer[n]
  BY <1>1, <1>2, <1>3
<1>5. Plain(t) => /\ DOMAIN answer' = DOMAIN answer \cup {Len(answer) + 1}
                  /\ answer'[Len(answer) + 1] = t
  <2> SUFFICES ASSUME Plain(t) PROVE /\ DOMAIN answer' = DOMAIN answer \cup {Len(answer) + 1}
                                     /\ answer'[Len(answer) + 1] = t
    OBVIOUS
  <2>1. /\ answer' = answer \o <<t>> /\ t \in Seq(Byte)
    BY <1>1, <1>2, <1>3
  <2> QED
    BY <2>1, <1>2
<1>6. TypeOK'
  BY <1>1, <1>2, <1>4 DEF TypeOK
<1>7. Start' /\ Blank' /\ Meant' /\ Listing' /\ Adding' /\ Written'
  BY <1>1 DEF Start, Blank, Meant, Listing, Adding, Written, Lines
<1>8. AgreesUpTo(entries, mentions, Processed)'
  BY <1>1 DEF AgreesUpTo, Processed
<1>9. Answered'
  <2>1. ASSUME NEW u \in sent', Plain(u)
        PROVE  \E n \in DOMAIN answer' : answer'[n] = u
    <3>1. CASE u = t
      BY <3>1, <2>1, <1>5
    <3>2. CASE u \in sent
      <4>1. PICK n \in DOMAIN answer : answer[n] = u
        BY <3>2, <2>1 DEF Answered
      <4> QED
        BY <4>1, <1>4
    <3> QED
      BY <1>1, <3>1, <3>2
  <2>2. ASSUME \A u \in sent' : Plain(u)
        PROVE  /\ \A n \in DOMAIN answer' : answer'[n] \in sent'
               /\ \A m, n \in DOMAIN answer' : answer'[m] = answer'[n] => m = n
    <3>1. Plain(t) /\ \A u \in sent : Plain(u)
      BY <2>2, <1>1
    <3>2. /\ \A n \in DOMAIN answer : answer'[n] \in sent
          /\ \A m, n \in DOMAIN answer : answer'[m] = answer'[n] => m = n
      BY <3>1, <1>4 DEF Answered
    <3>3. /\ DOMAIN answer' = DOMAIN answer \cup {Len(answer) + 1}
          /\ answer'[Len(answer) + 1] = t
      BY <3>1, <1>5
    <3> QED
      BY <1>1, <3>2, <3>3
  <2> QED
    BY <1>1, <2>1, <2>2 DEF Answered
<1> QED
  BY <1>6, <1>7, <1>8, <1>9

LEMMA KeepsPublish == ASSUME IInv, Publish PROVE IInv'
<1> USE DEF IInv
<1>1. /\ stage = "editing" /\ stage' = "answering" /\ file' = Lines
      /\ UNCHANGED <<array, length, list, pos, entries, sent, answer, mentions>>
  BY DEF Publish
<1>2. answer = <<>> /\ sent = {}
  BY <1>1 DEF Answered
<1>3. Lines \subseteq Seq(Byte)
  <2> SUFFICES ASSUME NEW k \in Key, entries[k] # Unset PROVE Text(k, entries[k]) \in Seq(Byte)
    BY DEF Lines
  <2>1. entries[k] \in Seq(Byte) \cup {None}
    BY DEF TypeOK
  <2> QED
    BY <2>1, PairOfText
<1>4. TypeOK'
  BY <1>1, <1>2, <1>3 DEF TypeOK
<1>5. Written' /\ Answered'
  BY <1>1, <1>2 DEF Written, Answered, Lines
<1>6. Start' /\ Blank' /\ Meant' /\ Listing' /\ Adding'
      /\ AgreesUpTo(entries, mentions, Processed)'
  BY <1>1 DEF Start, Blank, Meant, Listing, Adding, AgreesUpTo, Processed, MeantText
<1> QED
  BY <1>4, <1>5, <1>6

LEMMA KeepsRest == ASSUME IInv, Found \/ Republish \/ UNCHANGED vars PROVE IInv'
<1> USE DEF IInv, Start, Blank, Meant, Listing, Adding, Written, Answered, Lines
<1>1. CASE Found
  <2>1. /\ stage = "answering" /\ sent = file /\ stage' = "found"
        /\ UNCHANGED <<array, length, list, pos, entries, file, sent, answer, mentions>>
    BY <1>1 DEF Found
  <2>2. TypeOK' /\ Start' /\ Blank' /\ Meant' /\ Listing' /\ Adding' /\ Written'
    BY <2>1 DEF TypeOK
  <2>3. Answered'
    BY <2>1
  <2>4. AgreesUpTo(entries, mentions, Processed)'
    BY <2>1 DEF AgreesUpTo, Processed
  <2> QED
    BY <2>2, <2>3, <2>4
<1>2. CASE Republish
  <2>1. /\ stage = "found" /\ stage' = "editing" /\ sent' = {} /\ answer' = <<>>
        /\ UNCHANGED <<array, length, list, pos, entries, file, mentions>>
    BY <1>2 DEF Republish
  <2>2. TypeOK'
    BY <2>1 DEF TypeOK
  <2>3. Start' /\ Blank' /\ Meant' /\ Listing' /\ Adding' /\ Written' /\ Answered'
    BY <2>1
  <2>4. AgreesUpTo(entries, mentions, Processed)'
    BY <2>1 DEF AgreesUpTo, Processed
  <2> QED
    BY <2>2, <2>3, <2>4
<1>3. CASE UNCHANGED vars
  BY <1>3 DEF vars, TypeOK, AgreesUpTo, Processed, MeantText
<1> QED
  BY <1>1, <1>2, <1>3

LEMMA TableStays == IInv /\ [Next]_vars => IInv'
<1> SUFFICES ASSUME IInv, [Next]_vars PROVE IInv'
  OBVIOUS
<1>1. ASSUME NEW meant \in Lists, NEW ended \in BOOLEAN,
             NEW more \in {<<>>} \cup {<<k>> : k \in Key}, NewList(meant, ended, more)
      PROVE  IInv'
  BY <1>1, KeepsNewList
<1>2. ASSUME NewNode \/ ListEnds \/ AddEntry \/ Added PROVE IInv'
  BY <1>2, KeepsNewNode, KeepsListEnds, KeepsAddEntry, KeepsAdded
<1>3. ASSUME NEW k \in Key,
             \/ \E v \in CStrings \cup {None} : Set(k, v)
             \/ \E v \in Value : SetArbitrary(k, v)
             \/ RemoveKey(k)
      PROVE  IInv'
  BY <1>3, KeepsEdits
<1>4. ASSUME NEW t \in file, NEW read, Answer(t, read) PROVE IInv'
  BY <1>4, KeepsAnswer
<1>5. ASSUME Publish \/ Found \/ Republish \/ UNCHANGED vars PROVE IInv'
  BY <1>5, KeepsPublish, KeepsRest
<1> QED
  BY <1>1, <1>2, <1>3, <1>4, <1>5 DEF Next

LEMMA Inductive == Spec => []IInv
<1> QED
  BY TableStarts, TableStays, PTL DEF Spec

-----------------------------------------------------------------------------
(* What the properties of StringList follow from                           *)

\* What was said last of a key is what the table holds for it.
LEMMA TableHoldsLast ==
  ASSUME IInv, stage = "found", NEW k \in Key
  PROVE  /\ \A v \in Value \cup {None} : LastSaid(k, v) => entries[k] = Stored(v)
         /\ entries[k] # Unset =>
              \E v \in Value \cup {None} : LastSaid(k, v) /\ entries[k] = Stored(v)
<1>1. /\ mentions \in Seq(Key \X (Value \cup {None, Unset})) /\ Len(mentions) \in Nat
      /\ DOMAIN mentions = 1..Len(mentions)
      /\ AgreesUpTo(entries, mentions, Len(mentions))
  BY DEF IInv, TypeOK, Processed
<1>2. ASSUME NEW i \in 1..Len(mentions)
      PROVE  /\ mentions[i] = <<mentions[i][1], mentions[i][2]>>
             /\ mentions[i][2] \in Value \cup {None, Unset}
  <2>1. mentions[i] \in Key \X (Value \cup {None, Unset})
    BY <1>1
  <2> QED
    BY <2>1
<1>3. CASE entries[k] = Unset /\ \A j \in 1..Len(mentions) : mentions[j][1] # k
  <2>1. \A v : ~LastSaid(k, v)
    BY <1>1, <1>3 DEF LastSaid
  <2> QED
    BY <1>3, <2>1
<1>4. ASSUME NEW i \in 1..Len(mentions), mentions[i][1] = k,
             entries[k] = Stored(mentions[i][2]),
             \A j \in (i + 1)..Len(mentions) : mentions[j][1] # k
      PROVE  /\ \A v \in Value \cup {None} : LastSaid(k, v) => entries[k] = Stored(v)
             /\ entries[k] # Unset =>
                  \E v \in Value \cup {None} : LastSaid(k, v) /\ entries[k] = Stored(v)
  <2>1. ASSUME NEW v, LastSaid(k, v) PROVE v = mentions[i][2]
    <3>1. PICK m \in 1..Len(mentions) :
            mentions[m] = <<k, v>> /\ \A j \in (m + 1)..Len(mentions) : mentions[j][1] # k
      BY <1>1, <2>1 DEF LastSaid
    <3>2. m = i
      BY <1>1, <1>4, <3>1
    <3> QED
      BY <3>1, <3>2
  <2>2. LastSaid(k, mentions[i][2])
    BY <1>1, <1>2, <1>4 DEF LastSaid
  <2>3. entries[k] # Unset => mentions[i][2] \in Value \cup {None}
    BY <1>2, <1>4 DEF Stored
  <2> QED
    BY <1>4, <2>1, <2>2, <2>3
<1> QED
  BY <1>1, <1>3, <1>4 DEF AgreesUpTo

\* A key whose text is plain has a node in the answer, which says what the table
\* holds.
LEMMA NodeOfKey ==
  ASSUME IInv, stage = "found", NEW k \in Key, entries[k] # Unset,
         Plain(Text(k, entries[k]))
  PROVE  \E n \in DOMAIN answer : KeyOf(answer[n]) = k /\ answer[n] = Text(k, entries[k])
<1>1. Text(k, entries[k]) \in sent
  BY DEF IInv, Answered, Written, Lines
<1>2. PICK n \in DOMAIN answer : answer[n] = Text(k, entries[k])
  BY <1>1 DEF IInv, Answered
<1>3. entries[k] \in Seq(Byte) \cup {None}
  BY DEF IInv, TypeOK
<1> QED
  BY <1>2, <1>3, PairOfText

\* When all that was said last is plain, so are all the lines, ...
LEMMA PlainLines ==
  ASSUME IInv, stage = "found", Readable
  PROVE  /\ sent = file
         /\ \A t \in sent : Plain(t)
         /\ \A k \in Key : entries[k] # Unset => Plain(Text(k, entries[k]))
<1>1. ASSUME NEW k \in Key, entries[k] # Unset PROVE Plain(Text(k, entries[k]))
  <2>1. PICK v \in Value \cup {None} : LastSaid(k, v) /\ entries[k] = Stored(v)
    BY <1>1, TableHoldsLast
  <2> QED
    BY <2>1 DEF Readable
<1>2. sent = file /\ file = Lines
  BY DEF IInv, Answered, Written
<1> QED
  BY <1>1, <1>2 DEF Lines

\* ... each node of the answer is that of a key in the table, and can be found
\* under that key only, ...
LEMMA MatchesNode ==
  ASSUME IInv, stage = "found", Readable, NEW n \in DOMAIN answer
  PROVE  LET c == KeyOf(answer[n]) IN
         /\ c \in Key /\ entries[c] \in Seq(Byte) \cup {None} /\ entries[c] # Unset
         /\ answer[n] = Text(c, entries[c])
         /\ \A k \in Key : Matches(answer[n], k) <=> c = k /\ entries[k] # None
<1>1. answer[n] \in Lines
  BY PlainLines DEF IInv, Answered, Written
<1>2. PICK c \in Key : entries[c] # Unset /\ answer[n] = Text(c, entries[c])
  BY <1>1 DEF Lines
<1>3. entries[c] \in Seq(Byte) \cup {None}
  BY <1>2 DEF IInv, TypeOK
<1>4. KeyOf(answer[n]) = c
  BY <1>2, <1>3, PairOfText
<1>5. ASSUME NEW k \in Key PROVE Matches(Text(c, entries[c]), k) <=> c = k /\ entries[c] # None
  BY <1>3, MatchesOnlyItsKey
<1> QED
  BY <1>2, <1>3, <1>4, <1>5

\* ... and no key has two.
LEMMA OneNode ==
  ASSUME IInv, stage = "found", Readable, NEW m \in DOMAIN answer, NEW n \in DOMAIN answer,
         KeyOf(answer[m]) = KeyOf(answer[n])
  PROVE  m = n
<1>1. answer[m] = answer[n]
  <2>1. answer[m] = Text(KeyOf(answer[m]), entries[KeyOf(answer[m])])
    BY MatchesNode
  <2>2. answer[n] = Text(KeyOf(answer[n]), entries[KeyOf(answer[n])])
    BY MatchesNode
  <2> QED
    BY <2>1, <2>2
<1> QED
  BY <1>1, PlainLines DEF IInv, Answered

-----------------------------------------------------------------------------
(* The theorems                                                            *)

\* Every variable of StringList keeps its type, for any bytes, keys and lists.
THEOREM TableTyped == Spec => []TypeOK
<1> QED
  BY Inductive, PTL DEF IInv

\* A lookup finds under a key what was said of it last, up to a NUL, and nothing
\* when it was removed, never mentioned or said without a value, if nothing that
\* was said last has a special byte (generate_dnssd_content and
\* ga_string_list_find, ga-entry-group.c:509-527 and 737-756).
THEOREM WhatIsSaidIsFound == Spec => []FindsPublished
<1>1. ASSUME IInv PROVE FindsPublished
  <2> SUFFICES ASSUME stage = "found", Readable, NEW k \in Key
               PROVE  /\ \A v \in Value : LastSaid(k, v) =>
                           \E n \in DOMAIN answer : /\ Finds(answer, k, n)
                                                    /\ KeyOf(answer[n]) = k
                                                    /\ ValueOf(answer[n]) = CString(v)
                      /\ (~\E v \in Value : LastSaid(k, v)) =>
                           \A n \in DOMAIN answer : ~Finds(answer, k, n)
    BY DEF FindsPublished
  <2>1. ASSUME NEW v \in Value, LastSaid(k, v)
        PROVE  \E n \in DOMAIN answer : /\ Finds(answer, k, n)
                                        /\ KeyOf(answer[n]) = k
                                        /\ ValueOf(answer[n]) = CString(v)
    <3>1. entries[k] = CString(v) /\ CString(v) \in Seq(Byte)
      BY <1>1, <2>1, TableHoldsLast, StoredType
    <3>2. entries[k] # Unset /\ entries[k] # None
      BY <3>1, MarksApart
    <3>3. PICK n \in DOMAIN answer : KeyOf(answer[n]) = k /\ answer[n] = Text(k, entries[k])
      BY <1>1, <3>2, PlainLines, NodeOfKey
    <3>4. ValueOf(answer[n]) = CString(v)
      BY <3>1, <3>2, <3>3, PairOfText
    <3>5. Matches(answer[n], k)
      BY <1>1, <3>2, <3>3, MatchesNode
    <3>6. answer \in Seq(Seq(Byte)) /\ DOMAIN answer = 1..Len(answer) /\ n \in 1..Len(answer)
      BY <1>1, <3>3 DEF IInv, TypeOK
    <3>7. ASSUME NEW j \in 1..(n - 1) PROVE ~Matches(answer[j], k)
      <4>1. j \in DOMAIN answer /\ j # n
        BY <3>6
      <4>2. KeyOf(answer[j]) # k
        BY <1>1, <3>3, <4>1, OneNode
      <4> QED
        BY <1>1, <4>1, <4>2, MatchesNode
    <3> QED
      BY <3>3, <3>4, <3>5, <3>7 DEF Finds
  <2>2. ASSUME NEW n \in DOMAIN answer, Finds(answer, k, n)
        PROVE  \E v \in Value : LastSaid(k, v)
    <3>1. Matches(answer[n], k)
      BY <2>2 DEF Finds
    <3>2. /\ KeyOf(answer[n]) = k /\ entries[k] # None /\ entries[k] # Unset
          /\ entries[k] \in Seq(Byte) \cup {None}
      BY <1>1, <3>1, MatchesNode
    <3>3. PICK v \in Value \cup {None} : LastSaid(k, v) /\ entries[k] = Stored(v)
      BY <1>1, <3>2, TableHoldsLast
    <3>4. v # None
      BY <3>2, <3>3 DEF Stored
    <3> QED
      BY <3>3, <3>4
  <2> QED
    BY <2>1, <2>2
<1> QED
  BY <1>1, Inductive, PTL

\* What ga_string_list_get_pair makes of the text of what was said.
LEMMA ValueOfSaid ==
  ASSUME IInv, stage = "found", NEW k \in Key, NEW v \in Value \cup {None},
         entries[k] = Stored(v)
  PROVE  /\ entries[k] # Unset
         /\ ValueOf(Text(k, entries[k])) = IF v = None THEN <<>> ELSE CString(v)
<1>1. CASE v = None
  BY <1>1, PairOfText, MarksApart DEF Stored
<1>2. CASE v \in Value
  <2>1. Stored(v) = CString(v) /\ Stored(v) \in Seq(Byte)
    BY <1>2, StoredType
  <2>2. v # None /\ entries[k] # None /\ entries[k] # Unset
    BY <1>2, <2>1, MarksApart, ValuesBytes
  <2> QED
    BY <2>1, <2>2, PairOfText
<1> QED
  BY <1>1, <1>2

\* Walking a list with ga_string_list_get_pair gives each key whose text is plain,
\* and each once and nothing else if all are, with what was said of it last
\* (ga-entry-group.c:769-803).
THEOREM EachKeyReadOnce == Spec => []WalkReads
<1>1. ASSUME IInv PROVE WalkReads
  <2> SUFFICES ASSUME stage = "found" PROVE WalkReads
    BY DEF WalkReads
  <2>1. Readable => \A m, n \in DOMAIN answer : KeyOf(answer[m]) = KeyOf(answer[n]) => m = n
    BY <1>1, OneNode
  <2>2. ASSUME Readable, NEW n \in DOMAIN answer
        PROVE  \E v \in Value \cup {None} :
                 /\ LastSaid(KeyOf(answer[n]), v)
                 /\ ValueOf(answer[n]) = IF v = None THEN <<>> ELSE CString(v)
    <3> DEFINE c == KeyOf(answer[n])
    <3>1. c \in Key /\ entries[c] # Unset /\ answer[n] = Text(c, entries[c])
      BY <1>1, <2>2, MatchesNode
    <3> HIDE DEF c
    <3>2. PICK v \in Value \cup {None} : LastSaid(c, v) /\ entries[c] = Stored(v)
      BY <1>1, <3>1, TableHoldsLast
    <3>3. ValueOf(Text(c, entries[c])) = IF v = None THEN <<>> ELSE CString(v)
      BY <1>1, <3>1, <3>2, ValueOfSaid
    <3> QED
      BY <3>1, <3>2, <3>3 DEF c
  <2>3. ASSUME NEW k \in Key, NEW v \in Value \cup {None}, LastSaid(k, v),
               Plain(Text(k, Stored(v)))
        PROVE  \E n \in DOMAIN answer :
                 /\ KeyOf(answer[n]) = k
                 /\ ValueOf(answer[n]) = IF v = None THEN <<>> ELSE CString(v)
    <3>1. entries[k] = Stored(v)
      BY <1>1, <2>3, TableHoldsLast
    <3>2. /\ entries[k] # Unset
          /\ ValueOf(Text(k, entries[k])) = IF v = None THEN <<>> ELSE CString(v)
      BY <1>1, <3>1, ValueOfSaid
    <3>3. PICK n \in DOMAIN answer : KeyOf(answer[n]) = k /\ answer[n] = Text(k, entries[k])
      BY <1>1, <2>3, <3>1, <3>2, NodeOfKey
    <3> QED
      BY <3>2, <3>3
  <2> QED
    BY <2>1, <2>2, <2>3 DEF WalkReads
<1> QED
  BY <1>1, Inductive, PTL

===============================================================================
