------------------------------ MODULE StringList ------------------------------
(***************************************************************************)
(* TXT entries (ga-entry-group.c, ga-service-resolver.c): their way from    *)
(* the program that publishes them to the one that looks them up.           *)
(*                                                                         *)
(* An entry is a text, "key=value" or a bare "key", in a GaStringList; a    *)
(* key and a value in the hash table of a service; a line of its .dnssd     *)
(* file; an element of the resolver's answer; and a text in a list again,   *)
(* searched by ga_string_list_find and taken apart by                       *)
(* ga_string_list_get_pair.  Texts are sequences of bytes, because the      *)
(* conversions cut them at a byte.                                          *)
(*                                                                         *)
(* generate_dnssd_content escapes nothing, and a .dnssd file has a syntax:  *)
(* a newline ends the line, white space ends or splits the text, quotes and *)
(* backslashes are taken away.  systemd-resolved is external: it answers    *)
(* with the lines of the file in any order, and a line with such a byte it  *)
(* may take for something else, for nothing, or for several texts.          *)
(***************************************************************************)
EXTENDS Integers, Sequences

CONSTANTS
  Char,        \* the bytes that are told apart, "=" and the NUL excepted
  Eq, Nul,     \* the bytes "=" and NUL
  Special,     \* bytes with a meaning in a .dnssd file, or that are not UTF-8
  Misread,     \* what resolved may take a line with such a byte for
  Key,         \* keys, in which no "=" occurs
  Value,       \* C strings, and bytes for ga_entry_group_service_set_arbitrary
  Lists,       \* what the lists mean that the publisher hands over
  MaxMentions, \* bound: mentions of keys by the publisher
  None,        \* no value (a bare key), the NULL that ends an array
  Unset        \* a key that is not in the table

Byte == Char \cup {Eq, Nul}

HasByte(t, c) == \E i \in DOMAIN t : t[i] = c
CStrings      == {v \in Value : ~HasByte(v, Nul)}

ASSUME BytesApart  == Eq \notin Char /\ Nul \notin Char /\ Eq # Nul
ASSUME KeysPlain   == Key \subseteq Seq(Char) \ {<<>>}
ASSUME SpecialType == Special \subseteq Char /\ Misread \subseteq Seq(Seq(Byte))
ASSUME ValuesBytes == Value \subseteq Seq(Byte)
ASSUME MarksApart  == /\ None # Unset
                      /\ {None, Unset} \cap Seq(Byte) = {}
ASSUME ListsPlain  == Lists \subseteq Seq(Key \X (CStrings \cup {None}))
ASSUME BoundType   == MaxMentions \in Nat

VARIABLES
  stage,     \* the part of the way the entries are on
  array,     \* the array of texts the publisher hands over, and
  length,    \* its length, negative when a NULL ends it
  list,      \* the GaStringList made of it
  pos,       \* the nodes or elements the loop of the stage has passed
  entries,   \* txt_entries of the service
  file,      \* the texts generate_dnssd_content has put behind "TxtText="
  sent,      \* those that resolved has put into its answer
  answer,    \* the list the resolver makes of the answer
  mentions   \* history: the keys the publisher mentioned, and what it gave them

vars == <<stage, array, length, list, pos, entries, file, sent, answer, mentions>>

-----------------------------------------------------------------------------
(* Bytes: texts, their parts, and the strings C sees                       *)

\* The place of the first c in t, which strchr and memchr look for.
First(t, c) == CHOOSE i \in DOMAIN t : t[i] = c /\ \A j \in 1..(i - 1) : t[j] # c

\* g_strndup: the bytes up to the first NUL.
CString(v) == IF HasByte(v, Nul) THEN SubSeq(v, 1, First(v, Nul) - 1) ELSE v

\* The text of an entry, as publishers write it and as it is put into the file.
Text(k, v) == IF v = None THEN k ELSE k \o <<Eq>> \o v

\* A text that is read back from the file as it was put there.
Plain(t) == \A i \in DOMAIN t : t[i] \notin Special

\* Mutant: the value of a bare key is the key.
ValueOfRepeats(t) == IF HasByte(t, Eq) THEN SubSeq(t, First(t, Eq) + 1, Len(t)) ELSE t

\* ga_string_list_get_pair: what precedes and what follows the first "=".
KeyOf(t)   == IF HasByte(t, Eq) THEN SubSeq(t, 1, First(t, Eq) - 1) ELSE t
ValueOf(t) == IF HasByte(t, Eq) THEN SubSeq(t, First(t, Eq) + 1, Len(t)) ELSE <<>>

\* Mutant: the byte after the key is not looked at.
MatchesPrefix(t, k) == Len(t) > Len(k) /\ SubSeq(t, 1, Len(k)) = k

\* The test of ga_string_list_find: a bare key is not found.
Matches(t, k) ==
  /\ Len(t) > Len(k)
  /\ t[Len(k) + 1] = Eq
  /\ SubSeq(t, 1, Len(k)) = k

\* n is the place of the node that ga_string_list_find returns for k.
Finds(l, k, n) ==
  /\ n \in DOMAIN l
  /\ Matches(l[n], k)
  /\ \A j \in 1..(n - 1) : ~Matches(l[j], k)

-----------------------------------------------------------------------------

Init ==
  /\ stage = "new"
  /\ array = <<>> /\ length = 0 /\ list = <<>> /\ pos = 0
  /\ entries = [k \in Key |-> Unset]
  /\ file = {} /\ sent = {} /\ answer = <<>>
  /\ mentions = <<>>

\* The publisher calls ga_string_list_new_from_array for the texts it means:
\* those before the NULL that ends the array, whose length it may give or
\* not, or the first of a longer one.  (ga_string_list_new reads its
\* arguments like an array that a NULL ends.)
NewList(meant, ended, more) ==
  LET texts == [i \in DOMAIN meant |-> Text(meant[i][1], meant[i][2])] IN
  /\ stage = "new"
  /\ stage'    = "listing"
  /\ array'    = texts \o (IF ended THEN <<None>> ELSE <<>>) \o more
  /\ length' \in IF ended THEN {-1, Len(meant) + 1} ELSE {Len(meant)}
  /\ mentions' = meant
  /\ UNCHANGED <<list, pos, entries, file, sent, answer>>

\* The loop of ga_string_list_new_from_array goes on, at the element after pos.
More == (length < 0 \/ pos < length) /\ array[pos + 1] # None

\* Mutant: the loop runs to the length given, whatever the elements are.
NewNodeUnended ==
  /\ stage = "listing" /\ pos < Len(array)
  /\ list' = Append(list, array[pos + 1])
  /\ pos'  = pos + 1
  /\ UNCHANGED <<stage, array, length, entries, file, sent, answer, mentions>>

NewNode ==
  /\ stage = "listing" /\ More
  /\ list' = Append(list, array[pos + 1])
  /\ pos'  = pos + 1
  /\ UNCHANGED <<stage, array, length, entries, file, sent, answer, mentions>>

\* The list is complete, and handed to ga_entry_group_add_service_strlist.
ListEnds ==
  /\ stage = "listing"
  /\ ~More
  /\ stage' = "adding" /\ pos' = 0
  /\ UNCHANGED <<array, length, list, entries, file, sent, answer, mentions>>

\* It parses each node with strchr; the table keeps the last text of a key.
AddEntry ==
  /\ stage = "adding" /\ pos < Len(list)
  /\ LET t == list[pos + 1] IN
       entries' = [entries EXCEPT ![KeyOf(t)] = IF HasByte(t, Eq) THEN ValueOf(t)
                                                                  ELSE None]
  /\ pos' = pos + 1
  /\ UNCHANGED <<stage, array, length, list, file, sent, answer, mentions>>

\* The table has copies; the publisher frees the list (ga_string_list_free).
Added ==
  /\ stage = "adding" /\ pos = Len(list)
  /\ stage' = "editing"
  /\ array' = <<>> /\ length' = 0 /\ list' = <<>> /\ pos' = 0
  /\ UNCHANGED <<entries, file, sent, answer, mentions>>

Edit(k, v, stored) ==
  /\ stage = "editing"
  /\ Len(mentions) < MaxMentions
  /\ entries'  = [entries EXCEPT ![k] = stored]
  /\ mentions' = Append(mentions, <<k, v>>)
  /\ UNCHANGED <<stage, array, length, list, pos, file, sent, answer>>

\* ga_entry_group_service_set, service_set_arbitrary and service_remove_key.
Set(k, v)          == Edit(k, v, v)
SetArbitrary(k, v) == Edit(k, v, CString(v))
RemoveKey(k)       == Edit(k, Unset, Unset)

\* The lines that generate_dnssd_content makes of the table.
Lines == {Text(k, entries[k]) : k \in {c \in Key : entries[c] # Unset}}

\* The group is committed: the file has a line for every entry of the table.
Publish ==
  /\ stage = "editing"
  /\ stage' = "answering"
  /\ file'  = Lines
  /\ UNCHANGED <<array, length, list, pos, entries, sent, answer, mentions>>

\* A line reaches the answer, and the resolver appends what it says to its list.
\* (Elements of the answer that are not strings add no node.)
Answer(t, read) ==
  /\ stage = "answering"
  /\ t \in file \ sent
  /\ IF Plain(t) THEN read = <<t>> ELSE read \in Misread
  /\ sent'   = sent \cup {t}
  /\ answer' = answer \o read
  /\ UNCHANGED <<stage, array, length, list, pos, entries, file, mentions>>

\* "found" hands the list to the program that looks the service up.
Found ==
  /\ stage = "answering"
  /\ sent = file
  /\ stage' = "found"
  /\ UNCHANGED <<array, length, list, pos, entries, file, sent, answer, mentions>>

\* The publisher changes entries again and thaws; the next lookup starts anew.
Republish ==
  /\ stage = "found"
  /\ stage' = "editing" /\ sent' = {} /\ answer' = <<>>
  /\ UNCHANGED <<array, length, list, pos, entries, file, mentions>>

Next ==
  \/ \E meant \in Lists, ended \in BOOLEAN, more \in {<<>>} \cup {<<k>> : k \in Key} :
       NewList(meant, ended, more)
  \/ NewNode \/ ListEnds \/ AddEntry \/ Added
  \/ \E k \in Key : \/ \E v \in CStrings \cup {None} : Set(k, v)
                    \/ \E v \in Value : SetArbitrary(k, v)
                    \/ RemoveKey(k)
  \/ \E t \in file : \E read \in Misread \cup {<<t>>} : Answer(t, read)
  \/ Publish \/ Found \/ Republish

Spec == Init /\ [][Next]_vars

-----------------------------------------------------------------------------
(* Properties                                                              *)

\* The last thing the publisher said of k was v.
LastSaid(k, v) ==
  \E i \in DOMAIN mentions :
    /\ mentions[i] = <<k, v>>
    /\ \A j \in (i + 1)..Len(mentions) : mentions[j][1] # k

\* What the table has of it.
Stored(v) == IF v \in {None, Unset} THEN v ELSE CString(v)

\* All that the publisher has said last can be put into a .dnssd file as it is.
Readable ==
  \A k \in Key : \A v \in Value \cup {None} : LastSaid(k, v) => Plain(Text(k, Stored(v)))

TypeOK ==
  /\ stage \in {"new", "listing", "adding", "editing", "answering", "found"}
  /\ array \in Seq(Seq(Byte) \cup {None})
  /\ length \in Int
  /\ list \in Seq(Seq(Byte))
  /\ pos \in Nat
  /\ entries \in [Key -> Seq(Byte) \cup {None, Unset}]
  /\ file \subseteq Seq(Byte) /\ sent \subseteq file
  /\ answer \in Seq(Seq(Byte))
  /\ mentions \in Seq(Key \X (Value \cup {None, Unset}))

(* If no key and no value that was said last has a special byte, what a      *)
(* program that looks the service up finds under a key is what the publisher *)
(* said of it last, up to the first NUL: not an entry with a longer key, not *)
(* one it replaced or removed, and with every "=" of the value.  A key       *)
(* without a value is never found (ga-entry-group.c:727).  With a special    *)
(* byte anywhere this does not hold of any key: the line that it makes       *)
(* (ga-entry-group.c:515) may be read as an entry for another key.           *)
FindsPublished ==
  stage = "found" /\ Readable =>
    \A k \in Key :
      /\ \A v \in Value : LastSaid(k, v) =>
           \E n \in DOMAIN answer : /\ Finds(answer, k, n)
                                    /\ KeyOf(answer[n]) = k
                                    /\ ValueOf(answer[n]) = CString(v)
      /\ (~\E v \in Value : LastSaid(k, v)) =>
           \A n \in DOMAIN answer : ~Finds(answer, k, n)

(* Walking the list with get_pair meets each key that was said last without  *)
(* a special byte, whatever bytes the others have.  If none has one, it      *)
(* meets each once, a bare one with an empty value, and nothing else: lists  *)
(* that repeat keys, arrays with a NULL or longer than their length and      *)
(* the two ways a text is taken apart (strchr, memchr) do not differ.        *)
WalkReads ==
  stage = "found" =>
    /\ Readable =>
         /\ \A m, n \in DOMAIN answer : KeyOf(answer[m]) = KeyOf(answer[n]) => m = n
         /\ \A n \in DOMAIN answer :
              \E v \in Value \cup {None} :
                /\ LastSaid(KeyOf(answer[n]), v)
                /\ ValueOf(answer[n]) = IF v = None THEN <<>> ELSE CString(v)
    /\ \A k \in Key : \A v \in Value \cup {None} :
         LastSaid(k, v) /\ Plain(Text(k, Stored(v))) =>
           \E n \in DOMAIN answer :
             /\ KeyOf(answer[n]) = k
             /\ ValueOf(answer[n]) = IF v = None THEN <<>> ELSE CString(v)

===============================================================================
