------------------------------ MODULE SecsItems ------------------------------
(***************************************************************************)
(* SECS-II items as the gem package builds, sends and reads them.  An item *)
(* is its format and its elements: a list holds items, an identifier holds *)
(* one name, a binary or boolean item one number or truth value, a text    *)
(* its length.  The constructors give an item as the receiver decodes it.  *)
(*                                                                         *)
(* The decoder adds up length bytes that were shifted as bytes, so that    *)
(* only the last of them counts.  L and Text make items that are short in  *)
(* the code whatever the data: lists of at most six items, names, units,   *)
(* alarm texts and times.  SentList and SentText make those whose length   *)
(* is that of the data.  They are the last item of their message, so that  *)
(* the receiver ignores what was cut off; only the text of S7F6 is not     *)
(* (HostCommands).                                                         *)
(***************************************************************************)
EXTENDS Naturals, Sequences, FiniteSets

CONSTANT Byte   (* the values of a length byte, 256: no decoded item is as  *)
                (* long                                                    *)

ASSUME ByteAssumption == Byte \in Nat \ {0}

Empty == <<"E", <<>>>>

\* A list with one empty item, at any depth.  It has a variable, so a message
\* with it has no bytes and is never sent, not even its header.
Hollow == <<"V", <<>>>>

\* With two, the constructor of the list panics: nothing recovers, and the
\* process that builds the message ends.
Panicked == <<"P", <<>>>>

Holes(items) == {i \in DOMAIN items : items[i] \in {Empty, Hollow}}

\* A list of items of which the receiver reads those in read.
ListOf(items, read) ==
  IF \/ \E i \in DOMAIN items : items[i] = Panicked
     \/ \E i, j \in Holes(items) : i # j
  THEN Panicked
  ELSE IF Holes(items) # {} THEN Hollow ELSE <<"L", read>>

\* What arrives of a list of any length: its first elements.
Arrived(s) == SubSeq(s, 1, Len(s) % Byte)

L(items)        == ListOf(items, items)
SentList(items) == ListOf(items, Arrived(items))

Id(name) == <<"U", <<name>>>>
Bin(n)   == <<"B", <<n>>>>
Bool(b)  == <<"T", <<b>>>>

Text(n)     == <<"A", <<n>>>>
SentText(n) == <<"A", <<n % Byte>>>>

Format(item)   == item[1]
Elements(item) == item[2]

IsList(item) == Format(item) = "L"

Elems(s) == {s[i] : i \in DOMAIN s}
Least(S) == CHOOSE i \in S : \A j \in S : i <= j

\* A set of numbers in ascending order.
InOrder(S) ==
  CHOOSE s \in [1..Cardinality(S) -> S] :
    \A i, j \in DOMAIN s : i < j => s[i] < s[j]

\* newIDInfoFromNode: ASCII or an integer that is not negative.
IsId(item)   == Format(item) \in {"U", "I", "A"} /\ Elements(item) # <<>>
Name(item)   == Elements(item)[1]
AreIds(list) == \A i \in DOMAIN Elements(list) : IsId(Elements(list)[i])
Names(list)  == [i \in DOMAIN Elements(list) |-> Name(Elements(list)[i])]

\* An acknowledge code: a binary item, or a list that starts with one.
AckItem(item) ==
  IF IsList(item) /\ Elements(item) # <<>> THEN Elements(item)[1] ELSE item
IsAck(item) == Format(AckItem(item)) = "B" /\ Elements(AckItem(item)) # <<>>
Ack(item)   == Elements(AckItem(item))[1]

-----------------------------------------------------------------------------
(* The body of S2F33 and S2F35: a list of entries, or a DATAID and such a  *)
(* list; an entry is an identifier with a list of identifiers.             *)

IsEntry(item) ==
  /\ IsList(item) /\ Len(Elements(item)) >= 2
  /\ IsId(Elements(item)[1])
  /\ IsList(Elements(item)[2]) /\ AreIds(Elements(item)[2])

EntryItems(body) ==
  IF Elements(body) = <<>> \/ IsList(Elements(body)[1]) THEN Elements(body)
  ELSE Elements(Elements(body)[2])

AreEntries(body) ==
  /\ IsList(body)
  /\ Elements(body) # <<>> =>
       IsList(Elements(body)[1]) \/ (Len(Elements(body)) >= 2 /\ IsList(Elements(body)[2]))
  /\ \A i \in DOMAIN EntryItems(body) : IsEntry(EntryItems(body)[i])

Entries(body) ==
  [i \in DOMAIN EntryItems(body) |->
     [id  |-> Name(Elements(EntryItems(body)[i])[1]),
      ids |-> Names(Elements(EntryItems(body)[i])[2])]]

\* The body buildS2F33 and buildS2F35 make of a few short entries.
EntryBody(entries) ==
  L(<<Id(0), L([i \in DOMAIN entries |->
        L(<<Id(entries[i].id),
            L([j \in DOMAIN entries[i].ids |-> Id(entries[i].ids[j])])>>)])>>)
=============================================================================
