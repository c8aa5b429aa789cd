-------------------------- MODULE GemServices_proofs --------------------------
(***************************************************************************)
(* Theorems about the services of the equipment: alarms, variables and     *)
(* constants, commands and process programs.                               *)
(***************************************************************************)
EXTENDS Alarms, EquipmentData, HostCommands, FiniteSetTheorems, FunctionTheorems,
        SequenceTheorems, TLAPS

-----------------------------------------------------------------------------
(* A finite set of numbers can be put in order: a number goes where its    *)
(* rank says, and ranks are one to one because a larger number has the     *)
(* smaller ones below it.                                                  *)

LEMMA OrderExists ==
  ASSUME NEW S \in SUBSET Nat, IsFiniteSet(S)
  PROVE  LET s == InOrder(S)
         IN  /\ s \in [1..Cardinality(S) -> S]
             /\ \A i, j \in 1..Cardinality(S) : i < j => s[i] < s[j]
             /\ S = Elems(s)
<1>. DEFINE n == Cardinality(S)
            Below == [x \in S |-> {y \in S : y <= x}]
            rank == [x \in S |-> Cardinality(Below[x])]
<1>1. n \in Nat
  BY FS_CardinalityType
<1>2. ASSUME NEW x \in S
      PROVE  /\ Below[x] \in SUBSET S /\ IsFiniteSet(Below[x])
             /\ rank[x] \in 1..n /\ rank[x] = Cardinality(Below[x])
  <2>1. Below[x] \in SUBSET S /\ x \in Below[x]
    OBVIOUS
  <2>2. rank[x] = Cardinality(Below[x])
    OBVIOUS
  <2>. HIDE DEF Below, rank
  <2>3. IsFiniteSet(Below[x]) /\ Cardinality(Below[x]) <= n
    BY <2>1, FS_Subset
  <2>4. Cardinality(Below[x]) \in Nat /\ Cardinality(Below[x]) # 0
    BY <2>1, <2>3, FS_CardinalityType, FS_EmptySet
  <2>. HIDE DEF n
  <2>. QED  BY <1>1, <2>1, <2>2, <2>3, <2>4
<1>3. ASSUME NEW x \in S, NEW y \in S, x < y
      PROVE  rank[x] < rank[y]
  <2>1. x \in Nat /\ y \in Nat
    OBVIOUS
  <2>2. Below[x] \in SUBSET Below[y] /\ y \in Below[y] /\ y \notin Below[x]
    <3>1. ASSUME NEW z \in S, z <= x
          PROVE  z <= y
      <4>1. z \in Nat
        OBVIOUS
      <4>. QED  BY <1>3, <2>1, <3>1, <4>1
    <3>2. y <= y /\ ~(y <= x)
      BY <1>3, <2>1
    <3>. QED  BY <3>1, <3>2
  <2>. HIDE DEF Below, rank, n
  <2>3. Cardinality(Below[x]) <= Cardinality(Below[y]) /\ Cardinality(Below[x]) # Cardinality(Below[y])
    BY <1>2, <2>2, FS_Subset
  <2>4. rank[x] \in Nat /\ rank[y] \in Nat
    BY <1>1, <1>2
  <2>. QED  BY <1>2, <2>3, <2>4
<1>4. rank \in [S -> 1..n]
  BY <1>2
<1>5. IsFiniteSet(1..n) /\ Cardinality(1..n) = n
  BY <1>1, FS_Interval
<1>. HIDE DEF Below, rank
<1>6. \A x, y \in S : rank[x] = rank[y] => x = y
  <2>. SUFFICES ASSUME NEW x \in S, NEW y \in S, rank[x] = rank[y], x # y PROVE FALSE
    OBVIOUS
  <2>1. x < y \/ y < x
    OBVIOUS
  <2>2. rank[x] \in Nat /\ rank[y] \in Nat
    BY <1>1, <1>2
  <2>. QED  BY <1>3, <2>1, <2>2
<1>7. \A i \in 1..n : \E x \in S : rank[x] = i
  <2>1. rank \in Injection(S, 1..n)
    BY <1>4, <1>6, Fun_IsInj
  <2>2. rank \in Surjection(S, 1..n)
    BY <1>5, <2>1, FS_Injection
  <2>. QED  BY <2>2, Fun_SurjectionProperties
<1>. DEFINE t == [i \in 1..n |-> CHOOSE x \in S : rank[x] = i]
<1>8. \A i \in 1..n : t[i] \in S /\ rank[t[i]] = i
  BY <1>7
<1>9. t \in [1..n -> S]
  BY <1>8
<1>. HIDE DEF t, n
<1>10. \A i, j \in 1..n : i < j => t[i] < t[j]
  <2>. SUFFICES ASSUME NEW i \in 1..n, NEW j \in 1..n, i < j PROVE t[i] < t[j]
    OBVIOUS
  <2>. PICK x : x = t[i]
    OBVIOUS
  <2>. PICK y : y = t[j]
    OBVIOUS
  <2>1. x \in S /\ y \in S /\ rank[x] = i /\ rank[y] = j
    BY <1>8
  <2>2. x \in Nat /\ y \in Nat
    BY <2>1
  <2>3. i \in Nat /\ j \in Nat
    BY <1>1
  <2>4. x # y
    BY <2>1, <2>3
  <2>5. ~(y < x)
    BY <1>3, <2>1, <2>3
  <2>. QED  BY <2>2, <2>4, <2>5
<1>. DEFINE s == InOrder(S)
<1>11. s \in [1..n -> S] /\ \A i, j \in DOMAIN s : i < j => s[i] < s[j]
  BY <1>9, <1>10 DEF InOrder, n
<1>. HIDE DEF s
<1>12. S \subseteq Elems(s)
  <2>1. \A i, j \in 1..n : s[i] = s[j] => i = j
    <3>. SUFFICES ASSUME NEW i \in 1..n, NEW j \in 1..n, i < j, s[i] = s[j] PROVE FALSE
      BY <1>1
    <3>1. s[i] \in Nat /\ s[i] < s[j]
      BY <1>11
    <3>. QED  BY <3>1
  <2>2. s \in Injection(1..n, S)
    BY <1>11, <2>1, Fun_IsInj
  <2>3. s \in Surjection(1..n, S)
    BY <1>5, <2>2, FS_Injection DEF n
  <2>. QED  BY <2>3, Fun_SurjectionProperties DEF Elems
<1>13. Elems(s) \subseteq S
  BY <1>11 DEF Elems
<1>. QED  BY <1>11, <1>12, <1>13 DEF s, n

-----------------------------------------------------------------------------
(* Lists: what the constructor makes of items, and what arrives of them.   *)

Whole(item) == item \notin {Empty, Hollow, Panicked}

LEMMA NoItems ==
  /\ Empty # Hollow /\ Empty # Panicked /\ Hollow # Panicked
  /\ ~IsList(Empty) /\ ~IsList(Hollow) /\ ~IsList(Panicked)
BY DEF Empty, Hollow, Panicked, IsList, Format

LEMMA ListParts ==
  \A f : /\ Format(<<"L", f>>) = "L" /\ IsList(<<"L", f>>) /\ Elements(<<"L", f>>) = f
         /\ Whole(<<"L", f>>)
BY DEF Format, Elements, IsList, Whole, Empty, Hollow, Panicked

LEMMA IdIs == \A v : Whole(Id(v)) /\ Name(Id(v)) = v /\ IsId(Id(v)) /\ Format(Id(v)) = "U"
BY DEF Whole, Id, Empty, Hollow, Panicked, Name, Elements, IsId, Format

LEMMA TextIs == \A n : Whole(Text(n)) /\ Format(Text(n)) = "A" /\ Elements(Text(n))[1] = n
BY DEF Whole, Text, Empty, Hollow, Panicked, Format, Elements

LEMMA BinIs ==
  \A n : /\ Whole(Bin(n)) /\ Format(Bin(n)) = "B" /\ Elements(Bin(n)) # <<>>
         /\ Elements(Bin(n))[1] = n
BY DEF Whole, Bin, Empty, Hollow, Panicked, Format, Elements

LEMMA ListOfIs ==
  ASSUME NEW f, NEW g
  PROVE  /\ (\A i \in DOMAIN f : Whole(f[i])) => ListOf(f, g) = <<"L", g>>
         /\ ListOf(f, g) \in {Hollow, Panicked, <<"L", g>>}
         /\ Holes(f) # {} => ListOf(f, g) \in {Hollow, Panicked}
         /\ ListOf(f, g) = Panicked <=>
              (\E i \in DOMAIN f : f[i] = Panicked) \/ \E i, j \in Holes(f) : i # j
<1>1. Panicked # Hollow /\ Panicked # <<"L", g>>
  BY NoItems, ListParts DEF Whole
<1>2. (\A i \in DOMAIN f : Whole(f[i])) =>
        Holes(f) = {} /\ ~\E i \in DOMAIN f : f[i] = Panicked
  BY DEF Whole, Holes
<1>. QED  BY <1>1, <1>2 DEF ListOf

LEMMA ModIs ==
  ASSUME NEW n \in Nat
  PROVE  /\ n % Byte \in Nat /\ n % Byte < Byte /\ n % Byte <= n
         /\ n < Byte => n % Byte = n
BY ByteAssumption

LEMMA ArrivedIs ==
  ASSUME NEW T, NEW s \in Seq(T)
  PROVE  /\ Arrived(s) \in Seq(T) /\ Len(Arrived(s)) = Len(s) % Byte
         /\ DOMAIN Arrived(s) = 1..(Len(s) % Byte)
         /\ \A i \in DOMAIN Arrived(s) : i \in DOMAIN s /\ Arrived(s)[i] = s[i]
         /\ Len(s) < Byte => Arrived(s) = s
BY ModIs DEF Arrived

LEMMA OwnElems ==
  ASSUME NEW S, NEW s \in Seq(S)
  PROVE  s \in Seq(Elems(s)) /\ Elems(s) \subseteq S
<1>1. Len(s) \in Nat /\ DOMAIN s = 1..Len(s) /\ \A i \in 1..Len(s) : s[i] \in S
  BY LenProperties, ElementOfSeq
<1>2. Elems(s) \subseteq S
  BY <1>1 DEF Elems
<1>3. s = [i \in 1..Len(s) |-> s[i]]
  BY LenProperties
<1>4. s \in [1..Len(s) -> Elems(s)]
  BY <1>1, <1>3 DEF Elems
<1>. QED  BY <1>1, <1>2, <1>4

\* A function on an interval is a sequence.
LEMMA IntervalSeq ==
  ASSUME NEW n \in Nat, NEW f, f = [i \in 1..n |-> f[i]]
  PROVE  f \in Seq(Elems(f)) /\ Len(f) = n /\ DOMAIN f = 1..n
<1>1. DOMAIN f = 1..n
  OBVIOUS
<1>2. \A i \in 1..n : f[i] \in Elems(f)
  BY <1>1 DEF Elems
<1>3. f \in [1..n -> Elems(f)]
  BY <1>2
<1>4. f \in Seq(Elems(f))
  BY <1>3
<1>. QED  BY <1>1, <1>4

LEMMA ArrivedFunction ==
  ASSUME NEW T, NEW w \in Seq(T)
  PROVE  Arrived(w) = [i \in DOMAIN Arrived(w) |-> w[i]]
<1>1. Arrived(w) = [i \in DOMAIN Arrived(w) |-> Arrived(w)[i]]
  BY ArrivedIs, LenProperties
<1>. QED  BY <1>1, ArrivedIs

\* What arrives of the items that a function makes of a sequence.
LEMMA ArrivedMap ==
  ASSUME NEW T, NEW w \in Seq(T), NEW R, NEW f \in Seq(R), DOMAIN f = DOMAIN w
  PROVE  /\ DOMAIN Arrived(f) = DOMAIN Arrived(w)
         /\ \A i \in DOMAIN Arrived(w) : i \in DOMAIN w /\ Arrived(f)[i] = f[i]
         /\ Arrived(f) = <<>> <=> Arrived(w) = <<>>
<1>1. /\ Len(w) \in Nat /\ DOMAIN w = 1..Len(w)
      /\ Len(f) \in Nat /\ DOMAIN f = 1..Len(f)
  BY LenProperties
<1>2. Len(f) = Len(w)
  BY <1>1
<1>3. /\ Arrived(f) \in Seq(R) /\ DOMAIN Arrived(f) = 1..(Len(w) % Byte)
      /\ Len(Arrived(f)) = Len(w) % Byte
      /\ \A i \in DOMAIN Arrived(f) : Arrived(f)[i] = f[i]
  BY <1>2, ArrivedIs
<1>4. /\ Arrived(w) \in Seq(T) /\ DOMAIN Arrived(w) = 1..(Len(w) % Byte)
      /\ Len(Arrived(w)) = Len(w) % Byte
      /\ \A i \in DOMAIN Arrived(w) : i \in DOMAIN w
  BY ArrivedIs
<1>5. Arrived(f) = <<>> <=> Arrived(w) = <<>>
  BY <1>3, <1>4, EmptySeq
<1>. QED  BY <1>3, <1>4, <1>5

LEMMA ThreeItems ==
  ASSUME NEW x, NEW y, NEW z, Whole(x), Whole(y), Whole(z)
  PROVE  L(<<x, y, z>>) = <<"L", <<x, y, z>>>>
<1>. DEFINE p == <<x, y, z>>
<1>1. DOMAIN p = 1..3 /\ p[1] = x /\ p[2] = y /\ p[3] = z
  OBVIOUS
<1>. HIDE DEF p
<1>2. \A i \in DOMAIN p : i = 1 \/ i = 2 \/ i = 3
  BY <1>1
<1>3. \A i \in DOMAIN p : Whole(p[i])
  BY <1>1, <1>2
<1>4. L(p) = <<"L", p>>
  BY <1>3, ListOfIs DEF L
<1>. QED  BY <1>4 DEF p

LEMMA TwoItems ==
  ASSUME NEW x, NEW y, Whole(x), Whole(y)
  PROVE  L(<<x, y>>) = <<"L", <<x, y>>>>
<1>. DEFINE p == <<x, y>>
<1>1. DOMAIN p = 1..2 /\ p[1] = x /\ p[2] = y
  OBVIOUS
<1>. HIDE DEF p
<1>2. \A i \in DOMAIN p : Whole(p[i])
  BY <1>1
<1>3. L(p) = <<"L", p>>
  BY <1>2, ListOfIs DEF L
<1>. QED  BY <1>3 DEF p

-----------------------------------------------------------------------------
(* Alarms.                                                                 *)

AlarmMessages == [alid : Alids, set : BOOLEAN]
AlarmItems    == {AlarmItem(m) : m \in AlarmMessages}

About(item) == Name(Elements(item)[2])
Says(item)  == Elements(Elements(item)[1])[1] # 0

\* What the host will have been told of alarm a when it has read the messages s.
IsTold(a, set, s, told) ==
  \/ \E i \in DOMAIN s : /\ About(s[i]) = a /\ Says(s[i]) = set
                         /\ \A j \in DOMAIN s : j > i => About(s[j]) # a
  \/ told[a] = set /\ \A i \in DOMAIN s : About(s[i]) # a

\* An alarm that is not in doubt has one report under way at most, the right one,
\* or the host will have been told.
Reported(a) ==
  /\ \A p, q \in Raisers : raisers[p].alid = a /\ raisers[q].alid = a => p = q
  /\ \A p \in Raisers : raisers[p].alid = a => raisers[p].set = alarms[a].set
  /\ ~Pending(a) => IsTold(a, alarms[a].set, wire, view)

AlarmTables ==
  /\ DOMAIN alarms \subseteq Alids /\ IsFiniteSet(DOMAIN alarms)
  /\ \A a \in DOMAIN alarms : alarms[a] \in [set : BOOLEAN, enabled : BOOLEAN]
  /\ view \in [Alids -> BOOLEAN]
  /\ doubt \subseteq Alids

AlarmsUnderWay ==
  /\ raisers \in [Raisers -> AlarmMessages \cup {NoMessage}]
  /\ \A p \in Raisers : raisers[p] = NoMessage \/ raisers[p].alid \in DOMAIN alarms
  /\ wire \in Seq(AlarmItems) /\ Len(wire) <= MaxWire

AlarmsInv ==
  /\ AlarmTables /\ AlarmsUnderWay
  /\ \A a \in DOMAIN alarms \ doubt : Reported(a)
  /\ ListFaithful

LEMMA AlarmItemIs ==
  ASSUME NEW m \in AlarmMessages
  PROVE  LET item == AlarmItem(m)
         IN  IsAlarm(item) /\ About(item) = m.alid /\ Says(item) = m.set
<1>. PICK n : n = IF m.set THEN 1 ELSE 0
  OBVIOUS
<1>1. Whole(Bin(n)) /\ Whole(Id(m.alid)) /\ Whole(Text(5))
  BY TextIs, BinIs, IdIs
<1>2. AlarmItem(m) = <<"L", <<Bin(n), Id(m.alid), Text(5)>>>>
  BY <1>1, ThreeItems DEF AlarmItem
<1>. DEFINE item == AlarmItem(m)
<1>3. /\ Format(item) = "L" /\ Len(Elements(item)) = 3
      /\ Elements(item)[1] = Bin(n) /\ Elements(item)[2] = Id(m.alid)
  BY <1>2 DEF Format, Elements
<1>. HIDE DEF item
<1>4. /\ Format(Bin(n)) = "B" /\ Elements(Bin(n)) # <<>> /\ Elements(Bin(n))[1] = n
      /\ Format(Id(m.alid)) = "U" /\ Name(Id(m.alid)) = m.alid
  BY DEF Bin, Id, Format, Elements, Name
<1>5. IsAlarm(item) /\ About(item) = m.alid
  BY <1>3, <1>4 DEF IsAlarm, IsList, About
<1>6. m.set \in BOOLEAN /\ (n # 0) = m.set
  BY DEF AlarmMessages
<1>7. Says(item) = m.set
  BY <1>3, <1>4, <1>6 DEF Says
<1>. QED  BY <1>5, <1>7 DEF item

LEMMA WireItemIs ==
  ASSUME NEW item \in AlarmItems
  PROVE  IsAlarm(item) /\ About(item) \in Alids /\ Says(item) \in BOOLEAN
<1>. PICK m \in AlarmMessages : item = AlarmItem(m)
  BY DEF AlarmItems
<1>. QED  BY AlarmItemIs DEF AlarmMessages

\* One more message is written.
LEMMA ToldAppend ==
  ASSUME NEW s \in Seq(AlarmItems), NEW item \in AlarmItems, NEW a, NEW set, NEW told,
         About(item) = a => Says(item) = set,
         About(item) # a => IsTold(a, set, s, told)
  PROVE  IsTold(a, set, Append(s, item), told)
<1>. DEFINE t == Append(s, item)
            n == Len(s) + 1
<1>1. /\ t \in Seq(AlarmItems) /\ Len(t) = n /\ t[n] = item
      /\ \A i \in 1..Len(s) : t[i] = s[i]
  BY AppendProperties
<1>2. Len(s) \in Nat /\ DOMAIN s = 1..Len(s)
  OBVIOUS
<1>. HIDE DEF t
<1>3. DOMAIN t = 1..n /\ n \in DOMAIN t /\ \A i \in DOMAIN t : i \in DOMAIN s \/ i = n
  BY <1>1, <1>2
<1>4. \A i \in DOMAIN s : i \in DOMAIN t /\ t[i] = s[i]
  BY <1>1, <1>2, <1>3
<1>5. CASE About(item) = a
  <2>1. \A j \in DOMAIN t : ~(j > n)
    BY <1>2, <1>3
  <2>. HIDE DEF n
  <2>. QED  BY <1>1, <1>3, <1>5, <2>1 DEF IsTold, t
<1>6. CASE About(item) # a
  <2>. HIDE DEF n
  <2>1. IsTold(a, set, t, told)
    BY <1>1, <1>3, <1>4, <1>6 DEF IsTold
  <2>. QED  BY <2>1 DEF t
<1>. QED  BY <1>5, <1>6

\* The host reads the first message.
LEMMA ToldHead ==
  ASSUME NEW s \in Seq(AlarmItems), s # <<>>, NEW told \in [Alids -> BOOLEAN], NEW a \in Alids,
         NEW set, IsTold(a, set, s, told)
  PROVE  IsTold(a, set, Tail(s), [told EXCEPT ![About(Head(s))] = Says(Head(s))])
<1>. DEFINE t == Tail(s)
            now == [told EXCEPT ![About(Head(s))] = Says(Head(s))]
<1>1. /\ t \in Seq(AlarmItems) /\ Len(t) = Len(s) - 1
      /\ \A i \in 1..Len(t) : t[i] = s[i + 1]
  BY HeadTailProperties
<1>2. Head(s) = s[1] /\ Len(s) \in Nat /\ Len(s) # 0 /\ DOMAIN s = 1..Len(s)
  OBVIOUS
<1>. HIDE DEF t
<1>3. DOMAIN t = 1..Len(s) - 1
  BY <1>1, <1>2
<1>4. \A i \in DOMAIN t : i \in Nat /\ i + 1 \in DOMAIN s /\ t[i] = s[i + 1]
  BY <1>1, <1>2, <1>3
<1>5. 1 \in DOMAIN s /\ \A i \in DOMAIN s : i \in Nat /\ (i = 1 \/ i - 1 \in DOMAIN t)
  BY <1>2, <1>3
<1>6. now[a] = (IF a = About(s[1]) THEN Says(s[1]) ELSE told[a])
  BY <1>2
<1>. HIDE DEF now
<1>7. ASSUME NEW i \in DOMAIN s, About(s[i]) = a, Says(s[i]) = set,
             \A j \in DOMAIN s : j > i => About(s[j]) # a
      PROVE  IsTold(a, set, t, now)
  <2>1. CASE i = 1
    <3>1. \A j \in DOMAIN t : About(t[j]) # a
      <4>. SUFFICES ASSUME NEW j \in DOMAIN t PROVE About(t[j]) # a
        OBVIOUS
      <4>1. j \in Nat /\ j + 1 \in DOMAIN s /\ t[j] = s[j + 1]
        BY <1>4
      <4>2. j \in 1..Len(s) - 1
        BY <1>3
      <4>3. j + 1 > 1
        BY <1>2, <4>2
      <4>. QED  BY <1>7, <2>1, <4>1, <4>3
    <3>2. now[a] = set
      BY <1>6, <1>7, <2>1
    <3>. QED  BY <3>1, <3>2 DEF IsTold
  <2>2. CASE i # 1
    <3>1. i - 1 \in DOMAIN t /\ (i - 1) + 1 = i
      BY <1>5, <2>2
    <3>2. t[i - 1] = s[i]
      BY <1>4, <3>1
    <3>3. \A j \in DOMAIN t : j > i - 1 => About(t[j]) # a
      <4>. SUFFICES ASSUME NEW j \in DOMAIN t, j > i - 1 PROVE About(t[j]) # a
        OBVIOUS
      <4>1. j \in Nat /\ j + 1 \in DOMAIN s /\ t[j] = s[j + 1] /\ i \in Nat
        BY <1>4, <1>5
      <4>2. j + 1 > i
        BY <4>1
      <4>. QED  BY <1>7, <4>1, <4>2
    <3>. QED  BY <1>7, <3>1, <3>2, <3>3 DEF IsTold
  <2>. QED  BY <2>1, <2>2
<1>8. ASSUME told[a] = set, \A i \in DOMAIN s : About(s[i]) # a
      PROVE  IsTold(a, set, t, now)
  <2>1. now[a] = set
    BY <1>5, <1>6, <1>8
  <2>2. \A i \in DOMAIN t : About(t[i]) # a
    BY <1>4, <1>8
  <2>. QED  BY <2>1, <2>2 DEF IsTold
<1>9. IsTold(a, set, t, now)
  BY <1>7, <1>8 DEF IsTold
<1>. QED  BY <1>9 DEF t, now

LEMMA QuietIsFaithful == query'.fn \notin {6, 8} => ListFaithful'
BY DEF ListFaithful

LEMMA QuietFn == query' = Quiet => query'.fn \notin {6, 8}
BY DEF Quiet

LEMMA SameReports ==
  ASSUME NEW a, Reported(a), UNCHANGED <<raisers, wire, view>>,
         alarms'[a].set = alarms[a].set
  PROVE  Reported(a)'
BY DEF Reported, Pending

\* What is under way of alarm a is what was.
LEMMA SameUnderWay ==
  ASSUME NEW a, Reported(a), alarms'[a].set = alarms[a].set,
         \A p \in Raisers : \/ raisers'[p] = raisers[p]
                            \/ raisers'[p].alid # a /\ raisers[p].alid # a,
         IsTold(a, alarms[a].set, wire, view) => IsTold(a, alarms[a].set, wire', view')
  PROVE  Reported(a)'
<1>1. \A p \in Raisers : raisers'[p].alid = a <=> raisers[p].alid = a
  OBVIOUS
<1>2. Pending(a)' <=> Pending(a)
  BY <1>1 DEF Pending
<1>. QED  BY <1>1, <1>2 DEF Reported

LEMMA AlidsAreNot0 == 0 \notin Alids /\ NoMessage.alid = 0
BY AlarmAssumption DEF NoMessage

LEMMA RaiserIs ==
  ASSUME AlarmsUnderWay, NEW p \in Raisers, raisers[p] # NoMessage
  PROVE  raisers[p] \in AlarmMessages /\ raisers[p].alid \in DOMAIN alarms
BY DEF AlarmsUnderWay

LEMMA RegisterAlarmKeeps ==
  ASSUME AlarmsInv, NEW a \in Alids, NEW set \in BOOLEAN, RegisterAlarm(a, set)
  PROVE  AlarmsInv'
<1>1. /\ DOMAIN alarms' = DOMAIN alarms \cup {a}
      /\ alarms'[a] = [set |-> set, enabled |-> TRUE]
      /\ \A x \in DOMAIN alarms : x # a => alarms'[x] = alarms[x]
      /\ doubt' = doubt \cup {a} /\ query' = Quiet /\ UNCHANGED <<raisers, wire, view>>
  BY DEF RegisterAlarm
<1>2. IsFiniteSet(DOMAIN alarms')
  BY <1>1, FS_AddElement DEF AlarmsInv, AlarmTables
<1>3. AlarmTables'
  <2>1. \A x \in DOMAIN alarms : alarms[x] \in [set : BOOLEAN, enabled : BOOLEAN]
    BY DEF AlarmsInv, AlarmTables
  <2>. DEFINE New == [set |-> set, enabled |-> TRUE]
              Shape == [set : BOOLEAN, enabled : BOOLEAN]
  <2>4. New \in Shape
    OBVIOUS
  <2>. HIDE DEF New
  <2>2. \A x \in DOMAIN alarms' : alarms'[x] \in Shape
    <3>. HIDE DEF Shape
    <3>. QED  BY <1>1, <2>1, <2>4 DEF New, Shape
  <2>3. DOMAIN alarms' \subseteq Alids /\ doubt' \subseteq Alids /\ view' \in [Alids -> BOOLEAN]
    BY <1>1 DEF AlarmsInv, AlarmTables
  <2>. QED  BY <1>2, <2>2, <2>3 DEF AlarmTables
<1>4. AlarmsUnderWay'
  BY <1>1 DEF AlarmsInv, AlarmsUnderWay
<1>5. \A x \in DOMAIN alarms' \ doubt' : Reported(x)'
  <2>. SUFFICES ASSUME NEW x \in DOMAIN alarms', x \notin doubt' PROVE Reported(x)'
    OBVIOUS
  <2>1. x \in DOMAIN alarms /\ x \notin doubt /\ alarms'[x] = alarms[x]
    BY <1>1
  <2>. QED  BY <1>1, <2>1, SameReports DEF AlarmsInv
<1>. QED  BY <1>1, <1>3, <1>4, <1>5, QuietFn, QuietIsFaithful DEF AlarmsInv

\* The enabled flags change and nothing else of the alarms.
LEMMA SwitchedKeep ==
  ASSUME AlarmsInv, UNCHANGED <<raisers, wire, view, doubt>>, query'.fn \notin {6, 8},
         DOMAIN alarms' = DOMAIN alarms,
         \A a \in DOMAIN alarms : /\ alarms'[a] \in [set : BOOLEAN, enabled : BOOLEAN]
                                  /\ alarms'[a].set = alarms[a].set
  PROVE  AlarmsInv'
<1>1. AlarmTables'
  BY DEF AlarmsInv, AlarmTables
<1>2. AlarmsUnderWay'
  BY DEF AlarmsInv, AlarmsUnderWay
<1>3. \A x \in DOMAIN alarms' \ doubt' : Reported(x)'
  BY SameReports DEF AlarmsInv
<1>. QED  BY <1>1, <1>2, <1>3, QuietIsFaithful DEF AlarmsInv

LEMMA SwitchAlarmKeeps ==
  ASSUME AlarmsInv, NEW a, NEW enabled \in BOOLEAN, SwitchAlarm(a, enabled)
  PROVE  AlarmsInv'
<1>1. /\ alarms' = [alarms EXCEPT ![a].enabled = enabled] /\ query' = Quiet
      /\ UNCHANGED <<raisers, wire, view, doubt>>
      /\ \A x \in DOMAIN alarms : alarms[x] \in [set : BOOLEAN, enabled : BOOLEAN]
  BY DEF SwitchAlarm, AlarmsInv, AlarmTables
<1>2. DOMAIN alarms' = DOMAIN alarms
  BY <1>1
<1>3. \A x \in DOMAIN alarms : /\ alarms'[x] \in [set : BOOLEAN, enabled : BOOLEAN]
                               /\ alarms'[x].set = alarms[x].set
  BY <1>1
<1>. QED  BY <1>1, <1>2, <1>3, QuietFn, SwitchedKeep

LEMMA onS5F3Keeps ==
  ASSUME AlarmsInv, NEW body, onS5F3(body)
  PROVE  AlarmsInv'
<1>1. query'.fn = 4 /\ UNCHANGED <<raisers, wire, view, doubt>>
  BY DEF onS5F3, ReplyAlarm
<1>2. \A x \in DOMAIN alarms : alarms[x] \in [set : BOOLEAN, enabled : BOOLEAN]
  BY DEF AlarmsInv, AlarmTables
<1>3. CASE UNCHANGED alarms
  BY <1>1, <1>2, <1>3, SwitchedKeep
<1>4. ASSUME NEW asked, NEW b \in BOOLEAN,
             alarms' = [a \in DOMAIN alarms |->
                          IF a \in asked THEN [alarms[a] EXCEPT !.enabled = b] ELSE alarms[a]]
      PROVE  AlarmsInv'
  <2>1. \A x \in DOMAIN alarms : /\ alarms'[x] \in [set : BOOLEAN, enabled : BOOLEAN]
                                 /\ alarms'[x].set = alarms[x].set
    BY <1>2, <1>4
  <2>. QED  BY <1>1, <1>4, <2>1, SwitchedKeep
<1>5. (Ack(Elements(body)[1]) = 128) \in BOOLEAN
  OBVIOUS
<1>. QED  BY <1>3, <1>4, <1>5 DEF onS5F3

LEMMA SetAlarmKeeps ==
  ASSUME AlarmsInv, NEW p \in Raisers, NEW a \in Alids, NEW set \in BOOLEAN, SetAlarm(p, a, set)
  PROVE  AlarmsInv'
<1>. PICK new : new = IF alarms[a].enabled THEN [alid |-> a, set |-> set] ELSE NoMessage
  OBVIOUS
<1>1. /\ raisers[p] = NoMessage /\ a \in DOMAIN alarms
      /\ alarms' = [alarms EXCEPT ![a].set = set]
      /\ raisers' = [raisers EXCEPT ![p] = new]
      /\ doubt' = IF Pending(a) \/ ~alarms[a].enabled THEN doubt \cup {a} ELSE doubt \ {a}
      /\ query' = Quiet /\ UNCHANGED <<wire, view>>
  BY DEF SetAlarm
<1>2. /\ \A x \in DOMAIN alarms : alarms[x] \in [set : BOOLEAN, enabled : BOOLEAN]
      /\ raisers \in [Raisers -> AlarmMessages \cup {NoMessage}]
  BY DEF AlarmsInv, AlarmTables, AlarmsUnderWay
<1>3. /\ DOMAIN alarms' = DOMAIN alarms /\ alarms'[a].set = set
      /\ \A x \in DOMAIN alarms : alarms'[x] \in [set : BOOLEAN, enabled : BOOLEAN]
      /\ \A x \in DOMAIN alarms : x # a => alarms'[x] = alarms[x]
  BY <1>1, <1>2
<1>4. /\ raisers'[p] = new /\ \A q \in Raisers : q # p => raisers'[q] = raisers[q]
      /\ new \in AlarmMessages \cup {NoMessage}
      /\ raisers' \in [Raisers -> AlarmMessages \cup {NoMessage}]
  BY <1>1, <1>2 DEF AlarmMessages
<1>5. AlarmTables'
  BY <1>1, <1>3 DEF AlarmsInv, AlarmTables
<1>6. AlarmsUnderWay'
  BY <1>1, <1>3, <1>4 DEF AlarmsInv, AlarmsUnderWay
<1>7. \A x \in DOMAIN alarms' \ doubt' : Reported(x)'
  <2>. SUFFICES ASSUME NEW x \in DOMAIN alarms, x \notin doubt' PROVE Reported(x)'
    BY <1>3
  <2>1. CASE x # a
    <3>1. x \notin doubt /\ x # 0
      BY <1>1, <2>1, AlidsAreNot0 DEF AlarmsInv, AlarmTables
    <3>2. raisers[p].alid # x /\ raisers'[p].alid # x
      BY <1>1, <1>4, <2>1, <3>1, AlidsAreNot0
    <3>. QED  BY <1>1, <1>3, <1>4, <2>1, <3>1, <3>2, SameUnderWay DEF AlarmsInv
  <2>2. CASE x = a
    <3>1. ~Pending(a) /\ alarms[a].enabled
      BY <1>1, <2>2
    <3>2. new = [alid |-> a, set |-> set]
      BY <3>1
    <3>3. \A q \in Raisers : raisers'[q].alid = a => q = p
      BY <1>4, <3>1 DEF Pending
    <3>4. raisers'[p].alid = a /\ raisers'[p].set = set
      BY <1>4, <3>2
    <3>. QED  BY <1>3, <2>2, <3>3, <3>4 DEF Reported, Pending
  <2>. QED  BY <2>1, <2>2
<1>. QED  BY <1>1, <1>5, <1>6, <1>7, QuietFn, QuietIsFaithful DEF AlarmsInv

LEMMA RaiserDone ==
  ASSUME AlarmsInv, NEW p \in Raisers, raisers[p] # NoMessage,
         raisers' = [raisers EXCEPT ![p] = NoMessage], UNCHANGED alarms,
         wire' \in Seq(AlarmItems), Len(wire') <= MaxWire
  PROVE  /\ AlarmsUnderWay'
         /\ \A q \in Raisers : q # p => raisers'[q] = raisers[q]
         /\ raisers'[p].alid = 0
<1>1. raisers \in [Raisers -> AlarmMessages \cup {NoMessage}]
  BY DEF AlarmsInv, AlarmsUnderWay
<1>2. /\ raisers'[p] = NoMessage /\ \A q \in Raisers : q # p => raisers'[q] = raisers[q]
      /\ raisers' \in [Raisers -> AlarmMessages \cup {NoMessage}]
  BY <1>1
<1>. QED  BY <1>2, AlidsAreNot0 DEF AlarmsInv, AlarmsUnderWay

LEMMA SendS5F1Keeps ==
  ASSUME AlarmsInv, NEW p \in Raisers, SendS5F1(p)
  PROVE  AlarmsInv'
<1>. PICK m : m = raisers[p]
  OBVIOUS
<1>. PICK item : item = AlarmItem(m)
  OBVIOUS
<1>. PICK s : s = wire
  OBVIOUS
<1>1. /\ m # NoMessage /\ Len(s) < MaxWire /\ wire' = Append(s, item)
      /\ raisers' = [raisers EXCEPT ![p] = NoMessage] /\ query' = Quiet
      /\ UNCHANGED <<alarms, view, doubt>>
  BY DEF SendS5F1
<1>2. m \in AlarmMessages /\ m.alid \in DOMAIN alarms /\ s \in Seq(AlarmItems)
  BY <1>1, RaiserIs DEF AlarmsInv, AlarmsUnderWay
<1>3. item \in AlarmItems /\ About(item) = m.alid /\ Says(item) = m.set
  BY <1>2, AlarmItemIs DEF AlarmItems
<1>4. wire' \in Seq(AlarmItems) /\ Len(wire') <= MaxWire
  <2>1. Append(s, item) \in Seq(AlarmItems) /\ Len(Append(s, item)) = Len(s) + 1 /\ Len(s) \in Nat
    BY <1>2, <1>3, AppendProperties, LenProperties
  <2>. QED  BY <1>1, <2>1, AlarmAssumption
<1>5. /\ AlarmsUnderWay' /\ raisers'[p].alid = 0
      /\ \A q \in Raisers : q # p => raisers'[q] = raisers[q]
  BY <1>1, <1>4, RaiserDone
<1>6. AlarmTables'
  BY <1>1 DEF AlarmsInv, AlarmTables
<1>7. \A x \in DOMAIN alarms' \ doubt' : Reported(x)'
  <2>. SUFFICES ASSUME NEW x \in DOMAIN alarms, x \notin doubt PROVE Reported(x)'
    BY <1>1
  <2>1. Reported(x) /\ x # 0
    BY AlidsAreNot0 DEF AlarmsInv, AlarmTables
  <2>2. CASE x # m.alid
    <3>1. ASSUME NEW set, IsTold(x, set, s, view)
          PROVE  IsTold(x, set, wire', view)
      BY <1>1, <1>2, <1>3, <2>2, <3>1, ToldAppend
    <3>. QED  BY <1>1, <1>5, <2>1, <2>2, <3>1, SameUnderWay
  <2>3. CASE x = m.alid
    <3>1. \A q \in Raisers : raisers'[q].alid # x
      BY <1>5, <2>1, <2>3 DEF Reported
    <3>2. alarms'[x].set = m.set
      BY <1>1, <2>1, <2>3 DEF Reported
    <3>3. IsTold(x, m.set, wire', view)
      BY <1>1, <1>2, <1>3, <2>3, ToldAppend
    <3>. QED  BY <1>1, <3>1, <3>2, <3>3 DEF Reported
  <2>. QED  BY <2>2, <2>3
<1>. QED  BY <1>1, <1>5, <1>6, <1>7, QuietFn, QuietIsFaithful DEF AlarmsInv

LEMMA SendFailsKeeps ==
  ASSUME AlarmsInv, NEW p \in Raisers, SendFails(p)
  PROVE  AlarmsInv'
<1>1. /\ raisers[p] # NoMessage /\ doubt' = doubt \cup {raisers[p].alid}
      /\ raisers' = [raisers EXCEPT ![p] = NoMessage] /\ query' = Quiet
      /\ UNCHANGED <<alarms, wire, view>>
  BY DEF SendFails
<1>2. /\ AlarmsUnderWay' /\ raisers'[p].alid = 0
      /\ \A q \in Raisers : q # p => raisers'[q] = raisers[q]
  BY <1>1, RaiserDone DEF AlarmsInv, AlarmsUnderWay
<1>3. AlarmTables'
  BY <1>1, RaiserIs DEF AlarmsInv, AlarmTables
<1>4. \A x \in DOMAIN alarms' \ doubt' : Reported(x)'
  <2>. SUFFICES ASSUME NEW x \in DOMAIN alarms, x \notin doubt, x # raisers[p].alid
                PROVE  Reported(x)'
    BY <1>1
  <2>1. Reported(x) /\ x # 0
    BY AlidsAreNot0 DEF AlarmsInv, AlarmTables
  <2>. QED  BY <1>1, <1>2, <2>1, SameUnderWay
<1>. QED  BY <1>1, <1>2, <1>3, <1>4, QuietFn, QuietIsFaithful DEF AlarmsInv

LEMMA onS5F1Keeps ==
  ASSUME AlarmsInv, onS5F1
  PROVE  AlarmsInv'
<1>. PICK s : s = wire
  OBVIOUS
<1>. PICK now : now = [view EXCEPT ![About(Head(s))] = Says(Head(s))]
  OBVIOUS
<1>1. s \in Seq(AlarmItems) /\ s # <<>> /\ view \in [Alids -> BOOLEAN] /\ Len(s) <= MaxWire
  BY DEF onS5F1, AlarmsInv, AlarmTables, AlarmsUnderWay
<1>2. Head(s) \in AlarmItems /\ Tail(s) \in Seq(AlarmItems) /\ Len(Tail(s)) = Len(s) - 1
  BY <1>1, HeadTailProperties
<1>3. IsAlarm(Head(s)) /\ About(Head(s)) \in Alids /\ Says(Head(s)) \in BOOLEAN
  BY <1>2, WireItemIs
<1>4. view' = now /\ wire' = Tail(s) /\ query' = Quiet /\ UNCHANGED <<alarms, raisers, doubt>>
  BY <1>3 DEF onS5F1, About, Says
<1>5. AlarmTables'
  BY <1>1, <1>3, <1>4 DEF AlarmsInv, AlarmTables
<1>6. AlarmsUnderWay'
  <2>1. Len(Tail(s)) <= MaxWire
    BY <1>1, <1>2, AlarmAssumption, LenProperties
  <2>. QED  BY <1>2, <1>4, <2>1 DEF AlarmsInv, AlarmsUnderWay
<1>7. \A x \in DOMAIN alarms' \ doubt' : Reported(x)'
  <2>. SUFFICES ASSUME NEW x \in DOMAIN alarms, x \notin doubt PROVE Reported(x)'
    BY <1>4
  <2>1. Reported(x) /\ x \in Alids
    BY DEF AlarmsInv, AlarmTables
  <2>2. ASSUME NEW set, IsTold(x, set, s, view)
        PROVE  IsTold(x, set, wire', view')
    BY <1>1, <1>4, <2>1, <2>2, ToldHead
  <2>. QED  BY <1>4, <2>1, <2>2, SameUnderWay
<1>. QED  BY <1>4, <1>5, <1>6, <1>7, QuietFn, QuietIsFaithful DEF AlarmsInv

\* The items of a list tell each alarm, its state and its flag.
LEMMA ListItemIs ==
  ASSUME NEW a \in DOMAIN alarms, alarms[a] \in [set : BOOLEAN, enabled : BOOLEAN]
  PROVE  LET e == ListItem(a)
         IN  /\ Whole(e) /\ IsListed(e) /\ Alid(Elements(e)[2]) = a
             /\ ((Ack(Elements(e)[1]) \div 128) % 2 = 1) = alarms[a].set
             /\ ((Ack(Elements(e)[1]) \div 64) % 2 = 1) = alarms[a].enabled
<1>. PICK n : n = (IF alarms[a].set THEN 128 ELSE 0) + (IF alarms[a].enabled THEN 64 ELSE 0)
  OBVIOUS
<1>1. Whole(Bin(n)) /\ Whole(Id(a)) /\ Whole(Text(5))
  BY TextIs, BinIs, IdIs
<1>2. ListItem(a) = <<"L", <<Bin(n), Id(a), Text(5)>>>>
  BY <1>1, ThreeItems DEF ListItem
<1>. DEFINE e == ListItem(a)
<1>3. /\ Format(e) = "L" /\ Len(Elements(e)) = 3 /\ Whole(e)
      /\ Elements(e)[1] = Bin(n) /\ Elements(e)[2] = Id(a)
  BY <1>2, ListParts
<1>. HIDE DEF e
<1>4. /\ IsAck(Bin(n)) /\ Ack(Bin(n)) = n
      /\ Format(Id(a)) = "U" /\ Alid(Id(a)) = a
  BY DEF Bin, Id, Format, Elements, Name, IsAck, AckItem, Ack, Alid, IsList
<1>5. IsListed(e) /\ Alid(Elements(e)[2]) = a
  BY <1>3, <1>4 DEF IsListed, IsList
<1>6. ((n \div 128) % 2 = 1) = alarms[a].set /\ ((n \div 64) % 2 = 1) = alarms[a].enabled
  <2>1. alarms[a].set \in BOOLEAN /\ alarms[a].enabled \in BOOLEAN
    OBVIOUS
  <2>2. n \in {0, 64, 128, 192}
    BY <2>1
  <2>3. /\ n = 0 => ~alarms[a].set /\ ~alarms[a].enabled
        /\ n = 64 => ~alarms[a].set /\ alarms[a].enabled
        /\ n = 128 => alarms[a].set /\ ~alarms[a].enabled
        /\ n = 192 => alarms[a].set /\ alarms[a].enabled
    BY <2>1
  <2>4. /\ n = 0 => (n \div 128) % 2 # 1 /\ (n \div 64) % 2 # 1
        /\ n = 64 => (n \div 128) % 2 # 1 /\ (n \div 64) % 2 = 1
        /\ n = 128 => (n \div 128) % 2 = 1 /\ (n \div 64) % 2 # 1
        /\ n = 192 => (n \div 128) % 2 = 1 /\ (n \div 64) % 2 = 1
    OBVIOUS
  <2>. QED  BY <2>1, <2>2, <2>3, <2>4
<1>. QED  BY <1>3, <1>4, <1>5, <1>6 DEF e

LEMMA ListBodyIs ==
  ASSUME AlarmTables, NEW S \in SUBSET DOMAIN alarms
  PROVE  LET body == ListBody(S)
         IN  /\ ReadList(body) = {[alid |-> a, set |-> alarms[a].set,
                                   enabled |-> alarms[a].enabled] :
                                      a \in Elems(Arrived(InOrder(S)))}
             /\ Elems(Arrived(InOrder(S))) \subseteq S
             /\ \A i, j \in DOMAIN Elements(body) :
                  i < j => Alid(Elements(Elements(body)[i])[2])
                             < Alid(Elements(Elements(body)[j])[2])
<1>1. IsFiniteSet(S) /\ S \in SUBSET Nat
  BY FS_Subset, AlarmAssumption DEF AlarmTables
<1>. DEFINE n == Cardinality(S)
            s == InOrder(S)
            items == [i \in DOMAIN s |-> ListItem(s[i])]
            es == Arrived(items)
            read == Arrived(s)
            body == ListBody(S)
<1>2. s \in [1..n -> S] /\ (\A i, j \in 1..n : i < j => s[i] < s[j]) /\ S = Elems(s)
  BY <1>1, OrderExists
<1>3. body = ListOf(items, es) /\ n \in Nat
  BY <1>1, FS_CardinalityType DEF ListBody, SentList
<1>. HIDE DEF s, body, n
<1>4. ASSUME NEW i \in DOMAIN s
      PROVE  /\ s[i] \in S /\ items[i] = ListItem(s[i])
             /\ Whole(items[i]) /\ IsListed(items[i]) /\ Alid(Elements(items[i])[2]) = s[i]
             /\ ((Ack(Elements(items[i])[1]) \div 128) % 2 = 1) = alarms[s[i]].set
             /\ ((Ack(Elements(items[i])[1]) \div 64) % 2 = 1) = alarms[s[i]].enabled
  <2>1. s[i] \in S
    BY <1>2
  <2>2. alarms[s[i]] \in [set : BOOLEAN, enabled : BOOLEAN]
    BY <2>1 DEF AlarmTables
  <2>. QED  BY <2>1, <2>2, ListItemIs
<1>5. DOMAIN items = 1..n /\ DOMAIN s = 1..n /\ items = [i \in 1..n |-> items[i]]
      /\ s = [i \in 1..n |-> s[i]]
  BY <1>2
<1>. HIDE DEF items
<1>6. body = <<"L", es>>
  BY <1>3, <1>4, <1>5, ListOfIs
<1>7. Elements(body) = es
  BY <1>6, ListParts
<1>m. n % Byte \in Nat /\ n % Byte <= n
  BY <1>3, ModIs
<1>a. /\ DOMAIN es = 1..(n % Byte) /\ DOMAIN read = 1..(n % Byte)
      /\ \A i \in DOMAIN es : i \in DOMAIN s /\ es[i] = items[i] /\ read[i] = s[i]
  <2>1. /\ items \in Seq(Elems(items)) /\ Len(items) = n
        /\ s \in Seq(Elems(s)) /\ Len(s) = n
    BY <1>3, <1>5, IntervalSeq
  <2>2. /\ DOMAIN es = 1..(n % Byte)
        /\ \A i \in DOMAIN es : i \in DOMAIN items /\ es[i] = items[i]
    BY <2>1, ArrivedIs
  <2>3. DOMAIN read = 1..(n % Byte) /\ \A i \in DOMAIN read : read[i] = s[i]
    BY <2>1, ArrivedIs
  <2>. QED  BY <1>5, <2>2, <2>3
<1>. HIDE DEF es, read
<1>. DEFINE Entry(a) == [alid |-> a, set |-> alarms[a].set, enabled |-> alarms[a].enabled]
            Reading(e) == [alid |-> Alid(Elements(e)[2]),
                           set |-> (Ack(Elements(e)[1]) \div 128) % 2 = 1,
                           enabled |-> (Ack(Elements(e)[1]) \div 64) % 2 = 1]
<1>8. \A i \in DOMAIN es : Reading(es[i]) = Entry(read[i])
  BY <1>4, <1>a
<1>9. ReadList(body) = {Reading(e) : e \in {es[i] : i \in DOMAIN es}}
  <2>1. {j \in DOMAIN Elements(body) : IsListed(Elements(body)[j])} = DOMAIN es
    BY <1>4, <1>7, <1>a
  <2>. QED  BY <1>7, <2>1 DEF ReadList
<1>10. {Reading(e) : e \in {es[i] : i \in DOMAIN es}} = {Entry(a) : a \in Elems(read)}
  <2>. HIDE DEF Reading, Entry
  <2>1. {Reading(e) : e \in {es[i] : i \in DOMAIN es}} \subseteq {Entry(a) : a \in Elems(read)}
    BY <1>8, <1>a DEF Elems
  <2>2. {Entry(a) : a \in Elems(read)} \subseteq {Reading(e) : e \in {es[i] : i \in DOMAIN es}}
    BY <1>8, <1>a DEF Elems
  <2>. QED  BY <2>1, <2>2
<1>11. \A i, j \in DOMAIN Elements(body) :
         i < j => Alid(Elements(Elements(body)[i])[2]) < Alid(Elements(Elements(body)[j])[2])
  <2>1. \A i \in DOMAIN es : i \in 1..n /\ Alid(Elements(es[i])[2]) = s[i]
    BY <1>4, <1>5, <1>a
  <2>2. \A i, j \in DOMAIN es : i < j => Alid(Elements(es[i])[2]) < Alid(Elements(es[j])[2])
    BY <1>2, <2>1
  <2>. QED  BY <1>7, <2>2
<1>12. Elems(read) \subseteq S
  BY <1>4, <1>a DEF Elems
<1>13. ReadList(body) = {Entry(a) : a \in Elems(read)}
  BY <1>9, <1>10
<1>. HIDE DEF Reading, Entry
<1>14. /\ ReadList(ListBody(S)) = {Entry(a) : a \in Elems(Arrived(InOrder(S)))}
       /\ Elems(Arrived(InOrder(S))) \subseteq S
  BY <1>12, <1>13, Zenon DEF body, read, s
<1>15. \A i, j \in DOMAIN Elements(ListBody(S)) :
         i < j => Alid(Elements(Elements(ListBody(S))[i])[2])
                    < Alid(Elements(Elements(ListBody(S))[j])[2])
  BY <1>11 DEF body
<1>. QED  BY <1>14, <1>15 DEF Entry

LEMMA ListKeeps ==
  ASSUME AlarmsInv, onS5F5 \/ onS5F7
  PROVE  AlarmsInv'
<1>1. UNCHANGED <<alarms, raisers, wire, view, doubt>>
  BY DEF onS5F5, onS5F7
<1>2. AlarmTables' /\ AlarmsUnderWay' /\ \A x \in DOMAIN alarms' \ doubt' : Reported(x)'
  BY <1>1, SameReports DEF AlarmsInv, AlarmTables, AlarmsUnderWay
<1>3. ASSUME NEW S \in SUBSET DOMAIN alarms, NEW fn, NEW was, DOMAIN was = S,
             \A a \in S : was[a] = alarms[a], ReplyAlarm(fn, ListBody(S), was)
      PROVE  ListFaithful'
  <2>. PICK body : body = ListBody(S)
    OBVIOUS
  <2>. PICK R : R = Elems(Arrived(InOrder(S)))
    OBVIOUS
  <2>1. /\ ReadList(body) = {[alid |-> a, set |-> alarms[a].set,
                              enabled |-> alarms[a].enabled] : a \in R}
        /\ R \subseteq S
        /\ \A i, j \in DOMAIN Elements(body) :
             i < j => Alid(Elements(Elements(body)[i])[2])
                        < Alid(Elements(Elements(body)[j])[2])
    BY ListBodyIs DEF AlarmsInv
  <2>2. query'.body = body /\ query'.was = was
    BY <1>3 DEF ReplyAlarm
  <2>3. {[alid |-> a, set |-> was[a].set, enabled |-> was[a].enabled] : a \in R} =
          {[alid |-> a, set |-> alarms[a].set, enabled |-> alarms[a].enabled] : a \in R}
    BY <1>3, <2>1
  <2>4. R = Elems(Arrived(InOrder(DOMAIN was)))
    BY <1>3
  <2>. QED  BY <2>1, <2>2, <2>3, <2>4 DEF ListFaithful
<1>4. CASE onS5F5
  BY <1>2, <1>3, <1>4 DEF onS5F5, AlarmsInv
<1>5. CASE onS5F7
  <2>. PICK was : was = [a \in EnabledAlarms |-> alarms[a]]
    OBVIOUS
  <2>1. EnabledAlarms \in SUBSET DOMAIN alarms /\ DOMAIN was = EnabledAlarms
    BY DEF EnabledAlarms
  <2>2. \A a \in EnabledAlarms : was[a] = alarms[a]
    OBVIOUS
  <2>. QED  BY <1>2, <1>3, <1>5, <2>1, <2>2 DEF onS5F7, AlarmsInv
<1>. QED  BY <1>4, <1>5

LEMMA AlarmsStart == AlarmsInit => AlarmsInv
<1>. SUFFICES ASSUME AlarmsInit PROVE AlarmsInv
  OBVIOUS
<1>1. DOMAIN alarms = {} /\ IsFiniteSet({})
  BY FS_EmptySet DEF AlarmsInit
<1>2. AlarmTables
  BY <1>1 DEF AlarmsInit, AlarmTables
<1>3. AlarmsUnderWay
  <2>1. wire \in Seq(AlarmItems) /\ Len(wire) = 0
    BY EmptySeq DEF AlarmsInit
  <2>. QED  BY <2>1, AlarmAssumption DEF AlarmsInit, AlarmsUnderWay
<1>. QED  BY <1>1, <1>2, <1>3 DEF AlarmsInit, AlarmsInv, ListFaithful, Quiet

LEMMA AlarmsStep == AlarmsInv /\ [AlarmsNext]_alarmVars => AlarmsInv'
<1>. SUFFICES ASSUME AlarmsInv, [AlarmsNext]_alarmVars PROVE AlarmsInv'
  OBVIOUS
<1>1. CASE UNCHANGED alarmVars
  <2>1. UNCHANGED <<alarms, raisers, wire, view, doubt, query>>
    BY <1>1 DEF alarmVars
  <2>2. AlarmTables' /\ AlarmsUnderWay' /\ ListFaithful'
    BY <2>1 DEF AlarmsInv, AlarmTables, AlarmsUnderWay, ListFaithful
  <2>. QED  BY <2>1, <2>2, SameReports DEF AlarmsInv
<1>. QED  BY <1>1, RegisterAlarmKeeps, SwitchAlarmKeeps, SetAlarmKeeps, SendS5F1Keeps,
             SendFailsKeeps, onS5F1Keeps, onS5F3Keeps, ListKeeps DEF AlarmsNext

(* When nothing is under way the host believes of every alarm what the     *)
(* equipment holds, except of those whose last change was not reported or  *)
(* raced another report: an alarm out of doubt has one report under way,   *)
(* the right one, or the last message about it says what it is (Reported). *)
THEOREM HostKnowsHolds == AlarmsSpec => []HostKnows
<1>1. AlarmsInv => HostKnows
  <2>. SUFFICES ASSUME AlarmsInv, wire = <<>>, \A p \in Raisers : raisers[p] = NoMessage,
                       NEW a \in DOMAIN alarms, a \notin doubt
                PROVE  view[a] = alarms[a].set
    BY DEF HostKnows
  <2>1. Reported(a) /\ a # 0
    BY AlidsAreNot0 DEF AlarmsInv, AlarmTables
  <2>2. ~Pending(a)
    BY <2>1, AlidsAreNot0 DEF Pending
  <2>3. DOMAIN wire = {}
    OBVIOUS
  <2>. QED  BY <2>1, <2>2, <2>3 DEF Reported, IsTold
<1>. QED  BY AlarmsStart, AlarmsStep, <1>1, PTL DEF AlarmsSpec

(* S5F6 and S5F8 tell the host of the alarms, or of the enabled ones, by   *)
(* ascending ALID and with both flags of the ALCD: of all of them if they  *)
(* are fewer than 256 (Byte), else of the first ones, as many as there are *)
(* modulo 256.  The table is finite and a finite set of numbers has one    *)
(* order.                                                                  *)
THEOREM ListFaithfulHolds == AlarmsSpec => []ListFaithful
<1>1. AlarmsInv => ListFaithful
  BY DEF AlarmsInv
<1>. QED  BY AlarmsStart, AlarmsStep, <1>1, PTL DEF AlarmsSpec

LEMMA AlarmsTyped == AlarmsInv => AlarmsTypeOK
BY DEF AlarmsInv, AlarmTables, AlarmsUnderWay, AlarmsTypeOK

-----------------------------------------------------------------------------
(* Variables and constants: the tables and the request that is handled.    *)

RequestFields == {"pc", "fn", "ids", "rest", "out", "body", "seen", "before", "listed"}

Distinct(s) == \A i, j \in DOMAIN s : s[i] = s[j] => i = j

\* What is left of s after its first k elements.
IsRest(s, rest, k) ==
  /\ rest \in Seq(Elems(s)) /\ k \in Nat /\ Len(rest) + k = Len(s)
  /\ \A i \in 1..Len(rest) : rest[i] = s[k + i]

\* The value of ec after the first k updates us, when it was before.
Latest(us, before, k, ec) ==
  LET Own == {i \in 1..k : us[i].id = ec}
  IN  IF Own = {} THEN before[ec]
      ELSE us[CHOOSE i \in Own : \A j \in Own : j <= i].value

Applied(r, val, k) ==
  /\ \A i \in 1..k : r.ids[i].value \in Valid[r.ids[i].id]
  /\ \A ec \in Ecids \ (Driven \cup Fixed) : val[ec] = Latest(r.ids, r.before, k, ec)

\* The first k updates were good and are what the constants hold.
Applying(r, val) ==
  /\ r.fn = 16
  /\ r.ids \in Seq(Elems(r.ids)) /\ \A u \in Elems(r.ids) : u.id \in Ecids
  /\ r.rest # <<>>
  /\ \E k \in Nat : IsRest(r.ids, r.rest, k) /\ Applied(r, val, k)

TableOf(fn) == IF fn = 4 THEN "status" ELSE "constant"

\* Item x answers for id: a value it had, or nothing because it had none once.
Fits(r, x, id) ==
  /\ x # Empty => /\ id \in Elems(r.listed) /\ x = Id(Name(x)) /\ Name(x) \in r.seen[id]
  /\ x = Empty => id \notin Elems(r.listed) \/ None \in r.seen[id]

ValueItems == {Empty} \cup {Id(v) : v \in Values}

Gathering(r, val, ord) ==
  /\ r.ids \in Seq(Svids \cup Ecids)
  /\ r.listed = ord[TableOf(r.fn)]
  /\ DOMAIN r.seen = Elems(r.ids) /\ \A id \in Elems(r.ids) : val[id] \in r.seen[id]
  /\ r.out \in Seq(ValueItems)
  /\ IsRest(r.ids, r.rest, Len(r.out))
  /\ \A i \in 1..Len(r.out) : Fits(r, r.out[i], r.ids[i])

OrderInv ==
  /\ DOMAIN order = Tables
  /\ order["status"] \in Seq(Svids) /\ order["constant"] \in Seq(Ecids)
  /\ \A t \in Tables : Distinct(order[t])

ValueInv ==
  /\ value \in [Svids \cup Ecids -> Values \cup {None}]
  /\ \A ec \in Ecids : value[ec] # None

RequestInv ==
  /\ DOMAIN request = RequestFields
  /\ request.pc \in {"idle", "resolve", "apply", "reply"}
  /\ request.pc = "apply" => Applying(request, value)
  /\ request.pc = "resolve" =>
       /\ request.fn \in {4, 14} /\ request.out \in Seq(ValueItems)
       /\ request.ids # <<>> /\ Len(request.ids) < Byte => Gathering(request, value, order)

DataInv == OrderInv /\ ValueInv /\ RequestInv /\ AckTellsApplied /\ AnswersAligned

\* The equipment reads of the identifiers what arrives.
LEMMA IdBodyIs ==
  ASSUME NEW S, NEW ids \in Seq(S)
  PROVE  /\ IsList(IdBody(ids)) /\ RequestedIds(IdBody(ids)) = Arrived(ids)
         /\ Elements(IdBody(ids)) = <<>> <=> Arrived(ids) = <<>>
<1>. DEFINE f == [i \in DOMAIN ids |-> Id(ids[i])]
<1>1. DOMAIN f = DOMAIN ids /\ \A i \in DOMAIN ids : f[i] = Id(ids[i])
  OBVIOUS
<1>f. f \in Seq(Elems(f))
  <2>1. f \in [1..Len(ids) -> Elems(f)] /\ Len(ids) \in Nat
    BY LenProperties DEF Elems
  <2>. QED  BY <2>1
<1>2. IdBody(ids) = ListOf(f, Arrived(f))
  BY DEF IdBody, SentList
<1>. HIDE DEF f
<1>3. \A i \in DOMAIN f : Whole(f[i])
  BY <1>1, IdIs
<1>4. IsList(IdBody(ids)) /\ Elements(IdBody(ids)) = Arrived(f)
  BY <1>2, <1>3, ListOfIs, ListParts
<1>5. /\ DOMAIN Arrived(f) = DOMAIN Arrived(ids)
      /\ \A i \in DOMAIN Arrived(ids) : i \in DOMAIN ids /\ Arrived(f)[i] = f[i]
      /\ Arrived(f) = <<>> <=> Arrived(ids) = <<>>
  BY <1>1, <1>f, ArrivedMap
<1>a. Arrived(ids) = [i \in DOMAIN Arrived(ids) |-> ids[i]]
  BY ArrivedFunction
<1>6. RequestedIds(IdBody(ids)) = [i \in DOMAIN Arrived(ids) |-> ids[i]]
  <2>1. \A i \in DOMAIN Arrived(ids) : IsId(Arrived(f)[i]) /\ Name(Arrived(f)[i]) = ids[i]
    BY <1>1, <1>5, IdIs
  <2>2. RequestedIds(IdBody(ids)) =
          [i \in DOMAIN Arrived(ids) |->
             IF IsId(Arrived(f)[i]) THEN Name(Arrived(f)[i]) ELSE None]
    BY <1>4, <1>5 DEF RequestedIds
  <2>. QED  BY <2>1, <2>2
<1>. QED  BY <1>4, <1>5, <1>6, <1>a

-----------------------------------------------------------------------------
(* The steps of an update.                                                 *)

LEMMA LatestFirst ==
  ASSUME NEW us, NEW before, NEW ec
  PROVE  Latest(us, before, 0, ec) = before[ec]
<1>1. 1..0 = {}
  OBVIOUS
<1>. QED  BY <1>1 DEF Latest

LEMMA LatestNext ==
  ASSUME NEW us, NEW before, NEW k \in Nat, NEW ec
  PROVE  Latest(us, before, k + 1, ec) =
           IF us[k + 1].id = ec THEN us[k + 1].value ELSE Latest(us, before, k, ec)
<1>. DEFINE Old == {i \in 1..k : us[i].id = ec}
            New == {i \in 1..k + 1 : us[i].id = ec}
<1>1. CASE us[k + 1].id # ec
  <2>1. New = Old
    <3>1. \A i : i \in 1..k + 1 /\ i # k + 1 <=> i \in 1..k
      OBVIOUS
    <3>. QED  BY <1>1, <3>1
  <2>2. Latest(us, before, k, ec) =
          IF Old = {} THEN before[ec] ELSE us[CHOOSE i \in Old : \A j \in Old : j <= i].value
    BY DEF Latest
  <2>3. Latest(us, before, k + 1, ec) =
          IF New = {} THEN before[ec] ELSE us[CHOOSE i \in New : \A j \in New : j <= i].value
    BY DEF Latest
  <2>. HIDE DEF New, Old
  <2>. QED  BY <1>1, <2>1, <2>2, <2>3
<1>2. CASE us[k + 1].id = ec
  <2>1. k + 1 \in New /\ \A j \in New : j \in Nat /\ j <= k + 1
    BY <1>2
  <2>2. Latest(us, before, k + 1, ec) =
          IF New = {} THEN before[ec] ELSE us[CHOOSE i \in New : \A j \in New : j <= i].value
    BY DEF Latest
  <2>. HIDE DEF New
  <2>3. PICK m : m = (CHOOSE i \in New : \A j \in New : j <= i)
    OBVIOUS
  <2>4. m \in New /\ \A j \in New : j <= m
    BY <2>1, <2>3
  <2>5. m = k + 1
    BY <2>1, <2>4
  <2>. QED  BY <1>2, <2>1, <2>2, <2>3, <2>5
<1>. QED  BY <1>1, <1>2

LEMMA WholeIsRest ==
  ASSUME NEW s, s \in Seq(Elems(s))
  PROVE  IsRest(s, s, 0)
<1>1. Len(s) \in Nat
  BY LenProperties
<1>2. \A i \in 1..Len(s) : 0 + i = i
  BY <1>1
<1>. QED  BY <1>1, <1>2 DEF IsRest

LEMMA RestNext ==
  ASSUME NEW s, NEW rest, NEW k, s \in Seq(Elems(s)), IsRest(s, rest, k), rest # <<>>
  PROVE  /\ k + 1 \in 1..Len(s) /\ Head(rest) = s[k + 1] /\ Len(s) \in Nat /\ k \in Nat
         /\ IsRest(s, Tail(rest), k + 1)
         /\ Len(rest) = 1 <=> k + 1 = Len(s)
         /\ Len(rest) # 1 => Tail(rest) # <<>>
<1>. DEFINE t == Tail(rest)
<1>1. /\ rest \in Seq(Elems(s)) /\ k \in Nat /\ Len(rest) + k = Len(s)
      /\ \A i \in 1..Len(rest) : rest[i] = s[k + i]
  BY DEF IsRest
<1>2. Len(s) \in Nat /\ Len(rest) \in Nat /\ Len(rest) # 0
  BY <1>1, EmptySeq, LenProperties
<1>3. t \in Seq(Elems(s)) /\ Len(t) = Len(rest) - 1 /\ \A i \in 1..Len(t) : t[i] = rest[i + 1]
  BY <1>1, HeadTailProperties
<1>4. Head(rest) = rest[1]
  BY <1>1, <1>2
<1>. HIDE DEF t
<1>5. k + 1 \in 1..Len(s) /\ Head(rest) = s[k + 1]
  <2>1. 1 \in 1..Len(rest)
    BY <1>2
  <2>. QED  BY <1>1, <1>2, <1>4, <2>1
<1>6. \A i \in 1..Len(t) : t[i] = s[(k + 1) + i]
  <2>. SUFFICES ASSUME NEW i \in 1..Len(t) PROVE t[i] = s[(k + 1) + i]
    OBVIOUS
  <2>1. i + 1 \in 1..Len(rest) /\ k + (i + 1) = (k + 1) + i
    BY <1>1, <1>2, <1>3
  <2>. QED  BY <1>1, <1>3, <2>1
<1>7. IsRest(s, t, k + 1)
  <2>1. PICK m, n : m = Len(rest) /\ n = Len(s)
    OBVIOUS
  <2>2. m \in Nat /\ n \in Nat /\ k \in Nat /\ m + k = n /\ Len(t) = m - 1
    BY <1>1, <1>2, <1>3, <2>1
  <2>3. k + 1 \in Nat /\ (m - 1) + (k + 1) = n
    BY <2>2
  <2>. QED  BY <1>3, <1>6, <2>1, <2>2, <2>3 DEF IsRest
<1>8. Len(rest) = 1 <=> k + 1 = Len(s)
  <2>1. PICK m, n : m = Len(rest) /\ n = Len(s)
    OBVIOUS
  <2>2. m \in Nat /\ n \in Nat /\ k \in Nat /\ m + k = n
    BY <1>1, <1>2, <2>1
  <2>3. m = 1 <=> k + 1 = n
    BY <2>2
  <2>. QED  BY <2>1, <2>3
<1>9. Len(rest) # 1 => t # <<>>
  <2>1. Len(rest) # 1 => Len(t) # 0
    BY <1>2, <1>3
  <2>. QED  BY <1>3, <2>1, EmptySeq
<1>. QED  BY <1>1, <1>2, <1>5, <1>7, <1>8, <1>9 DEF t

-----------------------------------------------------------------------------
(* The steps of the application and of the requests.                       *)

LEMMA CalmIs ==
  /\ DOMAIN Calm = RequestFields /\ Calm.pc = "idle" /\ Calm.fn = 0
  /\ Calm.ids = <<>> /\ Calm.rest = <<>> /\ Calm.out = <<>>
BY DEF Calm, RequestFields

LEMMA RespondIs ==
  ASSUME NEW fn, NEW body, DOMAIN request = RequestFields, Respond(fn, body)
  PROVE  /\ DOMAIN request' = RequestFields
         /\ request'.pc = "reply" /\ request'.fn = fn /\ request'.body = body
         /\ request'.ids = request.ids /\ request'.before = request.before
         /\ request'.seen = request.seen /\ request'.listed = request.listed
<1>1. request' = [request EXCEPT !.pc = "reply", !.fn = fn, !.body = body,
                                 !.rest = <<>>, !.out = <<>>]
  BY DEF Respond
<1>. QED  BY <1>1 DEF RequestFields

\* Both properties speak of replies.
LEMMA NoReply == request'.pc # "reply" => AckTellsApplied' /\ AnswersAligned'
BY DEF AckTellsApplied, AnswersAligned, ValuesAligned, NamelistsComplete

LEMMA SameOrder == OrderInv /\ UNCHANGED order => OrderInv'
BY DEF OrderInv

LEMMA SameValue == ValueInv /\ UNCHANGED value => ValueInv'
BY DEF ValueInv

LEMMA DistinctAppend ==
  ASSUME NEW S, NEW s \in Seq(S), NEW x \in S, Distinct(s), x \notin Elems(s)
  PROVE  Append(s, x) \in Seq(S) /\ Distinct(Append(s, x))
<1>. DEFINE t == Append(s, x)
<1>1. /\ t \in Seq(S) /\ Len(t) = Len(s) + 1 /\ t[Len(s) + 1] = x
      /\ \A i \in 1..Len(s) : t[i] = s[i]
  BY AppendProperties
<1>2. Len(s) \in Nat /\ DOMAIN s = 1..Len(s) /\ DOMAIN t = 1..(Len(s) + 1)
  BY <1>1, LenProperties
<1>. HIDE DEF t
<1>3. ASSUME NEW i \in DOMAIN t, NEW j \in DOMAIN t, t[i] = t[j]
      PROVE  i = j
  <2>1. \A m \in DOMAIN t : m \in DOMAIN s \/ m = Len(s) + 1
    BY <1>2
  <2>2. \A m \in DOMAIN s : s[m] # x
    BY DEF Elems
  <2>. QED  BY <1>1, <1>2, <1>3, <2>1, <2>2 DEF Distinct
<1>. QED  BY <1>1, <1>3 DEF t, Distinct

LEMMA RegisterKeeps ==
  ASSUME DataInv,
         \/ \E sv \in Svids : RegisterStatusVariable(sv)
         \/ \E ec \in Ecids : RegisterEquipmentConstant(ec)
  PROVE  DataInv'
<1>1. PICK t \in Tables, id \in Svids \cup Ecids :
        /\ id \in (IF t = "status" THEN Svids ELSE Ecids)
        /\ id \notin Elems(order[t]) /\ ~Resolving(t) /\ Undisturbed
        /\ order' = [order EXCEPT ![t] = Append(@, id)]
        /\ UNCHANGED <<value, request>>
  <2>1. CASE \E sv \in Svids : RegisterStatusVariable(sv)
    <3>1. "status" \in Tables
      BY DEF Tables
    <3>. QED  BY <2>1, <3>1 DEF RegisterStatusVariable, Registered, Table
  <2>2. CASE \E ec \in Ecids : RegisterEquipmentConstant(ec)
    <3>1. "constant" \in Tables
      BY DEF Tables
    <3>2. \A ec \in Ecids : Table(ec) = "constant"
      BY DataAssumption DEF Table
    <3>. QED  BY <2>2, <3>1, <3>2 DEF RegisterEquipmentConstant, Registered
  <2>. QED  BY <2>1, <2>2
<1>2. OrderInv'
  <2>. DEFINE S == IF t = "status" THEN Svids ELSE Ecids
  <2>1. order[t] \in Seq(S) /\ Distinct(order[t])
    BY DEF DataInv, OrderInv, Tables
  <2>2. Append(order[t], id) \in Seq(S) /\ Distinct(Append(order[t], id))
    BY <1>1, <2>1, DistinctAppend
  <2>. QED  BY <1>1, <2>2 DEF DataInv, OrderInv, Tables
<1>3. RequestInv'
  <2>1. UNCHANGED request /\ UNCHANGED value
    BY <1>1
  <2>2. request.pc = "resolve" => order'[TableOf(request.fn)] = order[TableOf(request.fn)]
    BY <1>1 DEF DataInv, RequestInv, Resolving, Tables, TableOf, OrderInv
  <2>. QED  BY <2>1, <2>2 DEF DataInv, RequestInv, Gathering
<1>4. ValueInv'
  BY <1>1, SameValue DEF DataInv
<1>. QED  BY <1>1, <1>2, <1>3, <1>4, NoReply DEF DataInv, Undisturbed

LEMMA SetDataValueKeeps ==
  ASSUME DataInv, NEW id \in Svids \cup Ecids, NEW v \in Values \cup {None},
         SetDataValue(id, v)
  PROVE  DataInv'
<1>1. /\ request.pc # "reply" /\ UNCHANGED order
      /\ id \in Svids \cup Driven \cup Fixed
      /\ id \in Ecids => v # None
      /\ value' = [value EXCEPT ![id] = v]
      /\ value \in [Svids \cup Ecids -> Values \cup {None}]
      /\ DOMAIN request = RequestFields
  BY DEF SetDataValue, Undisturbed, DataInv, ValueInv, RequestInv
<1>v. \A i \in Svids \cup Ecids : value'[i] = IF i = id THEN v ELSE value[i]
  BY <1>1
<1>2. ValueInv'
  <2>1. value' \in [Svids \cup Ecids -> Values \cup {None}]
    BY <1>1
  <2>2. \A ec \in Ecids : value'[ec] # None
    BY <1>1, <1>v DEF DataInv, ValueInv
  <2>. QED  BY <2>1, <2>2 DEF ValueInv
<1>3. CASE UNCHANGED request /\ request.pc # "resolve"
  <2>1. \A ec \in Ecids \ (Driven \cup Fixed) : value'[ec] = value[ec]
    <3>1. \A ec \in Ecids \ (Driven \cup Fixed) : ec # id
      BY <1>1, DataAssumption
    <3>. QED  BY <3>1, <1>v
  <2>2. RequestInv'
    BY <1>3, <2>1 DEF DataInv, RequestInv, Applying, Applied
  <2>. QED  BY <1>1, <1>2, <1>3, <2>2, NoReply, SameOrder DEF DataInv
<1>4. CASE UNCHANGED request /\ request.pc = "resolve" /\ id \notin DOMAIN request.seen
  <2>1. request.ids # <<>> /\ Len(request.ids) < Byte => Gathering(request, value, order)
    BY <1>4 DEF DataInv, RequestInv
  <2>2. request.ids # <<>> /\ Len(request.ids) < Byte => Gathering(request, value', order)
    BY <1>1, <1>4, <2>1 DEF Gathering
  <2>3. RequestInv'
    BY <1>1, <1>4, <2>2 DEF DataInv, RequestInv
  <2>. QED  BY <1>1, <1>2, <1>4, <2>3, NoReply, SameOrder DEF DataInv
<1>5. CASE /\ request.pc = "resolve" /\ id \in DOMAIN request.seen
           /\ request' = [request EXCEPT !.seen = SeenToo(id, v)]
  <2>0. PICK s : s = SeenToo(id, v)
    OBVIOUS
  <2>1. s = [request.seen EXCEPT ![id] = @ \cup {v}]
    BY <2>0 DEF SeenToo
  <2>2. request' = [request EXCEPT !.seen = s]
    BY <1>5, <2>0
  <2>3. /\ DOMAIN request' = RequestFields /\ request'.seen = s
        /\ request'.pc = "resolve" /\ request'.fn = request.fn
        /\ request'.ids = request.ids /\ request'.rest = request.rest
        /\ request'.out = request.out /\ request'.listed = request.listed
    BY <1>1, <1>5, <2>2 DEF RequestFields
  <2>4. /\ DOMAIN s = DOMAIN request.seen
        /\ \A i \in DOMAIN s : request.seen[i] \subseteq s[i]
        /\ v \in s[id]
    <3>1. PICK seen : seen = request.seen
      OBVIOUS
    <3>2. s = [seen EXCEPT ![id] = seen[id] \cup {v}]
      BY <2>1, <3>1
    <3>3. DOMAIN s = DOMAIN seen
      BY <3>2
    <3>4. \A i \in DOMAIN s : s[i] = IF i = id THEN seen[id] \cup {v} ELSE seen[i]
      BY <3>2
    <3>. QED  BY <1>5, <3>1, <3>3, <3>4
  <2>5. ASSUME request.ids # <<>>, Len(request.ids) < Byte
        PROVE  Gathering(request', value', order)
    <3>1. Gathering(request, value, order)
      BY <1>5, <2>5 DEF DataInv, RequestInv
    <3>2. \A i \in Elems(request.ids) : value'[i] \in s[i]
      BY <1>1, <1>5, <2>4, <3>1 DEF Gathering
    <3>3. \A x : \A i \in Elems(request.ids) : Fits(request, x, i) => Fits(request', x, i)
      BY <2>3, <2>4, <3>1 DEF Fits, Gathering
    <3>4. \A i \in 1..Len(request.out) : request.ids[i] \in Elems(request.ids)
      <4>1. Len(request.out) \in Nat /\ Len(request.rest) \in Nat /\ Len(request.ids) \in Nat
            /\ DOMAIN request.ids = 1..Len(request.ids)
        BY <3>1, LenProperties DEF Gathering, IsRest
      <4>2. Len(request.rest) + Len(request.out) = Len(request.ids)
        BY <3>1 DEF Gathering, IsRest
      <4>3. 1..Len(request.out) \subseteq DOMAIN request.ids
        <5>1. PICK m, n, k : m = Len(request.out) /\ n = Len(request.rest) /\ k = Len(request.ids)
          OBVIOUS
        <5>2. m \in Nat /\ n \in Nat /\ n + m = k
          BY <4>1, <4>2, <5>1
        <5>3. 1..m \subseteq 1..k
          BY <5>2
        <5>. QED  BY <4>1, <5>1, <5>3
      <4>. QED  BY <4>3 DEF Elems
    <3>. QED  BY <2>3, <2>4, <3>1, <3>2, <3>3, <3>4 DEF Gathering
  <2>6. RequestInv'
    BY <1>1, <1>5, <2>3, <2>5 DEF DataInv, RequestInv
  <2>. QED  BY <1>1, <1>2, <2>3, <2>6, NoReply, SameOrder DEF DataInv
<1>. QED  BY <1>3, <1>4, <1>5 DEF SetDataValue

LEMMA ValueRequestKeeps ==
  ASSUME DataInv, NEW fn \in {4, 14}, NEW ids, NEW body,
         onS1F3orS2F13(TableOf(fn), fn, ids, body),
         ids = <<>> \/ (ids \in Seq(Svids \cup Ecids) /\ body = IdBody(ids))
  PROVE  DataInv'
<1>. DEFINE t == TableOf(fn)
<1>1. /\ request = Calm /\ UNCHANGED <<order, value>>
      /\ DOMAIN request = RequestFields
  BY DEF onS1F3orS2F13, DataInv, RequestInv
<1>2. OrderInv' /\ ValueInv'
  BY <1>1, SameOrder, SameValue DEF DataInv
<1>3. CASE ~IsList(body) /\ Respond(fn, L(<<>>))
  <2>1. /\ request'.pc = "reply" /\ request'.fn = fn /\ request'.ids = <<>>
        /\ DOMAIN request' = RequestFields
    BY <1>1, <1>3, RespondIs, CalmIs
  <2>2. RequestInv'
    BY <2>1 DEF RequestInv
  <2>3. AckTellsApplied' /\ AnswersAligned'
    BY <2>1 DEF AckTellsApplied, AnswersAligned, ValuesAligned, NamelistsComplete
  <2>. QED  BY <1>2, <2>2, <2>3 DEF DataInv
<1>4. CASE /\ IsList(body)
           /\ request' = [Calm EXCEPT !.pc = "resolve", !.fn = fn, !.ids = ids,
                            !.rest = Wanted(t, body), !.listed = order[t],
                            !.seen = [id \in Elems(ids) |-> {value[id]}]]
  <2>1. /\ DOMAIN request' = RequestFields
        /\ request'.pc = "resolve" /\ request'.fn = fn /\ request'.ids = ids
        /\ request'.rest = Wanted(t, body) /\ request'.listed = order[t]
        /\ request'.out = <<>>
        /\ request'.seen = [id \in Elems(ids) |-> {value[id]}]
    BY <1>4, CalmIs DEF RequestFields
  <2>2. ASSUME ids # <<>>, Len(ids) < Byte
        PROVE  Gathering(request', value', order')
    <3>1. ids \in Seq(Svids \cup Ecids) /\ ids \in Seq(Elems(ids)) /\ body = IdBody(ids)
      BY <2>2, OwnElems
    <3>a. Arrived(ids) = ids
      BY <2>2, <3>1, ArrivedIs
    <3>2. Wanted(t, body) = ids
      BY <2>2, <3>1, <3>a, IdBodyIs DEF Wanted
    <3>3. IsRest(ids, ids, 0) /\ Len(<<>>) = 0 /\ 1..0 = {}
      BY <3>1, WholeIsRest
    <3>4. <<>> \in Seq(ValueItems)
      OBVIOUS
    <3>. QED  BY <1>1, <2>1, <3>1, <3>2, <3>3, <3>4 DEF Gathering
  <2>3. <<>> \in Seq(ValueItems)
    OBVIOUS
  <2>4. RequestInv'
    BY <2>1, <2>2, <2>3 DEF RequestInv
  <2>. QED  BY <1>2, <2>1, <2>4, NoReply DEF DataInv
<1>. QED  BY <1>1, <1>3, <1>4 DEF onS1F3orS2F13

\* The item of a variable is its value, or has no bytes.
LEMMA ValueItemFits ==
  ASSUME DataInv, request.pc = "resolve", Gathering(request, value, order),
         NEW id \in Elems(request.ids)
  PROVE  LET x == ValueItem(TableOf(request.fn), id)
         IN  x \in ValueItems /\ Fits(request, x, id)
<1>. DEFINE x == ValueItem(TableOf(request.fn), id)
<1>1. /\ request.listed = order[TableOf(request.fn)]
      /\ value[id] \in request.seen[id] /\ id \in Svids \cup Ecids
  BY OwnElems DEF Gathering
<1>2. value[id] \in Values \cup {None}
  BY <1>1 DEF DataInv, ValueInv
<1>3. CASE id \in Elems(request.listed) /\ value[id] # None
  <2>1. x = Id(value[id]) /\ value[id] \in Values
    BY <1>1, <1>2, <1>3 DEF ValueItem
  <2>2. x # Empty
    BY <2>1, IdIs DEF Whole
  <2>3. x = Id(Name(x)) /\ Name(x) = value[id]
    BY <2>1, IdIs
  <2>. HIDE DEF x
  <2>4. Fits(request, x, id)
    BY <1>1, <1>3, <2>2, <2>3 DEF Fits
  <2>5. x \in ValueItems
    BY <2>1 DEF ValueItems
  <2>. QED  BY <2>4, <2>5 DEF x
<1>4. CASE ~(id \in Elems(request.listed) /\ value[id] # None)
  <2>1. x = Empty
    BY <1>1, <1>4 DEF ValueItem
  <2>. QED  BY <1>1, <1>4, <2>1 DEF ValueItems, Fits
<1>. QED  BY <1>3, <1>4

LEMMA ResolveNextKeeps ==
  ASSUME DataInv, ResolveNext
  PROVE  DataInv'
<1>. DEFINE t == TableOf(request.fn)
            item == ValueItem(t, Head(request.rest))
<1>1. /\ request.pc = "resolve" /\ request.rest # <<>> /\ UNCHANGED <<order, value>>
      /\ request' = [request EXCEPT !.rest = Tail(@), !.out = Append(@, item)]
      /\ DOMAIN request = RequestFields /\ request.fn \in {4, 14}
  BY DEF ResolveNext, DataInv, RequestInv, TableOf
<1>2. /\ DOMAIN request' = RequestFields /\ request'.pc = "resolve"
      /\ request'.fn = request.fn /\ request'.ids = request.ids
      /\ request'.listed = request.listed /\ request'.seen = request.seen
      /\ request'.rest = Tail(request.rest) /\ request'.out = Append(request.out, item)
  BY <1>1 DEF RequestFields
<1>o. request'.out \in Seq(ValueItems)
  <2>1. item \in ValueItems
    <3>1. order[t] \in Seq(Svids) \/ order[t] \in Seq(Ecids)
      BY <1>1 DEF DataInv, OrderInv, TableOf
    <3>2. Elems(order[t]) \subseteq Svids \cup Ecids
      BY <3>1, OwnElems
    <3>3. \A id \in Elems(order[t]) : value[id] \in Values \cup {None}
      BY <3>2 DEF DataInv, ValueInv
    <3>. QED  BY <3>3 DEF ValueItem, ValueItems
  <2>2. request.out \in Seq(ValueItems)
    BY <1>1 DEF DataInv, RequestInv
  <2>. HIDE DEF item
  <2>. QED  BY <1>2, <2>1, <2>2, AppendProperties
<1>. HIDE DEF item, t
<1>3. ASSUME request.ids # <<>>, Len(request.ids) < Byte
      PROVE  Gathering(request', value', order')
  <2>1. Gathering(request, value, order)
    BY <1>1, <1>3 DEF DataInv, RequestInv
  <2>2. PICK ids, rest, out : ids = request.ids /\ rest = request.rest /\ out = request.out
    OBVIOUS
  <2>3. /\ ids \in Seq(Elems(ids)) /\ out \in Seq(ValueItems)
        /\ IsRest(ids, rest, Len(out)) /\ rest # <<>>
        /\ \A i \in 1..Len(out) : Fits(request, out[i], ids[i])
    BY <1>1, <2>1, <2>2, OwnElems DEF Gathering
  <2>4. PICK k : k = Len(out)
    OBVIOUS
  <2>5. /\ k \in Nat /\ k + 1 \in 1..Len(ids) /\ Head(rest) = ids[k + 1]
        /\ IsRest(ids, Tail(rest), k + 1)
    BY <2>3, <2>4, RestNext
  <2>6. Head(rest) \in Elems(ids)
    <3>1. DOMAIN ids = 1..Len(ids)
      BY <2>3, LenProperties
    <3>. QED  BY <2>5, <3>1 DEF Elems
  <2>7. item \in ValueItems /\ Fits(request, item, ids[k + 1])
    BY <1>1, <2>1, <2>2, <2>5, <2>6, ValueItemFits DEF item, t
  <2>8. /\ Append(out, item) \in Seq(ValueItems) /\ Len(Append(out, item)) = k + 1
        /\ Append(out, item)[k + 1] = item
        /\ \A i \in 1..k : Append(out, item)[i] = out[i]
    BY <2>3, <2>4, <2>7, AppendProperties
  <2>9. \A i \in 1..(k + 1) : Fits(request, Append(out, item)[i], ids[i])
    <3>1. \A i \in 1..(k + 1) : i = k + 1 \/ i \in 1..k
      BY <2>5
    <3>. QED  BY <2>3, <2>4, <2>7, <2>8, <3>1
  <2>10. \A y, i : Fits(request, y, i) => Fits(request', y, i)
    BY <1>2 DEF Fits
  <2>11. \A i \in 1..Len(request'.out) : Fits(request', request'.out[i], request'.ids[i])
    BY <1>2, <2>2, <2>8, <2>9, <2>10
  <2>12. IsRest(request'.ids, request'.rest, Len(request'.out))
    BY <1>2, <2>2, <2>5, <2>8
  <2>. QED  BY <1>1, <1>2, <2>1, <2>2, <2>8, <2>11, <2>12 DEF Gathering
<1>4. RequestInv'
  BY <1>1, <1>2, <1>3, <1>o DEF RequestInv
<1>. QED  BY <1>1, <1>2, <1>4, SameOrder, SameValue, NoReply DEF DataInv

\* The host reads a list as long as its own only if that was short enough to
\* arrive.
LEMMA ShortRead ==
  ASSUME NEW out \in Seq(ValueItems), request'.body = SentList(out), ReadsValues'
  PROVE  Len(request'.ids) < Byte
<1>1. request'.body = <<"L", Arrived(out)>>
  BY ListOfIs, NoItems DEF SentList, ReadsValues
<1>2. Len(request'.ids) = Len(Arrived(out))
  BY <1>1, ListParts DEF ReadsValues
<1>3. Len(out) \in Nat /\ Len(Arrived(out)) = Len(out) % Byte
  BY ArrivedIs, LenProperties
<1>. QED  BY <1>2, <1>3, ModIs

LEMMA ResolveEndKeeps ==
  ASSUME DataInv, ResolveEnd
  PROVE  DataInv'
<1>1. /\ request.pc = "resolve" /\ request.rest = <<>> /\ UNCHANGED <<order, value>>
      /\ Respond(request.fn, SentList(request.out))
      /\ DOMAIN request = RequestFields /\ request.fn \in {4, 14}
      /\ request.out \in Seq(ValueItems)
  BY DEF ResolveEnd, DataInv, RequestInv
<1>2. PICK ids, out, fn : ids = request.ids /\ out = request.out /\ fn = request.fn
  OBVIOUS
<1>3. /\ DOMAIN request' = RequestFields /\ request'.pc = "reply"
      /\ request'.fn = fn /\ request'.ids = ids /\ request'.body = SentList(out)
      /\ request'.listed = request.listed /\ request'.seen = request.seen
  BY <1>1, <1>2, RespondIs
<1>4. RequestInv'
  BY <1>3 DEF RequestInv
<1>5. ASSUME ids # <<>>, Len(ids) < Byte
      PROVE  ValuesAligned'
  <2>1. Gathering(request, value, order)
    BY <1>1, <1>2, <1>5 DEF DataInv, RequestInv
  <2>2. /\ ids \in Seq(Elems(ids)) /\ out \in Seq(ValueItems)
        /\ Len(out) \in Nat /\ Len(<<>>) + Len(out) = Len(ids)
        /\ \A i \in 1..Len(out) : Fits(request, out[i], ids[i])
    BY <1>1, <1>2, <2>1, OwnElems, LenProperties DEF Gathering, IsRest
  <2>3. Len(ids) = Len(out) /\ DOMAIN ids = 1..Len(out) /\ DOMAIN out = 1..Len(out)
    <3>1. Len(<<>>) = 0
      OBVIOUS
    <3>2. Len(ids) = Len(out)
      BY <2>2, <3>1
    <3>. QED  BY <2>2, <3>2, LenProperties
  <2>. DEFINE Steady == {i \in DOMAIN ids : /\ ids[i] \in Elems(request.listed)
                                           /\ None \notin request.seen[ids[i]]}
  <2>4. \A i \in DOMAIN out : out[i] = Empty => i \in DOMAIN ids \ Steady
    BY <2>2, <2>3 DEF Fits
  <2>5. \A i \in DOMAIN out : out[i] = Empty \/ Whole(out[i])
    BY <2>2, <2>3, IdIs, ElementOfSeq DEF ValueItems
  <2>6. CASE \E i \in DOMAIN out : out[i] = Empty
    <3>1. SentList(out) \in {Hollow, Panicked}
      BY <2>6, ListOfIs DEF SentList, Holes
    <3>2. ~ReadsValues'
      BY <1>3, <3>1, NoItems DEF ReadsValues
    <3>3. ~(DOMAIN ids \subseteq Steady)
      BY <2>4, <2>6
    <3>4. SentList(out) = Panicked => \E i, j \in DOMAIN ids \ Steady : i # j
      <4>. SUFFICES ASSUME SentList(out) = Panicked
                    PROVE  \E i, j \in DOMAIN ids \ Steady : i # j
        OBVIOUS
      <4>1. (\E i \in DOMAIN out : out[i] = Panicked) \/ \E i, j \in Holes(out) : i # j
        BY ListOfIs DEF SentList
      <4>2. \A i \in DOMAIN out : out[i] # Panicked
        BY <2>5, NoItems DEF Whole
      <4>3. \A i \in Holes(out) : i \in DOMAIN out /\ out[i] = Empty
        BY <2>5 DEF Holes, Whole
      <4>. QED  BY <2>4, <4>1, <4>2, <4>3
    <3>. QED  BY <1>3, <3>2, <3>3, <3>4 DEF ValuesAligned
  <2>7. CASE \A i \in DOMAIN out : out[i] # Empty
    <3>0. Arrived(out) = out
      BY <1>5, <2>2, <2>3, ArrivedIs
    <3>1. SentList(out) = <<"L", out>>
      BY <2>5, <2>7, <3>0, ListOfIs DEF SentList
    <3>2. ReadsValues' /\ Elements(request'.body) = out
      BY <1>3, <2>3, <3>1, ListParts DEF ReadsValues
    <3>3. \A i \in DOMAIN ids : /\ ids[i] \in Elems(request.listed)
                                /\ Name(out[i]) \in request.seen[ids[i]]
      BY <2>2, <2>3, <2>7 DEF Fits
    <3>4. request'.body # Panicked
      BY <1>3, <3>1, ListParts DEF Whole
    <3>. QED  BY <1>3, <3>2, <3>3, <3>4 DEF ValuesAligned
  <2>. QED  BY <2>6, <2>7
<1>6. ids = <<>> => ValuesAligned'
  BY <1>3 DEF ValuesAligned
<1>l. ~(Len(ids) < Byte) => ValuesAligned'
  BY <1>1, <1>2, <1>3, ShortRead DEF ValuesAligned
<1>7. AckTellsApplied' /\ NamelistsComplete'
  BY <1>1, <1>2, <1>3 DEF AckTellsApplied, NamelistsComplete
<1>. QED  BY <1>1, <1>4, <1>5, <1>6, <1>l, <1>7, SameOrder, SameValue DEF DataInv, AnswersAligned

-----------------------------------------------------------------------------
(* Name lists.                                                             *)

LEMMA ReadInfosIs ==
  ASSUME NEW width, NEW f, request'.body = <<"L", f>>,
         \A i \in DOMAIN f : /\ IsList(f[i]) /\ Len(Elements(f[i])) >= width
                             /\ IsId(Elements(f[i])[1])
  PROVE  ReadInfos(width)' = [i \in DOMAIN f |-> Name(Elements(f[i])[1])]
<1>1. IsList(request'.body) /\ Elements(request'.body) = f
  BY ListParts
<1>2. \A e \in Elems(f) : IsList(e) /\ Len(Elements(e)) >= width /\ IsId(Elements(e)[1])
  BY DEF Elems
<1>. QED  BY <1>1, <1>2 DEF ReadInfos

\* What is read is what arrives of the identifiers.
LEMMA InfosRead ==
  ASSUME NEW width, NEW S, NEW w \in Seq(S), NEW R, NEW f \in Seq(R), DOMAIN f = DOMAIN w,
         request'.body = <<"L", Arrived(f)>>,
         \A i \in DOMAIN w : /\ IsList(f[i]) /\ Len(Elements(f[i])) >= width
                             /\ IsId(Elements(f[i])[1]) /\ Name(Elements(f[i])[1]) = w[i]
  PROVE  ReadInfos(width)' = Arrived(w)
<1>1. PICK a : a = Arrived(f)
  OBVIOUS
<1>2. /\ DOMAIN a = DOMAIN Arrived(w)
      /\ \A i \in DOMAIN Arrived(w) : i \in DOMAIN w /\ a[i] = f[i]
  BY <1>1, ArrivedMap
<1>3. \A i \in DOMAIN a : /\ IsList(a[i]) /\ Len(Elements(a[i])) >= width
                          /\ IsId(Elements(a[i])[1]) /\ Name(Elements(a[i])[1]) = w[i]
  BY <1>2
<1>4. ReadInfos(width)' = [i \in DOMAIN a |-> Name(Elements(a[i])[1])]
  BY <1>1, <1>3, ReadInfosIs
<1>5. ReadInfos(width)' = [i \in DOMAIN Arrived(w) |-> w[i]]
  BY <1>2, <1>3, <1>4
<1>. QED  BY <1>5, ArrivedFunction

LEMMA StatusInfoIs ==
  ASSUME NEW id \in Elems(order["status"]), id # None
  PROVE  LET e == StatusInfoItem(id)
         IN  /\ Whole(e) /\ IsList(e) /\ Len(Elements(e)) >= 3
             /\ IsId(Elements(e)[1]) /\ Name(Elements(e)[1]) = id
<1>1. StatusInfoItem(id) = <<"L", <<Id(id), Text(5), Text(2)>>>>
  BY IdIs, TextIs, ThreeItems DEF StatusInfoItem
<1>2. Len(<<Id(id), Text(5), Text(2)>>) >= 3 /\ <<Id(id), Text(5), Text(2)>>[1] = Id(id)
  OBVIOUS
<1>. QED  BY <1>1, <1>2, ListParts, IdIs

\* A bound that a constant lacks is an item without bytes.
LEMMA ConstantInfoIs ==
  ASSUME NEW id \in Elems(order["constant"])
  PROVE  LET e == ConstantInfoItem(id)
         IN  /\ id \in WithMin /\ id \in WithMax =>
                  /\ Whole(e) /\ IsList(e) /\ Len(Elements(e)) >= 6
                  /\ IsId(Elements(e)[1]) /\ Name(Elements(e)[1]) = id
             /\ id \in WithMin /\ id \notin WithMax => e = Hollow
             /\ id \notin WithMin /\ id \in WithMax => e = Hollow
             /\ id \notin WithMin /\ id \notin WithMax => e = Panicked
<1>. DEFINE p == <<Id(id), Text(5), Bound(id, WithMin), Bound(id, WithMax), Id("default"),
                   Text(2)>>
<1>1. ConstantInfoItem(id) = ListOf(p, p)
  BY DEF ConstantInfoItem, L
<1>2. DOMAIN p = 1..6 /\ Len(p) = 6 /\ p[1] = Id(id) /\ p[2] = Text(5)
      /\ p[3] = Bound(id, WithMin) /\ p[4] = Bound(id, WithMax)
      /\ p[5] = Id("default") /\ p[6] = Text(2)
  OBVIOUS
<1>. HIDE DEF p
<1>3. /\ id \in WithMin => Whole(p[3])
      /\ id \notin WithMin => p[3] = Empty
      /\ id \in WithMax => Whole(p[4])
      /\ id \notin WithMax => p[4] = Empty
  BY <1>2, IdIs DEF Bound
<1>4. \A i \in DOMAIN p : i = 3 \/ i = 4 \/ Whole(p[i])
  <2>1. \A i \in 1..6 : i = 1 \/ i = 2 \/ i = 3 \/ i = 4 \/ i = 5 \/ i = 6
    OBVIOUS
  <2>. QED  BY <1>2, <2>1, IdIs, TextIs
<1>5. 3 \in DOMAIN p /\ 4 \in DOMAIN p
  BY <1>2
<1>6. Holes(p) = {i \in {3, 4} : p[i] = Empty}
  <2>1. Empty # Hollow /\ Whole(Hollow) = FALSE /\ Whole(Empty) = FALSE
    BY NoItems DEF Whole
  <2>2. \A i \in DOMAIN p : p[i] # Hollow
    BY <1>3, <1>4, <2>1
  <2>. QED  BY <1>4, <1>5, <2>1, <2>2 DEF Holes
<1>7. \A i \in DOMAIN p : p[i] # Panicked
  BY <1>3, <1>4, NoItems DEF Whole
<1>8. CASE id \in WithMin /\ id \in WithMax
  <2>1. \A i \in DOMAIN p : Whole(p[i])
    BY <1>3, <1>4, <1>8
  <2>2. ListOf(p, p) = <<"L", p>>
    BY <2>1, ListOfIs
  <2>3. Len(p) >= 6
    BY <1>2
  <2>. QED  BY <1>1, <1>2, <1>8, <2>2, <2>3, ListParts, IdIs
<1>9. CASE ~(id \in WithMin /\ id \in WithMax)
  <2>1. Holes(p) # {}
    BY <1>3, <1>6, <1>9
  <2>2. ListOf(p, p) \in {Hollow, Panicked}
    BY <2>1, ListOfIs
  <2>3. ListOf(p, p) = Panicked <=> \E i, j \in Holes(p) : i # j
    BY <1>7, ListOfIs
  <2>4. (\E i, j \in Holes(p) : i # j) <=> id \notin WithMin /\ id \notin WithMax
    <3>1. Whole(Empty) = FALSE
      BY DEF Whole
    <3>. QED  BY <1>3, <1>6, <3>1
  <2>. QED  BY <1>1, <1>9, <2>2, <2>3, <2>4
<1>. QED  BY <1>8, <1>9

LEMMA NamelistAsked ==
  ASSUME NEW t \in Tables, DataInv
  PROVE  /\ IsList(IdBody(<<>>)) /\ Wanted(t, IdBody(<<>>)) = order[t]
         /\ order[t] \in Seq(Elems(order[t])) /\ Distinct(order[t])
         /\ \A i \in DOMAIN order[t] : order[t][i] \in Elems(order[t]) /\ order[t][i] # None
<1>1. <<>> \in Seq({}) /\ Len(<<>>) = 0
  OBVIOUS
<1>2. Arrived(<<>>) = <<>>
  <2>1. Arrived(<<>>) \in Seq({})
    BY <1>1, ArrivedIs
  <2>. QED  BY <2>1
<1>3. IsList(IdBody(<<>>)) /\ Wanted(t, IdBody(<<>>)) = order[t]
  BY <1>1, <1>2, IdBodyIs DEF Wanted
<1>4. PICK S : S \in {Svids, Ecids} /\ order[t] \in Seq(S)
  BY DEF DataInv, OrderInv, Tables
<1>5. /\ order[t] \in Seq(Elems(order[t]))
      /\ \A i \in DOMAIN order[t] : order[t][i] \in S
  BY <1>4, OwnElems, LenProperties, ElementOfSeq
<1>6. None \notin S
  BY <1>4, DataAssumption
<1>. QED  BY <1>3, <1>5, <1>6 DEF Elems, DataInv, OrderInv

LEMMA StatusNamelistKeeps ==
  ASSUME DataInv, NEW ids, NEW body, onS1F11(ids, body),
         ids = <<>> => body = IdBody(<<>>)
  PROVE  DataInv'
<1>. DEFINE s == order["status"]
            infos == [i \in DOMAIN Wanted("status", body) |->
                        StatusInfoItem(Wanted("status", body)[i])]
<1>1. /\ request = Calm /\ UNCHANGED <<order, value>>
      /\ request' = [Calm EXCEPT !.pc = "reply", !.fn = 12, !.ids = ids, !.listed = s,
                       !.body = IF IsList(body) THEN SentList(infos) ELSE L(<<>>)]
  BY DEF onS1F11
<1>2. /\ DOMAIN request' = RequestFields /\ request'.pc = "reply" /\ request'.fn = 12
      /\ request'.ids = ids /\ request'.listed = s
      /\ request'.body = IF IsList(body) THEN SentList(infos) ELSE L(<<>>)
  BY <1>1, CalmIs DEF RequestFields
<1>. HIDE DEF infos
<1>3. ASSUME ids = <<>>
      PROVE  ReadInfos(3)' = Arrived(s)
  <2>1. "status" \in Tables
    BY DEF Tables
  <2>2. PICK w : w = s
    OBVIOUS
  <2>3. /\ w \in Seq(Elems(w)) /\ IsList(body)
        /\ infos = [i \in DOMAIN w |-> StatusInfoItem(w[i])]
        /\ \A i \in DOMAIN w : w[i] \in Elems(order["status"]) /\ w[i] # None
    BY <1>3, <2>1, <2>2, NamelistAsked DEF infos
  <2>4. DOMAIN infos = DOMAIN w /\ infos \in Seq(Elems(infos))
    <3>1. infos \in [1..Len(w) -> Elems(infos)] /\ Len(w) \in Nat /\ DOMAIN infos = DOMAIN w
      BY <2>3, LenProperties DEF Elems
    <3>. QED  BY <3>1
  <2>5. \A i \in DOMAIN w :
          /\ Whole(infos[i]) /\ IsList(infos[i]) /\ Len(Elements(infos[i])) >= 3
          /\ IsId(Elements(infos[i])[1]) /\ Name(Elements(infos[i])[1]) = w[i]
    BY <2>3, StatusInfoIs
  <2>6. request'.body = <<"L", Arrived(infos)>>
    BY <1>2, <2>3, <2>4, <2>5, ListOfIs DEF SentList
  <2>7. ReadInfos(3)' = Arrived(w)
    BY <2>3, <2>4, <2>5, <2>6, InfosRead
  <2>. QED  BY <2>2, <2>7
<1>4. AnswersAligned' /\ AckTellsApplied'
  BY <1>2, <1>3 DEF AckTellsApplied, AnswersAligned, ValuesAligned, NamelistsComplete
<1>5. RequestInv'
  BY <1>2 DEF RequestInv
<1>. QED  BY <1>1, <1>4, <1>5, SameOrder, SameValue DEF DataInv

\* One gap leaves one hollow entry; two leave an entry that panics or two hollow
\* ones, because no constant is listed twice.
LEMMA GapsShow ==
  ASSUME NEW w, Distinct(w), NEW f, DOMAIN f = DOMAIN w, request'.listed = w,
         \A i \in DOMAIN w :
           /\ w[i] \in WithMin /\ w[i] \in WithMax => Whole(f[i])
           /\ w[i] \in WithMin /\ w[i] \notin WithMax => f[i] = Hollow
           /\ w[i] \notin WithMin /\ w[i] \in WithMax => f[i] = Hollow
           /\ w[i] \notin WithMin /\ w[i] \notin WithMax => f[i] = Panicked
  PROVE  /\ Gaps' = {} => \A i \in DOMAIN w : w[i] \in WithMin /\ w[i] \in WithMax
         /\ Gaps' # {} => SentList(f) \in {Hollow, Panicked}
         /\ SentList(f) = Panicked <=> \E g, h \in Gaps' : g # h
<1>1. PICK G : G = Gaps'
  OBVIOUS
<1>2. \A c, x : <<c, x>> \in G <=>
        c \in Elems(w) /\ ((x = "min" /\ c \notin WithMin) \/ (x = "max" /\ c \notin WithMax))
  BY <1>1 DEF Gaps
<1>3. \A g \in G : g = <<g[1], g[2]>>
  BY <1>1 DEF Gaps
<1>4. \A c : c \in Elems(w) <=> \E i \in DOMAIN w : w[i] = c
  BY DEF Elems
<1>5. SentList(f) = Panicked <=>
        (\E i \in DOMAIN w : f[i] = Panicked) \/ \E i, j \in Holes(f) : i # j
  BY ListOfIs DEF SentList
<1>6. /\ ~Whole(Hollow) /\ ~Whole(Panicked) /\ ~Whole(Empty)
      /\ Empty # Hollow /\ Empty # Panicked /\ Hollow # Panicked
  BY NoItems DEF Whole
<1>7. \A i : i \in Holes(f) <=> i \in DOMAIN w /\ f[i] = Hollow
  BY <1>6 DEF Holes
<1>8. G = {} => \A i \in DOMAIN w : w[i] \in WithMin /\ w[i] \in WithMax
  BY <1>2, <1>4
<1>9. G # {} => SentList(f) \in {Hollow, Panicked}
  <2>1. SUFFICES ASSUME NEW g \in G PROVE SentList(f) \in {Hollow, Panicked}
    OBVIOUS
  <2>2. PICK i \in DOMAIN w : w[i] \notin WithMin \/ w[i] \notin WithMax
    BY <1>2, <1>3, <1>4
  <2>3. f[i] = Hollow \/ f[i] = Panicked
    BY <2>2
  <2>4. Holes(f) # {} \/ SentList(f) = Panicked
    BY <1>5, <1>7, <2>3
  <2>. QED  BY <2>4, ListOfIs DEF SentList
<1>10. ASSUME NEW i \in DOMAIN w, f[i] = Panicked
       PROVE  \E g, h \in G : g # h
  <2>1. w[i] \notin WithMin /\ w[i] \notin WithMax
    BY <1>6, <1>10
  <2>2. <<w[i], "min">> \in G /\ <<w[i], "max">> \in G
    BY <1>2, <1>4, <2>1
  <2>3. <<w[i], "min">> # <<w[i], "max">>
    OBVIOUS
  <2>. QED  BY <2>2, <2>3
<1>11. ASSUME NEW i \in Holes(f), NEW j \in Holes(f), i # j
       PROVE  \E g, h \in G : g # h
  <2>1. /\ i \in DOMAIN w /\ j \in DOMAIN w /\ w[i] # w[j]
        /\ w[i] \notin WithMin \/ w[i] \notin WithMax
        /\ w[j] \notin WithMin \/ w[j] \notin WithMax
    BY <1>6, <1>7, <1>11 DEF Distinct
  <2>2. PICK x : <<w[i], x>> \in G
    BY <1>2, <1>4, <2>1
  <2>3. PICK y : <<w[j], y>> \in G
    BY <1>2, <1>4, <2>1
  <2>4. <<w[i], x>> # <<w[j], y>>
    BY <2>1
  <2>. QED  BY <2>2, <2>3, <2>4
<1>12. ASSUME NEW g \in G, NEW h \in G, g # h
       PROVE  SentList(f) = Panicked
  <2>1. PICK i \in DOMAIN w : w[i] = g[1]
    BY <1>2, <1>3, <1>4
  <2>2. PICK j \in DOMAIN w : w[j] = h[1]
    BY <1>2, <1>3, <1>4
  <2>3. CASE i = j
    <3>1. g[1] = h[1] /\ g[2] # h[2]
      <4>1. g[1] = h[1]
        BY <2>1, <2>2, <2>3
      <4>2. g = <<g[1], g[2]>> /\ h = <<h[1], h[2]>>
        BY <1>3
      <4>3. g[2] # h[2]
        BY <4>1, <4>2, <1>12, Zenon
      <4>. QED  BY <4>1, <4>3
    <3>2. <<w[i], g[2]>> \in G /\ <<w[i], h[2]>> \in G
      BY <1>3, <2>1, <3>1
    <3>3. w[i] \notin WithMin /\ w[i] \notin WithMax
      BY <1>2, <3>1, <3>2
    <3>. QED  BY <1>5, <3>3
  <2>4. CASE i # j
    <3>1. \A k \in {i, j} : w[k] \notin WithMin \/ w[k] \notin WithMax
      <4>1. <<w[i], g[2]>> \in G /\ <<w[j], h[2]>> \in G
        BY <1>3, <2>1, <2>2
      <4>. QED  BY <1>2, <4>1
    <3>2. \A k \in {i, j} : f[k] = Hollow \/ f[k] = Panicked
      BY <3>1
    <3>. QED  BY <1>5, <1>7, <2>4, <3>2
  <2>. QED  BY <2>3, <2>4
<1>. QED  BY <1>1, <1>5, <1>8, <1>9, <1>10, <1>11, <1>12

LEMMA ConstantNamelistKeeps ==
  ASSUME DataInv, NEW ids, NEW body, onS2F29(ids, body),
         ids = <<>> => body = IdBody(<<>>)
  PROVE  DataInv'
<1>. DEFINE s == order["constant"]
            infos == [i \in DOMAIN Wanted("constant", body) |->
                        ConstantInfoItem(Wanted("constant", body)[i])]
<1>1. /\ request = Calm /\ UNCHANGED <<order, value>>
      /\ request' = [Calm EXCEPT !.pc = "reply", !.fn = 30, !.ids = ids, !.listed = s,
                       !.body = IF IsList(body) THEN SentList(infos) ELSE L(<<>>)]
  BY DEF onS2F29
<1>2. /\ DOMAIN request' = RequestFields /\ request'.pc = "reply" /\ request'.fn = 30
      /\ request'.ids = ids /\ request'.listed = s
      /\ request'.body = IF IsList(body) THEN SentList(infos) ELSE L(<<>>)
  BY <1>1, CalmIs DEF RequestFields
<1>. HIDE DEF infos
<1>3. ASSUME ids = <<>>
      PROVE  /\ Gaps' = {} => ReadInfos(6)' = Arrived(s)
             /\ Gaps' # {} => request'.body \in {Hollow, Panicked}
             /\ request'.body = Panicked <=> \E g, h \in Gaps' : g # h
  <2>1. "constant" \in Tables
    BY DEF Tables
  <2>2. PICK w : w = s
    OBVIOUS
  <2>3. /\ w \in Seq(Elems(w)) /\ Distinct(w) /\ IsList(body)
        /\ infos = [i \in DOMAIN w |-> ConstantInfoItem(w[i])]
        /\ \A i \in DOMAIN w : w[i] \in Elems(order["constant"])
    BY <1>3, <2>1, <2>2, NamelistAsked DEF infos
  <2>4. DOMAIN infos = DOMAIN w /\ infos \in Seq(Elems(infos))
    <3>1. infos \in [1..Len(w) -> Elems(infos)] /\ Len(w) \in Nat /\ DOMAIN infos = DOMAIN w
      BY <2>3, LenProperties DEF Elems
    <3>. QED  BY <3>1
  <2>5. \A i \in DOMAIN w :
          /\ w[i] \in WithMin /\ w[i] \in WithMax =>
               /\ Whole(infos[i]) /\ IsList(infos[i]) /\ Len(Elements(infos[i])) >= 6
               /\ IsId(Elements(infos[i])[1]) /\ Name(Elements(infos[i])[1]) = w[i]
          /\ w[i] \in WithMin /\ w[i] \notin WithMax => infos[i] = Hollow
          /\ w[i] \notin WithMin /\ w[i] \in WithMax => infos[i] = Hollow
          /\ w[i] \notin WithMin /\ w[i] \notin WithMax => infos[i] = Panicked
    BY <2>3, ConstantInfoIs
  <2>6. request'.body = SentList(infos) /\ request'.listed = w
    BY <1>2, <2>2, <2>3
  <2>7. /\ Gaps' = {} => \A i \in DOMAIN w : w[i] \in WithMin /\ w[i] \in WithMax
        /\ Gaps' # {} => SentList(infos) \in {Hollow, Panicked}
        /\ SentList(infos) = Panicked <=> \E g, h \in Gaps' : g # h
    BY <2>3, <2>4, <2>5, <2>6, GapsShow
  <2>8. ASSUME Gaps' = {}
        PROVE  ReadInfos(6)' = Arrived(w)
    <3>1. \A i \in DOMAIN w :
            /\ Whole(infos[i]) /\ IsList(infos[i]) /\ Len(Elements(infos[i])) >= 6
            /\ IsId(Elements(infos[i])[1]) /\ Name(Elements(infos[i])[1]) = w[i]
      BY <2>5, <2>7, <2>8
    <3>2. request'.body = <<"L", Arrived(infos)>>
      BY <2>4, <2>6, <3>1, ListOfIs DEF SentList
    <3>. QED  BY <2>3, <2>4, <3>1, <3>2, InfosRead
  <2>. QED  BY <2>2, <2>6, <2>7, <2>8
<1>4. AnswersAligned' /\ AckTellsApplied'
  BY <1>2, <1>3 DEF AckTellsApplied, AnswersAligned, ValuesAligned, NamelistsComplete
<1>5. RequestInv'
  BY <1>2 DEF RequestInv
<1>. QED  BY <1>1, <1>4, <1>5, SameOrder, SameValue DEF DataInv

-----------------------------------------------------------------------------
(* Setting constants.                                                      *)

LEMMA AckOf == \A n : Ack(Bin(n)) = n
BY DEF Ack, AckItem, Bin, IsList, Format, Elements

LEMMA UpdateAckIs ==
  ASSUME DataInv, NEW us
  PROVE  /\ UpdateAck(us) \in {0, 1, 2}
         /\ UpdateAck(us) = 0 => \A u \in Elems(us) : u.id \in Ecids
<1>. DEFINE Bad == {i \in DOMAIN us : us[i].id \notin Elems(order["constant"])}
<1>1. CASE Bad = {}
  <2>1. \A u \in Elems(us) : u.id \in Elems(order["constant"])
    BY <1>1 DEF Elems
  <2>2. Elems(order["constant"]) \subseteq Ecids
    BY OwnElems DEF DataInv, OrderInv
  <2>3. UpdateAck(us) = 0
    BY <1>1 DEF UpdateAck
  <2>. QED  BY <2>1, <2>2, <2>3
<1>2. CASE Bad # {}
  <2>1. UpdateAck(us) = IF us[Least(Bad)].id = None THEN 2 ELSE 1
    BY <1>2 DEF UpdateAck
  <2>. QED  BY <2>1
<1>. QED  BY <1>1, <1>2

\* What the reply to an update must show.
LEMMA AckShows ==
  ASSUME NEW us, NEW before, NEW ack, NEW k \in 0..Len(us),
         request'.ids = us, request'.before = before, Ack(request'.body) = ack,
         ack = 0 => k = Len(us) /\ \A i \in 1..Len(us) : us[i].value \in Valid[us[i].id],
         ack \in {1, 2} => k = 0,
         ack = 3 => k < Len(us) /\ (\/ us[k + 1].value \notin Valid[us[k + 1].id]
                                    \/ us[k + 1].id \in Driven),
         \A ec \in Ecids \ (Driven \cup Fixed) : value'[ec] = Latest(us, before, k, ec)
  PROVE  AckTellsApplied'
<1>1. \A ec : After(k, ec)' = Latest(us, before, k, ec)
  BY DEF After, Latest
<1>. QED  BY <1>1 DEF AckTellsApplied

LEMMA UpdatesAre ==
  ASSUME NEW body, Elements(body) \in Seq(Elems(Elements(body)))
  PROVE  Updates(body) \in Seq(Elems(Updates(body)))
<1>1. DOMAIN Elements(body) = 1..Len(Elements(body)) /\ Len(Elements(body)) \in Nat
  BY LenProperties
<1>2. PICK us : us = Updates(body)
  OBVIOUS
<1>3. us = [i \in 1..Len(Elements(body)) |-> us[i]]
  BY <1>1, <1>2 DEF Updates
<1>. QED  BY <1>1, <1>2, <1>3, IntervalSeq

LEMMA UpdateRequestKeeps ==
  ASSUME DataInv, NEW body, onS2F15(body),
         IsList(body) => Elements(body) \in Seq(Elems(Elements(body)))
  PROVE  DataInv'
<1>. DEFINE us == Updates(body)
            now == [Calm EXCEPT !.fn = 16, !.ids = us, !.before = value]
<1>1. request = Calm /\ UNCHANGED <<order, value>> /\ DOMAIN request = RequestFields
  BY DEF onS2F15, DataInv, RequestInv
<1>2. OrderInv' /\ ValueInv'
  BY <1>1, SameOrder, SameValue DEF DataInv
<1>3. CASE ~IsList(body) /\ Respond(16, Bin(2))
  <2>1. /\ request'.pc = "reply" /\ request'.fn = 16 /\ request'.ids = <<>>
        /\ DOMAIN request' = RequestFields
    BY <1>1, <1>3, RespondIs, CalmIs
  <2>2. RequestInv'
    BY <2>1 DEF RequestInv
  <2>3. AckTellsApplied' /\ AnswersAligned'
    BY <2>1 DEF AckTellsApplied, AnswersAligned, ValuesAligned, NamelistsComplete
  <2>. QED  BY <1>2, <2>2, <2>3 DEF DataInv
<1>4. IsList(body) => us \in Seq(Elems(us)) /\ Len(us) \in Nat
  BY UpdatesAre, LenProperties
<1>5. CASE /\ IsList(body) /\ (UpdateAck(us) # 0 \/ us = <<>>)
           /\ request' = [now EXCEPT !.pc = "reply", !.body = Bin(UpdateAck(us))]
  <2>. HIDE DEF us
  <2>1. /\ DOMAIN request' = RequestFields /\ request'.pc = "reply" /\ request'.fn = 16
        /\ request'.ids = us /\ request'.before = value
        /\ request'.body = Bin(UpdateAck(us))
    BY <1>5, CalmIs DEF RequestFields
  <2>2. RequestInv' /\ AnswersAligned'
    BY <2>1 DEF RequestInv, AnswersAligned, ValuesAligned, NamelistsComplete
  <2>3. CASE us = <<>>
    <3>1. AckTellsApplied'
      BY <2>1, <2>3 DEF AckTellsApplied
    <3>. QED  BY <1>2, <2>2, <3>1 DEF DataInv
  <2>4. CASE us # <<>>
    <3>1. PICK ack : ack = UpdateAck(us)
      OBVIOUS
    <3>2. ack \in {1, 2} /\ Ack(request'.body) = ack
      BY <1>5, <2>1, <2>4, <3>1, UpdateAckIs, AckOf
    <3>3. 0 \in 0..Len(us)
      BY <1>5, <1>4
    <3>4. PICK before : before = value
      OBVIOUS
    <3>5. \A ec \in Ecids \ (Driven \cup Fixed) : value'[ec] = Latest(us, before, 0, ec)
      BY <1>1, <3>4, LatestFirst
    <3>6. AckTellsApplied'
      BY <2>1, <3>2, <3>3, <3>4, <3>5, AckShows
    <3>. QED  BY <1>2, <2>2, <3>6 DEF DataInv
  <2>. QED  BY <2>3, <2>4
<1>6. CASE /\ UpdateAck(us) = 0 /\ us # <<>> /\ IsList(body)
           /\ request' = [now EXCEPT !.pc = "apply", !.rest = us]
  <2>1. us \in Seq(Elems(us))
    BY <1>6, UpdatesAre
  <2>. HIDE DEF us
  <2>2. /\ DOMAIN request' = RequestFields /\ request'.pc = "apply" /\ request'.fn = 16
        /\ request'.ids = us /\ request'.before = value /\ request'.rest = us
    BY <1>6, CalmIs DEF RequestFields
  <2>3. \A u \in Elems(us) : u.id \in Ecids
    BY <1>6, UpdateAckIs
  <2>4. IsRest(us, us, 0)
    BY <2>1, WholeIsRest
  <2>5. Applied(request', value', 0)
    BY <1>1, <2>2, LatestFirst DEF Applied
  <2>6. Applying(request', value')
    BY <1>6, <2>1, <2>2, <2>3, <2>4, <2>5 DEF Applying
  <2>7. RequestInv'
    BY <2>2, <2>6 DEF RequestInv
  <2>. QED  BY <1>2, <2>2, <2>7, NoReply DEF DataInv
<1>. QED  BY <1>3, <1>5, <1>6 DEF onS2F15

LEMMA ApplyNextKeeps ==
  ASSUME DataInv, ApplyNext
  PROVE  DataInv'
<1>1. /\ request.pc = "apply" /\ UNCHANGED order /\ DOMAIN request = RequestFields
      /\ Applying(request, value)
      /\ value \in [Svids \cup Ecids -> Values \cup {None}]
      /\ \A ec \in Ecids : value[ec] # None
  BY DEF ApplyNext, DataInv, RequestInv, ValueInv
<1>2. PICK us, rest, before :
        us = request.ids /\ rest = request.rest /\ before = request.before
  OBVIOUS
<1>3. PICK k \in Nat : IsRest(us, rest, k) /\ Applied(request, value, k)
  BY <1>1, <1>2 DEF Applying
<1>4. us \in Seq(Elems(us)) /\ (\A u \in Elems(us) : u.id \in Ecids) /\ rest # <<>>
  BY <1>1, <1>2 DEF Applying
<1>5. /\ k + 1 \in 1..Len(us) /\ Head(rest) = us[k + 1] /\ Len(us) \in Nat
      /\ IsRest(us, Tail(rest), k + 1)
      /\ Len(rest) = 1 <=> k + 1 = Len(us)
      /\ Len(rest) # 1 => Tail(rest) # <<>>
  BY <1>3, <1>4, RestNext
<1>6. PICK u : u = us[k + 1]
  OBVIOUS
<1>7. u \in Elems(us) /\ u.id \in Ecids
  <2>1. DOMAIN us = 1..Len(us)
    BY <1>4, LenProperties
  <2>. QED  BY <1>4, <1>5, <1>6, <2>1 DEF Elems
<1>8. /\ \A i \in 1..k : us[i].value \in Valid[us[i].id]
      /\ \A ec \in Ecids \ (Driven \cup Fixed) : value[ec] = Latest(us, before, k, ec)
  BY <1>2, <1>3 DEF Applied
<1>9. OrderInv'
  BY <1>1, SameOrder DEF DataInv
<1>10. CASE AcceptUpdate(u)
  <2>1. /\ u.value \in Valid[u.id] /\ u.value \in Values /\ u.value # None
        /\ value' = IF u.id \in Fixed THEN value ELSE [value EXCEPT ![u.id] = u.value]
    BY <1>7, <1>10, DataAssumption DEF AcceptUpdate
  <2>2. value' \in [Svids \cup Ecids -> Values \cup {None}]
    BY <1>1, <2>1
  <2>3. \A id \in Svids \cup Ecids :
          value'[id] = IF id = u.id /\ u.id \notin Fixed THEN u.value ELSE value[id]
    BY <1>1, <2>1
  <2>4. ValueInv'
    BY <1>1, <2>1, <2>2, <2>3 DEF ValueInv
  <2>5. \A i \in 1..(k + 1) : us[i].value \in Valid[us[i].id]
    <3>1. \A i \in 1..(k + 1) : i = k + 1 \/ i \in 1..k
      OBVIOUS
    <3>. QED  BY <1>6, <1>8, <2>1, <3>1
  <2>6. \A ec \in Ecids \ (Driven \cup Fixed) : value'[ec] = Latest(us, before, k + 1, ec)
    BY <1>6, <1>8, <2>3, LatestNext
  <2>7. CASE Len(rest) = 1
    <3>1. Respond(16, Bin(0))
      BY <1>2, <1>10, <2>7 DEF AcceptUpdate
    <3>2. /\ DOMAIN request' = RequestFields /\ request'.pc = "reply" /\ request'.fn = 16
          /\ request'.body = Bin(0) /\ request'.ids = us /\ request'.before = before
      BY <1>1, <1>2, <3>1, RespondIs
    <3>3. RequestInv' /\ AnswersAligned'
      BY <3>2, <1>5 DEF RequestInv, AnswersAligned, ValuesAligned, NamelistsComplete
    <3>4. PICK n : n = k + 1
      OBVIOUS
    <3>5. n \in 0..Len(us) /\ n = Len(us)
      BY <1>5, <2>7, <3>4
    <3>6. AckTellsApplied'
      BY <2>5, <2>6, <3>2, <3>4, <3>5, AckOf, AckShows
    <3>. QED  BY <1>9, <2>4, <3>3, <3>6 DEF DataInv
  <2>8. CASE Len(rest) # 1
    <3>1. request' = [request EXCEPT !.rest = Tail(@)]
      BY <1>2, <1>10, <2>8 DEF AcceptUpdate
    <3>2. /\ DOMAIN request' = RequestFields /\ request'.pc = "apply"
          /\ request'.fn = request.fn /\ request'.ids = us /\ request'.before = before
          /\ request'.rest = Tail(rest)
      BY <1>1, <1>2, <3>1 DEF RequestFields
    <3>3. Applied(request', value', k + 1)
      BY <2>5, <2>6, <3>2 DEF Applied
    <3>4. k + 1 \in Nat
      OBVIOUS
    <3>5. Applying(request', value')
      BY <1>1, <1>4, <1>5, <2>8, <3>2, <3>3, <3>4 DEF Applying
    <3>6. RequestInv'
      BY <3>2, <3>5 DEF RequestInv
    <3>. QED  BY <1>9, <2>4, <3>2, <3>6, NoReply DEF DataInv
  <2>. QED  BY <2>7, <2>8
<1>11. CASE RejectUpdate(u)
  <2>1. /\ u.value \notin Valid[u.id] \/ u.id \in Driven
        /\ Respond(16, Bin(3)) /\ UNCHANGED value
    BY <1>11 DEF RejectUpdate
  <2>2. /\ DOMAIN request' = RequestFields /\ request'.pc = "reply" /\ request'.fn = 16
        /\ request'.body = Bin(3) /\ request'.ids = us /\ request'.before = before
    BY <1>1, <1>2, <2>1, RespondIs
  <2>3. RequestInv' /\ ValueInv'
    BY <2>1, <2>2, SameValue DEF RequestInv, DataInv
  <2>4. AnswersAligned'
    BY <2>2 DEF AnswersAligned, ValuesAligned, NamelistsComplete
  <2>5. k \in 0..Len(us) /\ k < Len(us)
    BY <1>5
  <2>6. AckTellsApplied'
    BY <1>6, <1>8, <2>1, <2>2, <2>5, AckOf, AckShows
  <2>. QED  BY <1>9, <2>3, <2>4, <2>6 DEF DataInv
<1>. QED  BY <1>2, <1>5, <1>6, <1>10, <1>11 DEF ApplyNext

LEMMA DataReturnedKeeps ==
  ASSUME DataInv, DataReturned
  PROVE  DataInv'
<1>1. request' = Calm /\ UNCHANGED <<order, value>>
  BY DEF DataReturned
<1>2. RequestInv' /\ request'.pc # "reply"
  BY <1>1, CalmIs DEF RequestInv
<1>. QED  BY <1>1, <1>2, SameOrder, SameValue, NoReply DEF DataInv

-----------------------------------------------------------------------------

LEMMA DataStart == DataInit => DataInv
<1>. SUFFICES ASSUME DataInit PROVE DataInv
  OBVIOUS
<1>1. /\ order = [t \in Tables |-> <<>>] /\ request = Calm
      /\ value = [id \in Svids \cup Ecids |-> IF id \in Svids THEN None ELSE Default]
  BY DEF DataInit
<1>2. OrderInv
  BY <1>1 DEF OrderInv, Distinct, Tables
<1>3. ValueInv
  BY <1>1, DataAssumption DEF ValueInv
<1>4. RequestInv
  BY <1>1, CalmIs DEF RequestInv
<1>5. AckTellsApplied /\ AnswersAligned
  BY <1>1, CalmIs DEF AckTellsApplied, AnswersAligned, ValuesAligned, NamelistsComplete
<1>. QED  BY <1>2, <1>3, <1>4, <1>5 DEF DataInv

LEMMA BodiesAreLists ==
  ASSUME NEW us \in UpdateLists
  PROVE  LET body == UpdateBody(us)
         IN  Elements(body) \in Seq(Elems(Elements(body)))
<1>. DEFINE f == [i \in DOMAIN us |-> L(<<Id(us[i].id), Id(us[i].value)>>)]
<1>1. Len(us) \in Nat /\ DOMAIN us = 1..Len(us)
  BY DataAssumption, LenProperties
<1>2. f = [i \in 1..Len(us) |-> f[i]]
  BY <1>1
<1>3. UpdateBody(us) = ListOf(f, Arrived(f))
  BY DEF UpdateBody, SentList
<1>. HIDE DEF f
<1>4. f \in Seq(Elems(f))
  BY <1>1, <1>2, IntervalSeq
<1>5. Arrived(f) \in Seq(Elems(Arrived(f)))
  BY <1>4, ArrivedIs, OwnElems
<1>6. CASE ListOf(f, Arrived(f)) = <<"L", Arrived(f)>>
  BY <1>3, <1>5, <1>6, ListParts
<1>7. CASE ListOf(f, Arrived(f)) \in {Hollow, Panicked}
  <2>1. Elements(ListOf(f, Arrived(f))) = <<>> /\ <<>> \in Seq(Elems(<<>>))
    BY <1>7 DEF Elems, Elements, Hollow, Panicked
  <2>. QED  BY <1>3, <2>1
<1>. QED  BY <1>6, <1>7, ListOfIs

LEMMA DataStep == DataInv /\ [DataNext]_dataVars => DataInv'
<1>. SUFFICES ASSUME DataInv, [DataNext]_dataVars PROVE DataInv'
  OBVIOUS
<1>0. TableOf(4) = "status" /\ TableOf(14) = "constant" /\ 4 \in {4, 14} /\ 14 \in {4, 14}
  BY DEF TableOf
<1>1. CASE \/ \E sv \in Svids : RegisterStatusVariable(sv)
           \/ \E ec \in Ecids : RegisterEquipmentConstant(ec)
  BY <1>1, RegisterKeeps
<1>2. CASE \E id \in Svids \cup Ecids, v \in Values \cup {None} : SetDataValue(id, v)
  BY <1>2, SetDataValueKeeps
<1>3. CASE \E ids \in IdLists :
             \/ RequestStatusVariables(ids) \/ RequestEquipmentConstants(ids)
             \/ RequestStatusVariableInfo(ids) \/ RequestEquipmentConstantInfo(ids)
  <2>1. PICK ids \in IdLists :
             \/ RequestStatusVariables(ids) \/ RequestEquipmentConstants(ids)
             \/ RequestStatusVariableInfo(ids) \/ RequestEquipmentConstantInfo(ids)
    BY <1>3
  <2>2. ids \in Seq(Svids \cup Ecids) /\ (ids = <<>> => IdBody(ids) = IdBody(<<>>))
    BY DataAssumption
  <2>3. CASE RequestStatusVariables(ids)
    BY <1>0, <2>2, <2>3, ValueRequestKeeps DEF RequestStatusVariables
  <2>4. CASE RequestEquipmentConstants(ids)
    BY <1>0, <2>2, <2>4, ValueRequestKeeps DEF RequestEquipmentConstants
  <2>5. CASE RequestStatusVariableInfo(ids)
    BY <2>2, <2>5, StatusNamelistKeeps DEF RequestStatusVariableInfo
  <2>6. CASE RequestEquipmentConstantInfo(ids)
    BY <2>2, <2>6, ConstantNamelistKeeps DEF RequestEquipmentConstantInfo
  <2>. QED  BY <2>1, <2>3, <2>4, <2>5, <2>6
<1>4. CASE \E us \in UpdateLists : SendEquipmentConstantValues(us)
  BY <1>4, BodiesAreLists, UpdateRequestKeeps DEF SendEquipmentConstantValues
<1>5. CASE \E body \in OddBodies : Foreign(body)
  <2>1. PICK body \in OddBodies : Foreign(body)
    BY <1>5
  <2>2. IsList(body) => Elements(body) \in Seq(Elems(Elements(body)))
    BY DataAssumption
  <2>3. <<None>> # <<>>
    OBVIOUS
  <2>. QED  BY <1>0, <2>1, <2>2, <2>3, ValueRequestKeeps, StatusNamelistKeeps,
               ConstantNamelistKeeps, UpdateRequestKeeps DEF Foreign
<1>6. CASE ResolveNext \/ ResolveEnd \/ ApplyNext \/ DataReturned
  BY <1>6, ResolveNextKeeps, ResolveEndKeeps, ApplyNextKeeps, DataReturnedKeeps
<1>7. CASE UNCHANGED dataVars
  <2>1. UNCHANGED order /\ UNCHANGED value /\ UNCHANGED request
    BY <1>7 DEF dataVars
  <2>2. RequestInv'
    BY <2>1 DEF DataInv, RequestInv
  <2>3. AckTellsApplied'
    <3>1. ASSUME NEW k, NEW ec
          PROVE  After(k, ec)' = After(k, ec)
      <4>1. After(k, ec) = Latest(request.ids, request.before, k, ec)
        BY DEF After, Latest
      <4>2. After(k, ec)' = Latest(request'.ids, request'.before, k, ec)
        BY DEF After, Latest
      <4>. QED  BY <2>1, <4>1, <4>2
    <3>. QED  BY <2>1, <3>1 DEF DataInv, AckTellsApplied
  <2>4. ValuesAligned'
    BY <2>1 DEF DataInv, AnswersAligned, ValuesAligned, ReadsValues
  <2>5. NamelistsComplete'
    BY <2>1 DEF DataInv, AnswersAligned, NamelistsComplete, ReadInfos, Gaps
  <2>. QED  BY <2>1, <2>2, <2>3, <2>4, <2>5, SameOrder, SameValue DEF DataInv, AnswersAligned
<1>. QED  BY <1>1, <1>2, <1>3, <1>4, <1>5, <1>6, <1>7 DEF DataNext

LEMMA DataInvHolds == DataSpec => []DataInv
<1>. QED  BY DataStart, DataStep, PTL DEF DataSpec

(* The acknowledge code of S2F15 tells what was applied: accepted is all   *)
(* of it, refused at an entry is exactly the entries before it (onS2F15    *)
(* checks every entry, then applies one value after the other).            *)
THEOREM AckTellsAppliedHolds == DataSpec => []AckTellsApplied
<1>1. DataInv => AckTellsApplied
  BY DEF DataInv
<1>. QED  BY <1>1, DataInvHolds, PTL

(* The host pairs items with its identifiers by position, and each value   *)
(* it reads so is one the variable had during the request; it gets them    *)
(* all when all have one.  A name list without identifiers is all that is  *)
(* registered, in order, modulo 256.  An item without a value keeps the    *)
(* answer from being sent, two end the equipment (onS1F3, onS2F13,         *)
(* onS1F11, onS2F29, with NewListNode and ToBytes).                        *)
THEOREM AnswersAlignedHolds == DataSpec => []AnswersAligned
<1>1. DataInv => AnswersAligned
  BY DEF DataInv
<1>. QED  BY <1>1, DataInvHolds, PTL

\* The tables and values have their types.
LEMMA DataTyped == DataInv => DataTypeOK
<1>. SUFFICES ASSUME DataInv PROVE DataTypeOK
  OBVIOUS
<1>1. Elems(order["status"]) \subseteq Svids /\ Elems(order["constant"]) \subseteq Ecids
  BY OwnElems DEF DataInv, OrderInv
<1>2. request.pc = "apply" => request.rest # <<>>
  BY DEF DataInv, RequestInv, Applying
<1>. QED  BY <1>1, <1>2 DEF DataTypeOK, DataInv, OrderInv, ValueInv, RequestInv, Distinct

-----------------------------------------------------------------------------
(* Commands and process programs: where the call of the host is.           *)

\* The host waits for a call of this library that has arguments.
Asked == host.args # <<>>

\* What the equipment reads in request r is what the host asked.
Asks(r) ==
  /\ r.fn = host.fn
  /\ r.fn = "S7F3" /\ IsUpload(r.body) =>
       /\ Name(Elements(r.body)[1]) = host.args[1]
       /\ Size(Elements(r.body)[2]) = Cut(host.args[2])
  /\ r.fn = "S7F5" => r.body = Id(host.args[1])
  /\ r.fn = "S2F41" /\ IsCommand(r.body) =>
       Conveyed = <<Name(Elements(r.body)[1]), Params(r.body)>>
  /\ r.fn = "S2F31" => r.body = Text(16) /\ host.args = <<16>>

Takes(body) == IsAck(body) /\ Ack(body) = 0

Serves(body, held) ==
  LET kept   == held \ {Absent}
      misled == \E n \in kept : ~Short(n)
  IN  IF ~IsProgram(body) THEN misled
      ELSE IF Elements(Elements(body)[3])[1] = 0
      THEN \E n \in kept : Elements(Elements(body)[2])[1] = Cut(n)
      ELSE Absent \in held \/ misled

\* What the host reads in an answer is so.
Tells(body) ==
  /\ host.fn = "S7F3" /\ Takes(body) /\ ~host.local =>
       store[host.args[1]] = Cut(host.args[2])
  /\ host.fn = "S7F5" /\ "request" \notin installed => Serves(body, host.held)
  /\ host.fn \in {"S2F41", "S2F31"} /\ Takes(body) =>
       log[host.id] = <<[given |-> Conveyed, ok |-> TRUE]>>

\* A call is in one place, and younger calls are behind it.
Places ==
  /\ requests \in Seq(Elems(requests)) /\ answers \in Seq(Elems(answers))
  /\ \A r \in Elems(requests) : r.id \in 1..calls
  /\ \A a \in Elems(answers) : a.id \in 1..calls
  /\ upload # NoUpload => upload.id \in 1..calls
  /\ \A i, j \in DOMAIN requests : i < j => requests[i].id < requests[j].id
  /\ \A r \in Elems(requests) :
       /\ upload # NoUpload => upload.id < r.id
       /\ \A a \in Elems(answers) : a.id < r.id
  /\ upload # NoUpload => \A a \in Elems(answers) : a.id < upload.id

Programs ==
  /\ store \in [Ppids -> Nat \cup {Absent}]
  /\ upload # NoUpload => upload.ppid \in Ppids /\ upload.size \in Nat
  /\ \A r \in Elems(requests) : r.fn = "S7F3" /\ IsUpload(r.body) =>
       /\ Name(Elements(r.body)[1]) \in Ppids
       /\ Size(Elements(r.body)[2]) \in Nat

Logged ==
  /\ calls \in 0..MaxCalls /\ DOMAIN log = 1..MaxCalls
  /\ \A i \in 1..MaxCalls :
       i > calls \/ (\E r \in Elems(requests) : r.id = i) => log[i] = <<>>

CallFields == {"id", "fn", "args", "held", "local"}

Caller ==
  /\ DOMAIN host = CallFields /\ host.local \in BOOLEAN
  /\ Asked => host.id = calls
  /\ host.id \in 0..calls
  /\ Asked /\ host.fn = "S7F3" => host.args[1] \in Ppids /\ host.args[2] \in Nat
  /\ Asked /\ host.fn = "S7F5" =>
       host.args[1] \in Ppids /\ store[host.args[1]] \in host.held

OwnCall ==
  Asked =>
    /\ \A r \in Elems(requests) : r.id = host.id => Asks(r)
    /\ upload # NoUpload /\ upload.id = host.id =>
         /\ host.fn = "S7F3" /\ upload.ppid = host.args[1]
         /\ upload.size = Cut(host.args[2])
    /\ \A a \in Elems(answers) : a.id = host.id => Tells(a.body)

CommandsInv ==
  /\ installed \subseteq Handlers
  /\ Places /\ Programs /\ Logged /\ Caller /\ OwnCall

-----------------------------------------------------------------------------
(* Queues, and the numbers from one on in order.                           *)

LEMMA QueueAppend ==
  ASSUME NEW s, s \in Seq(Elems(s)), NEW e
  PROVE  LET t == Append(s, e)
         IN  /\ t \in Seq(Elems(t)) /\ Elems(t) = Elems(s) \cup {e}
             /\ DOMAIN s = 1..Len(s) /\ DOMAIN t = 1..(Len(s) + 1) /\ Len(s) \in Nat
             /\ t[Len(s) + 1] = e /\ \A i \in 1..Len(s) : t[i] = s[i]
<1>. DEFINE t == Append(s, e)
            T == Elems(s) \cup {e}
<1>1. s \in Seq(T)
  BY SeqMonotonic
<1>2. /\ t \in Seq(T) /\ Len(t) = Len(s) + 1 /\ t[Len(s) + 1] = e
      /\ \A i \in 1..Len(s) : t[i] = s[i]
  BY <1>1, AppendProperties
<1>3. Len(s) \in Nat /\ DOMAIN s = 1..Len(s) /\ DOMAIN t = 1..(Len(s) + 1)
  BY <1>2, LenProperties
<1>. HIDE DEF t
<1>4. Elems(t) = T
  <2>1. \A i \in DOMAIN t : t[i] \in T
    BY <1>2, <1>3, ElementOfSeq
  <2>2. Len(s) + 1 \in DOMAIN t /\ DOMAIN s \subseteq DOMAIN t
    BY <1>3
  <2>3. \A x \in T : \E i \in DOMAIN t : t[i] = x
    BY <1>2, <1>3, <2>2 DEF Elems
  <2>. QED  BY <2>1, <2>3 DEF Elems
<1>. QED  BY <1>2, <1>3, <1>4 DEF t

LEMMA QueueTail ==
  ASSUME NEW s, s \in Seq(Elems(s)), s # <<>>
  PROVE  LET t == Tail(s)
         IN  /\ t \in Seq(Elems(t)) /\ Elems(t) \subseteq Elems(s) /\ Head(s) \in Elems(s)
             /\ Head(s) = s[1] /\ 1 \in DOMAIN s
             /\ \A i \in DOMAIN t : i + 1 \in DOMAIN s /\ t[i] = s[i + 1] /\ i \in Nat \ {0}
<1>. DEFINE t == Tail(s)
<1>1. Len(s) \in Nat /\ DOMAIN s = 1..Len(s) /\ Len(s) # 0 /\ Head(s) = s[1]
  BY LenProperties, EmptySeq
<1>2. /\ Head(s) \in Elems(s) /\ t \in Seq(Elems(s)) /\ Len(t) = Len(s) - 1
      /\ \A i \in 1..Len(t) : t[i] = s[i + 1]
  BY HeadTailProperties
<1>3. DOMAIN t = 1..Len(t)
  BY <1>2, LenProperties
<1>4. t \in Seq(Elems(t)) /\ Elems(t) \subseteq Elems(s)
  BY <1>2, OwnElems
<1>. HIDE DEF t
<1>5. \A i \in DOMAIN t : i + 1 \in DOMAIN s /\ i \in Nat \ {0}
  BY <1>1, <1>2, <1>3
<1>. QED  BY <1>1, <1>2, <1>3, <1>4, <1>5 DEF t

LEMMA NumbersInOrder ==
  ASSUME NEW n \in Nat
  PROVE  InOrder(1..n) = [i \in 1..n |-> i]
<1>. DEFINE s == InOrder(1..n)
<1>1. IsFiniteSet(1..n) /\ Cardinality(1..n) = n /\ 1..n \in SUBSET Nat
  BY FS_Interval
<1>2. /\ s \in [1..n -> 1..n] /\ \A i, j \in 1..n : i < j => s[i] < s[j]
      /\ 1..n = Elems(s)
  BY <1>1, OrderExists
<1>. HIDE DEF s
<1>3. ASSUME NEW i \in 1..n
      PROVE  s[i] = i
  <2>. DEFINE f == [j \in 1..i |-> s[j]]
  <2>1. i \in Nat /\ s[i] \in Nat /\ 1..i \subseteq 1..n /\ 1..s[i] \subseteq 1..n
    BY <1>2
  <2>2. \A j \in 1..i : s[j] \in 1..s[i]
    <3>. SUFFICES ASSUME NEW j \in 1..i PROVE s[j] \in 1..s[i]
      OBVIOUS
    <3>1. j \in 1..n /\ s[j] \in 1..n /\ (j = i \/ j < i)
      BY <1>2, <2>1
    <3>2. s[j] = s[i] \/ s[j] < s[i]
      BY <1>2, <3>1
    <3>. QED  BY <2>1, <3>1, <3>2
  <2>3. f \in [1..i -> 1..s[i]]
    BY <2>2
  <2>4. \A a, b \in 1..i : f[a] = f[b] => a = b
    <3>. SUFFICES ASSUME NEW a \in 1..i, NEW b \in 1..i, a < b, s[a] = s[b] PROVE FALSE
      BY <2>1
    <3>1. a \in 1..n /\ b \in 1..n
      BY <2>1
    <3>2. s[a] < s[b] /\ s[a] \in Nat
      BY <1>2, <3>1
    <3>. QED  BY <3>2
  <2>5. \A y \in 1..s[i] : \E a \in 1..i : f[a] = y
    <3>. SUFFICES ASSUME NEW y \in 1..s[i] PROVE \E a \in 1..i : s[a] = y
      OBVIOUS
    <3>1. y \in 1..n
      BY <2>1
    <3>2. PICK a \in 1..n : s[a] = y
      BY <1>2, <3>1 DEF Elems
    <3>3. ~(i < a)
      <4>1. i < a => s[i] < s[a]
        BY <1>2
      <4>2. ~(s[i] < y) /\ y \in Nat
        BY <2>1
      <4>. QED  BY <3>2, <4>1, <4>2
    <3>4. a \in 1..i
      BY <2>1, <3>3
    <3>. QED  BY <3>2, <3>4
  <2>. HIDE DEF f
  <2>6. ExistsBijection(1..i, 1..s[i])
    BY <2>3, <2>4, <2>5, Fun_IsBij DEF ExistsBijection
  <2>7. IsFiniteSet(1..i) /\ Cardinality(1..i) = i /\ Cardinality(1..s[i]) = s[i]
    BY <2>1, FS_Interval
  <2>. QED  BY <2>6, <2>7, FS_Bijection
<1>4. s = [i \in 1..n |-> s[i]]
  BY <1>2
<1>. QED  BY <1>3, <1>4 DEF s

-----------------------------------------------------------------------------
(* What the messages say.                                                  *)

LEMMA BinTakes == \A n : Takes(Bin(n)) <=> n = 0
BY DEF Takes, IsAck, Ack, AckItem, Bin, IsList, Format, Elements

\* What the constructor made a list of is whole.
LEMMA ListIsWhole ==
  ASSUME NEW f, NEW g, IsList(ListOf(f, g))
  PROVE  ListOf(f, g) = <<"L", g>> /\ \A i \in DOMAIN f : Whole(f[i])
<1>1. ListOf(f, g) # Hollow /\ ListOf(f, g) # Panicked
  BY NoItems
<1>2. Holes(f) = {} /\ \A i \in DOMAIN f : f[i] # Panicked
  BY <1>1, ListOfIs
<1>. QED  BY <1>1, <1>2, ListOfIs DEF Whole, Holes

LEMMA SecondIsWhole ==
  ASSUME NEW x, NEW y, IsList(L(<<x, y>>))
  PROVE  Whole(y)
<1>. DEFINE p == <<x, y>>
<1>1. 2 \in DOMAIN p /\ p[2] = y
  OBVIOUS
<1>. HIDE DEF p
<1>2. IsList(ListOf(p, p))
  BY DEF L, p
<1>. QED  BY <1>1, <1>2, ListIsWhole

LEMMA CommandAckTakes ==
  ASSUME NEW hcack \in Nat
  PROVE  Takes(CommandAck(hcack)) <=> hcack = 0
<1>1. PICK n : n = Normal(hcack)
  OBVIOUS
<1>2. n = 0 <=> hcack = 0
  BY <1>1 DEF Normal
<1>3. PICK nil : nil = L(<<>>)
  OBVIOUS
<1>4. Whole(nil)
  <2>1. nil = <<"L", <<>>>>
    BY <1>3, ListOfIs DEF L
  <2>. QED  BY <2>1, ListParts
<1>5. CommandAck(hcack) = <<"L", <<Bin(n), nil>>>>
  BY <1>1, <1>3, <1>4, BinIs, TwoItems DEF CommandAck
<1>6. <<Bin(n), nil>> # <<>> /\ <<Bin(n), nil>>[1] = Bin(n)
  OBVIOUS
<1>7. AckItem(CommandAck(hcack)) = Bin(n)
  BY <1>5, <1>6, ListParts DEF AckItem
<1>. QED  BY <1>2, <1>7, BinIs DEF Takes, IsAck, Ack

\* Whatever the host decodes, it serves.
LEMMA ProgramServes ==
  ASSUME NEW pp, NEW held, NEW n
  PROVE  /\ n \in Nat /\ n \in held /\ n # Absent =>
              \A body \in ProgramBodies(Id(pp), n, 0) : Serves(body, held)
         /\ Absent \in held => \A body \in ProgramBodies(Id(pp), 0, 1) : Serves(body, held)
<1>1. ASSUME NEW m, NEW ack
      PROVE  LET body == L(<<Id(pp), Text(m), Bin(ack)>>)
             IN  /\ IsProgram(body) /\ Elements(Elements(body)[3])[1] = ack
                 /\ Elements(Elements(body)[2])[1] = m
  <2>1. PICK p : p = <<Id(pp), Text(m), Bin(ack)>>
    OBVIOUS
  <2>2. Len(p) >= 3 /\ p[2] = Text(m) /\ p[3] = Bin(ack)
    BY <2>1
  <2>3. L(p) = <<"L", p>>
    BY <2>1, IdIs, TextIs, BinIs, ThreeItems
  <2>. QED  BY <2>1, <2>2, <2>3, TextIs, BinIs, ListParts DEF IsProgram
<1>2. ASSUME n \in Nat, n \in held, n # Absent,
             NEW body \in ProgramBodies(Id(pp), n, 0)
      PROVE  Serves(body, held)
  <2>1. PICK sent : sent = <<Id(pp), Text(n), Bin(0)>>
    OBVIOUS
  <2>2. body \in Decodings(sent, n)
    BY <1>2, <2>1 DEF ProgramBodies
  <2>3. CASE n < Byte
    <3>1. body = L(sent)
      BY <2>2, <2>3 DEF Decodings
    <3>2. /\ IsProgram(body) /\ Elements(Elements(body)[3])[1] = 0
          /\ Elements(Elements(body)[2])[1] = n
      BY <1>1, <2>1, <3>1
    <3>3. Cut(n) = n
      BY <1>2, <2>3, ModIs DEF Cut
    <3>. QED  BY <1>2, <3>2, <3>3 DEF Serves
  <2>4. CASE ~(n < Byte)
    <3>0. ~Short(n)
      BY <2>4 DEF Short
    <3>1. CASE body = Garbled
      <4>1. ~IsProgram(Garbled)
        BY DEF Garbled, IsProgram, IsList, Format
      <4>. QED  BY <1>2, <3>0, <3>1, <4>1 DEF Serves
    <3>2. CASE body # Garbled
      <4>1. PICK item \in Misread : body = ListOf(sent, <<sent[1], SentText(n), item>>)
        BY <2>2, <2>4, <3>2 DEF Decodings
      <4>2. PICK p : p = <<sent[1], SentText(n), item>>
        OBVIOUS
      <4>3. \A i \in DOMAIN sent : Whole(sent[i])
        <5>1. DOMAIN sent = 1..3 /\ sent[1] = Id(pp) /\ sent[2] = Text(n) /\ sent[3] = Bin(0)
          BY <2>1
        <5>2. \A i \in 1..3 : i = 1 \/ i = 2 \/ i = 3
          OBVIOUS
        <5>. QED  BY <5>1, <5>2, IdIs, TextIs, BinIs
      <4>4. Elements(body) = p /\ p[2] = SentText(n)
        BY <4>1, <4>2, <4>3, ListOfIs, ListParts
      <4>5. Elements(Elements(body)[2])[1] = Cut(n)
        BY <4>4 DEF SentText, Elements, Cut
      <4>. QED  BY <1>2, <3>0, <4>5 DEF Serves
    <3>. QED  BY <3>1, <3>2
  <2>. QED  BY <2>3, <2>4
<1>3. ASSUME Absent \in held, NEW body \in ProgramBodies(Id(pp), 0, 1)
      PROVE  Serves(body, held)
  <2>1. 0 < Byte
    BY ByteAssumption
  <2>2. body = L(<<Id(pp), Text(0), Bin(1)>>)
    BY <1>3, <2>1 DEF ProgramBodies, Decodings
  <2>3. IsProgram(body) /\ Elements(Elements(body)[3])[1] = 1
    BY <1>1, <2>2
  <2>. QED  BY <1>3, <2>3 DEF Serves
<1>. QED  BY <1>2, <1>3

LEMMA ServesMore ==
  ASSUME NEW body, NEW held, NEW more, Serves(body, held), held \subseteq more
  PROVE  Serves(body, more)
BY DEF Serves

LEMMA UploadBodyIs ==
  ASSUME NEW pp, NEW n
  PROVE  LET body == L(<<Id(pp), SentText(n)>>)
         IN  Name(Elements(body)[1]) = pp /\ Size(Elements(body)[2]) = Cut(n)
<1>1. Whole(SentText(n)) /\ Size(SentText(n)) = Cut(n)
  BY DEF Whole, SentText, Empty, Hollow, Panicked, Size, Format, Elements, Cut
<1>2. L(<<Id(pp), SentText(n)>>) = <<"L", <<Id(pp), SentText(n)>>>>
  BY <1>1, IdIs, TwoItems
<1>3. <<Id(pp), SentText(n)>>[1] = Id(pp) /\ <<Id(pp), SentText(n)>>[2] = SentText(n)
  OBVIOUS
<1>. QED  BY <1>1, <1>2, <1>3, ListParts, IdIs

\* Those parameters of a command that arrive are read as they were given, or the
\* command is not sent at all.
LEMMA CommandBodyIs ==
  ASSUME NEW name, NEW given, given \in Seq(Elems(given))
  PROVE  LET params == Given(given)
             body   == L(<<Id(name), SentList([i \in DOMAIN params |->
                             L(<<Id(params[i].name), params[i].value>>)])>>)
         IN  IsCommand(body) => Name(Elements(body)[1]) = name /\ Params(body) = Arrived(params)
<1>1. PICK params : params = Given(given)
  OBVIOUS
<1>2. PICK items : items = [i \in DOMAIN params |-> L(<<Id(params[i].name), params[i].value>>)]
  OBVIOUS
<1>. DEFINE body == L(<<Id(name), SentList(items)>>)
<1>3. DOMAIN given = 1..Len(given) /\ Len(given) \in Nat
  BY LenProperties
<1>4. PICK n : n = Len(given)
  OBVIOUS
<1>5. /\ DOMAIN params = 1..n /\ DOMAIN items = 1..n /\ n \in Nat
      /\ \A i \in 1..n : /\ params[i] = [name |-> params[i].name, value |-> params[i].value]
                         /\ items[i] = L(<<Id(params[i].name), params[i].value>>)
  BY <1>1, <1>2, <1>3, <1>4 DEF Given
<1>6. params \in Seq(Elems(params)) /\ items \in Seq(Elems(items))
  <2>1. params = [i \in 1..n |-> params[i]]
    BY <1>1, <1>3, <1>4 DEF Given
  <2>2. items = [i \in 1..n |-> items[i]]
    BY <1>2, <1>5
  <2>3. params \in [1..n -> Elems(params)] /\ items \in [1..n -> Elems(items)]
    BY <1>5, <2>1, <2>2 DEF Elems
  <2>. QED  BY <1>5, <2>3
<1>. SUFFICES ASSUME IsCommand(body)
              PROVE  Name(Elements(body)[1]) = name /\ Params(body) = Arrived(params)
  BY <1>1, <1>2
<1>7. IsList(body)
  BY DEF IsCommand
<1>8. SentList(items) = <<"L", Arrived(items)>> /\ \A i \in 1..n : Whole(items[i])
  <2>1. Whole(SentList(items))
    BY <1>7, SecondIsWhole
  <2>2. IsList(ListOf(items, Arrived(items)))
    BY <2>1, ListOfIs, ListParts DEF SentList, Whole
  <2>. QED  BY <1>5, <2>2, ListIsWhole DEF SentList
<1>9. ASSUME NEW i \in 1..n
      PROVE  IsParam(items[i]) /\ Parameter(items[i]) = params[i]
  <2>1. PICK x, y : x = Id(params[i].name) /\ y = params[i].value
    OBVIOUS
  <2>2. items[i] = L(<<x, y>>)
    BY <1>5, <2>1
  <2>3. IsList(L(<<x, y>>))
    <3>1. PICK p : p = <<x, y>>
      OBVIOUS
    <3>2. Whole(ListOf(p, p))
      BY <1>8, <2>2, <3>1 DEF L
    <3>. QED  BY <3>1, <3>2, ListOfIs, ListParts DEF Whole, L
  <2>4. Whole(y) /\ Whole(x)
    BY <2>1, <2>3, SecondIsWhole, IdIs
  <2>5. items[i] = <<"L", <<x, y>>>>
    BY <2>2, <2>4, TwoItems
  <2>6. <<x, y>> # <<>> /\ <<x, y>>[1] = x /\ <<x, y>>[2] = y /\ Len(<<x, y>>) > 1
    OBVIOUS
  <2>7. IsParam(items[i])
    BY <2>1, <2>5, <2>6, ListParts, IdIs DEF IsParam
  <2>8. Parameter(items[i]) = [name |-> params[i].name, value |-> params[i].value]
    BY <2>1, <2>5, <2>6, ListParts, IdIs DEF Parameter
  <2>. QED  BY <1>5, <2>7, <2>8
<1>10. PICK a, b, m : a = Arrived(items) /\ b = Arrived(params) /\ m = Len(params) % Byte
  OBVIOUS
<1>11. /\ m \in Nat /\ DOMAIN a = 1..m /\ DOMAIN b = 1..m
       /\ \A i \in 1..m : i \in 1..n /\ a[i] = items[i] /\ b[i] = params[i]
  <2>1. Len(params) = n /\ Len(items) = n
    BY <1>5, <1>6, LenProperties
  <2>2. m \in Nat
    BY <1>5, <1>10, <2>1, ModIs
  <2>3. DOMAIN a = 1..m /\ \A i \in DOMAIN a : i \in DOMAIN items /\ a[i] = items[i]
    BY <1>6, <1>10, <2>1, ArrivedIs
  <2>4. DOMAIN b = 1..m /\ \A i \in DOMAIN b : b[i] = params[i]
    BY <1>6, <1>10, <2>1, ArrivedIs
  <2>. QED  BY <1>5, <2>2, <2>3, <2>4
<1>12. b = [i \in 1..m |-> b[i]]
  <2>1. b \in Seq(Elems(params))
    BY <1>6, <1>10, ArrivedIs
  <2>. QED  BY <1>11, <2>1, LenProperties
<1>13. PICK p : p = <<Id(name), <<"L", a>>>>
  OBVIOUS
<1>14. p[1] = Id(name) /\ p[2] = <<"L", a>> /\ ~(Len(p) < 2)
  BY <1>13
<1>15. Elements(body) = p
  <2>1. body = <<"L", p>>
    BY <1>8, <1>10, <1>13, ListParts, IdIs, TwoItems
  <2>. QED  BY <2>1, ListParts
<1>16. {i \in DOMAIN a : IsParam(a[i])} = 1..m
  BY <1>9, <1>11
<1>17. InOrder(1..m) = [i \in 1..m |-> i]
  BY <1>11, NumbersInOrder
<1>18. IsList(Elements(body)[2]) /\ Elements(Elements(body)[2]) = a
  BY <1>14, <1>15, ListParts
<1>. HIDE DEF body
<1>19. Params(body) = [i \in DOMAIN InOrder(1..m) |-> Parameter(a[InOrder(1..m)[i]])]
  BY <1>14, <1>15, <1>16, <1>18 DEF Params
<1>20. Params(body) = [i \in 1..m |-> Parameter(a[i])]
  BY <1>17, <1>19
<1>21. Params(body) = b
  BY <1>9, <1>11, <1>12, <1>20
<1>. QED  BY <1>10, <1>14, <1>15, <1>21, IdIs

-----------------------------------------------------------------------------
(* The steps of the host and of the application.                           *)

LEMMA IdleIs ==
  \A call \in {Idle, Dead} :
    DOMAIN call = CallFields /\ call.id = 0 /\ call.args = <<>> /\ call.local = FALSE
BY DEF Idle, Dead, CallFields

\* What holds of calls alone.
LEMMA SameLogged ==
  ASSUME Logged, UNCHANGED <<calls, log>>, Elems(requests') \subseteq Elems(requests)
  PROVE  Logged'
BY DEF Logged

LEMMA IdleCaller ==
  ASSUME host' \in {Idle, Dead}, calls' \in Nat
  PROVE  Caller' /\ OwnCall'
<1>1. /\ DOMAIN host' = CallFields /\ host'.id = 0 /\ host'.args = <<>>
      /\ host'.local = FALSE
  BY IdleIs
<1>2. ~Asked'
  BY <1>1 DEF Asked
<1>3. 0 \in 0..calls'
  OBVIOUS
<1>. QED  BY <1>1, <1>2, <1>3 DEF Caller, OwnCall

\* The numbers of the calls so far stay behind that of the next.
LEMMA NextCall ==
  ASSUME CommandsInv, calls < MaxCalls, calls' = calls + 1
  PROVE  /\ calls \in Nat /\ MaxCalls \in Nat /\ calls' \in 1..MaxCalls /\ calls' \in Nat
         /\ 1..calls \subseteq 1..calls' /\ calls' \notin 1..calls
         /\ \A i \in 1..calls : i < calls'
BY CommandAssumption DEF CommandsInv, Logged

\* A message that panics ends the host.
LEMMA AskPanics ==
  ASSUME CommandsInv, host' = Dead, calls < MaxCalls, calls' = calls + 1,
         UNCHANGED <<store, installed, requests, upload, answers, log>>
  PROVE  CommandsInv'
<1>1. Places'
  BY NextCall DEF CommandsInv, Places
<1>2. Programs' /\ Logged'
  BY NextCall DEF CommandsInv, Programs, Logged
<1>3. Caller' /\ OwnCall'
  BY NextCall, IdleCaller
<1>. QED  BY <1>1, <1>2, <1>3 DEF CommandsInv

LEMMA AskKeeps ==
  ASSUME CommandsInv, NEW fn, NEW args, NEW held, NEW body, Ask(fn, args, held, body),
         args = <<>> /\ fn = "S7F3" /\ IsUpload(body) =>
           Name(Elements(body)[1]) \in Ppids /\ Size(Elements(body)[2]) \in Nat,
         args # <<>> =>
           /\ fn = "S7F3" => /\ args[1] \in Ppids /\ args[2] \in Nat
                             /\ Name(Elements(body)[1]) = args[1]
                             /\ Size(Elements(body)[2]) = Cut(args[2])
           /\ fn = "S7F5" => /\ args[1] \in Ppids /\ store[args[1]] \in held
                             /\ body = Id(args[1])
           /\ fn = "S2F41" /\ IsCommand(body) =>
                <<args[1], Arrived(args[2])>> = <<Name(Elements(body)[1]), Params(body)>>
           /\ fn = "S2F31" => body = Text(16) /\ args = << 16 >>
  PROVE  CommandsInv'
<1>. PICK c : c = calls + 1
  OBVIOUS
<1>. PICK r : r = [id |-> c, fn |-> fn, body |-> body]
  OBVIOUS
<1>1. calls < MaxCalls /\ calls' = c /\ UNCHANGED <<store, installed, upload, answers, log>>
  BY DEF Ask
<1>2. /\ calls \in Nat /\ MaxCalls \in Nat /\ c \in 1..MaxCalls /\ c \in Nat
      /\ 1..calls \subseteq 1..c /\ c \notin 1..calls /\ \A i \in 1..calls : i < c
  BY <1>1, NextCall
<1>p. CASE host' = Dead /\ UNCHANGED requests
  BY <1>1, <1>p, AskPanics
<1>s. CASE /\ host' = [id |-> c, fn |-> fn, args |-> args, held |-> held, local |-> FALSE]
           /\ requests' = requests \/ requests' = Append(requests, r)
  <2>r. r.id = c /\ r.fn = fn /\ r.body = body
    OBVIOUS
  <2>o. /\ \A q \in Elems(requests) : q.id \in 1..calls
        /\ \A a \in Elems(answers) : a.id \in 1..calls
        /\ upload # NoUpload => upload.id \in 1..calls
    BY DEF CommandsInv, Places
  <2>1. /\ requests' \in Seq(Elems(requests')) /\ Elems(requests') \subseteq Elems(requests) \cup {r}
        /\ \A i, j \in DOMAIN requests' : i < j => requests'[i].id < requests'[j].id
    <3>1. CASE requests' = requests
      BY <3>1 DEF CommandsInv, Places
    <3>2. CASE requests' = Append(requests, r)
      <4>1. /\ requests' \in Seq(Elems(requests')) /\ Elems(requests') = Elems(requests) \cup {r}
            /\ DOMAIN requests = 1..Len(requests) /\ DOMAIN requests' = 1..(Len(requests) + 1)
            /\ Len(requests) \in Nat /\ requests'[Len(requests) + 1] = r
            /\ \A i \in 1..Len(requests) : requests'[i] = requests[i]
        BY <3>2, QueueAppend DEF CommandsInv, Places
      <4>2. ASSUME NEW i \in DOMAIN requests', NEW j \in DOMAIN requests', i < j
            PROVE  requests'[i].id < requests'[j].id
        <5>1. i \in DOMAIN requests
          BY <4>1, <4>2
        <5>2. CASE j \in DOMAIN requests
          BY <4>1, <4>2, <5>1, <5>2 DEF CommandsInv, Places
        <5>3. CASE j \notin DOMAIN requests
          <6>1. j = Len(requests) + 1
            BY <4>1, <5>3
          <6>2. requests[i].id \in 1..calls
            BY <2>o, <5>1 DEF Elems
          <6>. QED  BY <1>2, <2>r, <4>1, <5>1, <6>1, <6>2
        <5>. QED  BY <5>2, <5>3
      <4>. QED  BY <4>1, <4>2
    <3>. QED  BY <1>s, <3>1, <3>2
  <2>2. ASSUME NEW q \in Elems(requests')
        PROVE  /\ upload # NoUpload => upload.id < q.id
               /\ \A a \in Elems(answers) : a.id < q.id
    <3>1. q \in Elems(requests) \/ q = r
      BY <2>1
    <3>. QED  BY <1>2, <2>r, <2>o, <3>1 DEF CommandsInv, Places
  <2>3. /\ \A q \in Elems(requests') : q.id \in 1..c
        /\ \A a \in Elems(answers) : a.id \in 1..c
        /\ upload # NoUpload => upload.id \in 1..c
    BY <1>2, <2>1, <2>r, <2>o
  <2>4. Places'
    <3>1. answers \in Seq(Elems(answers))
          /\ (upload # NoUpload => \A a \in Elems(answers) : a.id < upload.id)
      BY DEF CommandsInv, Places
    <3>. QED  BY <1>1, <2>1, <2>2, <2>3, <3>1 DEF Places
  <2>5. /\ host'.id = c /\ host'.fn = fn /\ host'.args = args /\ host'.held = held
        /\ host'.local = FALSE /\ DOMAIN host' = CallFields
    BY <1>s DEF CallFields
  <2>6. Programs'
    <3>1. fn = "S7F3" /\ IsUpload(body) =>
            Name(Elements(body)[1]) \in Ppids /\ Size(Elements(body)[2]) \in Nat
      <4>1. \A n \in Nat : Cut(n) \in Nat
        BY ModIs DEF Cut
      <4>. QED  BY <4>1
    <3>. QED  BY <1>1, <2>1, <2>r, <3>1 DEF CommandsInv, Programs
  <2>7. Logged'
    <3>1. \A i \in 1..MaxCalls : i > c \/ i = c => i > calls
      BY <1>2
    <3>. QED  BY <1>1, <1>2, <2>1, <2>r, <3>1 DEF CommandsInv, Logged
  <2>8. Caller'
    <3>1. host'.id = calls' /\ host'.id \in 0..calls'
      BY <1>1, <1>2, <2>5
    <3>2. args # <<>> /\ fn = "S7F3" => args[1] \in Ppids /\ args[2] \in Nat
      OBVIOUS
    <3>3. args # <<>> /\ fn = "S7F5" => args[1] \in Ppids /\ store'[args[1]] \in held
      BY <1>1
    <3>. QED  BY <2>5, <3>1, <3>2, <3>3 DEF Caller, Asked
  <2>9. OwnCall'
    <3>1. ASSUME args # <<>> PROVE Asks(r)'
      <4>1. Conveyed' = IF fn = "S2F41" THEN <<args[1], Arrived(args[2])>> ELSE args
        BY <2>5 DEF Conveyed
      <4>. QED  BY <2>r, <2>5, <3>1, <4>1 DEF Asks
    <3>2. /\ \A q \in Elems(requests) : q.id # c
          /\ \A a \in Elems(answers) : a.id # c
          /\ upload # NoUpload => upload.id # c
      BY <1>2, <2>o
    <3>. QED  BY <1>1, <2>1, <2>5, <3>1, <3>2 DEF OwnCall, Asked
  <2>. QED  BY <1>1, <2>4, <2>6, <2>7, <2>8, <2>9 DEF CommandsInv
<1>. QED  BY <1>p, <1>s DEF Ask

LEMMA UploadKeeps ==
  ASSUME CommandsInv, NEW pp \in Ppids, NEW n \in Sizes, UploadProcessProgram(pp, n)
  PROVE  CommandsInv'
<1>1. n \in Nat /\ <<pp, n>> # <<>> /\ <<pp, n>>[1] = pp /\ <<pp, n>>[2] = n
  BY CommandAssumption
<1>2. Ask("S7F3", <<pp, n>>, {store[pp]}, L(<<Id(pp), SentText(n)>>))
  BY DEF UploadProcessProgram
<1>. QED  BY <1>1, <1>2, UploadBodyIs, AskKeeps

LEMMA RequestProgramKeeps ==
  ASSUME CommandsInv, NEW pp \in Ppids, RequestProcessProgram(pp)
  PROVE  CommandsInv'
<1>1. <<pp>> # <<>> /\ <<pp>>[1] = pp
  OBVIOUS
<1>2. Ask("S7F5", <<pp>>, {store[pp]}, Id(pp))
  BY DEF RequestProcessProgram
<1>. QED  BY <1>1, <1>2, AskKeeps

LEMMA RemoteCommandKeeps ==
  ASSUME CommandsInv, NEW cmd \in Commands, SendRemoteCommand(cmd)
  PROVE  CommandsInv'
<1>. DEFINE params == Given(cmd.params)
            body == L(<<Id(cmd.name), SentList([i \in DOMAIN params |->
                          L(<<Id(params[i].name), params[i].value>>)])>>)
<1>1. Ask("S2F41", <<cmd.name, params>>, {}, body)
  BY DEF SendRemoteCommand
<1>2. IsCommand(body) => Name(Elements(body)[1]) = cmd.name /\ Params(body) = Arrived(params)
  BY CommandAssumption, CommandBodyIs
<1>. HIDE DEF body, params
<1>3. /\ <<cmd.name, params>> # <<>> /\ <<cmd.name, params>>[1] = cmd.name
      /\ <<cmd.name, params>>[2] = params
  OBVIOUS
<1>. QED  BY <1>1, <1>2, <1>3, AskKeeps

LEMMA ClockCallsKeep ==
  ASSUME CommandsInv, RequestDateTime \/ SetDateTime
  PROVE  CommandsInv'
<1>1. <<16>> # <<>>
  OBVIOUS
<1>2. CASE RequestDateTime
  BY <1>2, AskKeeps DEF RequestDateTime
<1>3. CASE SetDateTime
  BY <1>1, <1>3, AskKeeps DEF SetDateTime
<1>. QED  BY <1>2, <1>3

LEMMA OddRequestKeeps ==
  ASSUME CommandsInv, NEW r \in OddRequests, Ask(r.fn, <<>>, {}, r.body)
  PROVE  CommandsInv'
BY UploadAssumption, AskKeeps

LEMMA GiveUpKeeps ==
  ASSUME CommandsInv, GiveUp
  PROVE  CommandsInv'
<1>1. host' = Idle /\ UNCHANGED <<store, installed, calls, requests, upload, answers, log>>
  BY DEF GiveUp
<1>2. Places' /\ Programs' /\ Logged'
  BY <1>1 DEF CommandsInv, Places, Programs, Logged
<1>3. calls \in Nat
  BY CommandAssumption DEF CommandsInv, Logged
<1>4. Caller' /\ OwnCall'
  BY <1>1, <1>3, IdleCaller
<1>. QED  BY <1>1, <1>2, <1>4 DEF CommandsInv

LEMMA CommandReturnedKeeps ==
  ASSUME CommandsInv, CommandReturned
  PROVE  CommandsInv'
<1>1. /\ answers # <<>> /\ answers' = Tail(answers)
      /\ host' \in {Idle, host}
      /\ UNCHANGED <<store, installed, calls, requests, upload, log>>
  BY DEF CommandReturned
<1>2. answers' \in Seq(Elems(answers')) /\ Elems(answers') \subseteq Elems(answers)
  BY <1>1, QueueTail DEF CommandsInv, Places
<1>3. Places' /\ Programs' /\ Logged'
  BY <1>1, <1>2 DEF CommandsInv, Places, Programs, Logged
<1>4. calls \in Nat
  BY CommandAssumption DEF CommandsInv, Logged
<1>5. CASE host' = Idle
  <2>1. Caller' /\ OwnCall'
    BY <1>1, <1>4, <1>5, IdleCaller
  <2>. QED  BY <1>1, <1>3, <2>1 DEF CommandsInv
<1>6. CASE host' = host
  <2>1. Caller'
    BY <1>1, <1>6 DEF CommandsInv, Caller, Asked
  <2>2. /\ Asked' <=> Asked
        /\ \A r : Asks(r)' <=> Asks(r)
        /\ \A body : Tells(body)' <=> Tells(body)
    BY <1>1, <1>6 DEF Asked, Asks, Tells, Conveyed
  <2>3. OwnCall'
    BY <1>1, <1>2, <1>6, <2>2 DEF CommandsInv, OwnCall
  <2>. QED  BY <1>1, <1>3, <2>1, <2>3 DEF CommandsInv
<1>. QED  BY <1>1, <1>5, <1>6

\* The first requests of a queue.
LEMMA QueuePrefix ==
  ASSUME NEW s, s \in Seq(Elems(s)), NEW k \in 0..Len(s)
  PROVE  LET t == SubSeq(s, 1, k)
         IN  /\ t \in Seq(Elems(t)) /\ Elems(t) \subseteq Elems(s)
             /\ \A i \in DOMAIN t : i \in DOMAIN s /\ t[i] = s[i]
<1>. DEFINE t == SubSeq(s, 1, k)
<1>1. Len(s) \in Nat /\ DOMAIN s = 1..Len(s)
  BY LenProperties
<1>2. t \in Seq(Elems(s)) /\ DOMAIN t = 1..k /\ \A i \in 1..k : t[i] = s[i]
  BY <1>1
<1>. HIDE DEF t
<1>3. t \in Seq(Elems(t)) /\ Elems(t) \subseteq Elems(s)
  BY <1>2, OwnElems
<1>. QED  BY <1>1, <1>2, <1>3 DEF t

LEMMA ConnectionDroppedKeeps ==
  ASSUME CommandsInv, ConnectionDropped
  PROVE  CommandsInv'
<1>1. answers' = <<>> /\ UNCHANGED <<store, installed, host, calls, upload, log>>
  BY DEF ConnectionDropped
<1>2. PICK k \in 0..Len(requests) : requests' = SubSeq(requests, 1, k)
  BY DEF ConnectionDropped
<1>3. requests \in Seq(Elems(requests))
  BY DEF CommandsInv, Places
<1>4. /\ requests' \in Seq(Elems(requests')) /\ Elems(requests') \subseteq Elems(requests)
      /\ \A i \in DOMAIN requests' : i \in DOMAIN requests /\ requests'[i] = requests[i]
  BY <1>2, <1>3, QueuePrefix
<1>5. answers' \in Seq(Elems(answers')) /\ Elems(answers') = {}
  BY <1>1 DEF Elems
<1>6. Places' /\ Programs' /\ Logged'
  BY <1>1, <1>4, <1>5 DEF CommandsInv, Places, Programs, Logged
<1>7. Caller'
  BY <1>1 DEF CommandsInv, Caller, Asked
<1>8. \A r : Asks(r)' <=> Asks(r)
  BY <1>1 DEF Asks, Conveyed
<1>9. OwnCall'
  BY <1>1, <1>4, <1>5, <1>8 DEF CommandsInv, OwnCall, Asked
<1>. QED  BY <1>1, <1>6, <1>7, <1>9 DEF CommandsInv

LEMMA InstallKeeps ==
  ASSUME CommandsInv, NEW h \in Handlers, Install(h)
  PROVE  CommandsInv'
<1>1. installed' = installed \cup {h} /\ UNCHANGED <<store, host, calls, requests, upload, answers, log>>
  BY DEF Install
<1>2. installed' \subseteq Handlers /\ Places' /\ Programs' /\ Logged' /\ Caller'
  BY <1>1 DEF CommandsInv, Places, Programs, Logged, Caller, Asked
<1>3. \A r : Asks(r)' = Asks(r)
  BY <1>1 DEF Asks, Conveyed
<1>4. \A body : Tells(body) => Tells(body)'
  BY <1>1 DEF Tells, Conveyed
<1>5. OwnCall'
  BY <1>1, <1>3, <1>4 DEF CommandsInv, OwnCall, Asked
<1>. QED  BY <1>2, <1>5 DEF CommandsInv

\* A program is put into the store; the call that asks for it sees it.
LEMMA PutIs ==
  ASSUME CommandsInv, NEW pp \in Ppids, NEW n \in Nat, NEW local \in BOOLEAN,
         Put(pp, n, local)
  PROVE  /\ store' \in [Ppids -> Nat \cup {Absent}]
         /\ \A p \in Ppids : store'[p] = IF p = pp THEN n ELSE store[p]
         /\ DOMAIN host' = CallFields /\ host'.id = host.id /\ host'.fn = host.fn
         /\ host'.args = host.args /\ host.held \subseteq host'.held
         /\ host'.local \in BOOLEAN
         /\ host.local => host'.local
         /\ Asked /\ host.fn \in {"S7F3", "S7F5"} /\ host.args[1] = pp =>
              (local => host'.local) /\ n \in host'.held
<1>1. /\ store' = [store EXCEPT ![pp] = n] /\ store \in [Ppids -> Nat \cup {Absent}]
      /\ DOMAIN host = CallFields /\ host.local \in BOOLEAN
  BY DEF Put, CommandsInv, Programs, Caller
<1>2. /\ store' \in [Ppids -> Nat \cup {Absent}]
      /\ \A p \in Ppids : store'[p] = IF p = pp THEN n ELSE store[p]
  BY <1>1
<1>. DEFINE Sees == host.fn \in {"S7F3", "S7F5"} /\ host.args # <<>> /\ host.args[1] = pp
<1>3. CASE Sees
  <2>1. host' = [host EXCEPT !.held = @ \cup {n}, !.local = @ \/ local]
    BY <1>3 DEF Put
  <2>2. PICK held, l : held = host.held \cup {n} /\ l = (host.local \/ local)
    OBVIOUS
  <2>3. host' = [host EXCEPT !.held = held, !.local = l]
    BY <2>1, <2>2
  <2>4. /\ DOMAIN host' = CallFields /\ host'.id = host.id /\ host'.fn = host.fn
        /\ host'.args = host.args /\ host'.held = held /\ host'.local = l
    BY <1>1, <2>3 DEF CallFields
  <2>5. l \in BOOLEAN /\ (host.local => l) /\ (local => l)
    BY <1>1, <2>2
  <2>. QED  BY <1>2, <2>2, <2>4, <2>5
<1>4. CASE ~Sees
  <2>1. host' = host
    BY <1>4 DEF Put
  <2>. QED  BY <1>1, <1>2, <1>4, <2>1 DEF Asked
<1>. QED  BY <1>3, <1>4

LEMMA PutCaller ==
  ASSUME CommandsInv, NEW pp \in Ppids, NEW n \in Nat,
         Put(pp, n, TRUE) \/ Put(pp, n, FALSE), UNCHANGED calls
  PROVE  Caller'
<1>1. /\ DOMAIN host' = CallFields /\ host'.local \in BOOLEAN
      /\ host'.id = host.id /\ host'.fn = host.fn /\ host'.args = host.args
      /\ host.held \subseteq host'.held
      /\ \A p \in Ppids : store'[p] = IF p = pp THEN n ELSE store[p]
      /\ Asked /\ host.fn \in {"S7F3", "S7F5"} /\ host.args[1] = pp => n \in host'.held
  <2>1. CASE Put(pp, n, TRUE)
    BY <2>1, PutIs
  <2>2. CASE Put(pp, n, FALSE)
    BY <2>2, PutIs
  <2>. QED  BY <2>1, <2>2
<1>2. ASSUME Asked', host'.fn = "S7F5"
      PROVE  host'.args[1] \in Ppids /\ store'[host'.args[1]] \in host'.held
  <2>1. Asked /\ host.fn = "S7F5" /\ host.args[1] \in Ppids /\ store[host.args[1]] \in host.held
    BY <1>1, <1>2 DEF Asked, CommandsInv, Caller
  <2>. QED  BY <1>1, <2>1
<1>3. Asked' /\ host'.fn = "S7F3" => host'.args[1] \in Ppids /\ host'.args[2] \in Nat
  BY <1>1 DEF Asked, CommandsInv, Caller
<1>4. (Asked' => host'.id = calls') /\ host'.id \in 0..calls'
  BY <1>1 DEF CommandsInv, Caller, Asked
<1>. QED  BY <1>1, <1>2, <1>3, <1>4 DEF Caller

LEMMA RegisterProgramKeeps ==
  ASSUME CommandsInv, NEW pp \in Ppids, NEW n \in Sizes, RegisterProcessProgram(pp, n)
  PROVE  CommandsInv'
<1>1. /\ Put(pp, n, TRUE) /\ n \in Nat
      /\ UNCHANGED <<installed, calls, requests, upload, answers, log>>
  BY CommandAssumption DEF RegisterProcessProgram
<1>2. Caller'
  BY <1>1, PutCaller
<1>3. /\ store' \in [Ppids -> Nat \cup {Absent}]
      /\ \A p \in Ppids : store'[p] = IF p = pp THEN n ELSE store[p]
      /\ host'.id = host.id /\ host'.fn = host.fn
      /\ host'.args = host.args /\ host.held \subseteq host'.held
      /\ host'.local \in BOOLEAN /\ host.local \in BOOLEAN
      /\ host.local => host'.local
      /\ Asked /\ host.fn \in {"S7F3", "S7F5"} /\ host.args[1] = pp => host'.local
  BY <1>1, PutIs DEF CommandsInv, Caller
<1>4. Places' /\ Programs' /\ Logged'
  BY <1>1, <1>3 DEF CommandsInv, Places, Programs, Logged
<1>5. ASSUME NEW body, Asked, Tells(body)
      PROVE  Tells(body)'
  <2>1. host.fn = "S7F3" /\ Takes(body) /\ ~host'.local =>
          store'[host.args[1]] = Cut(host.args[2])
    <3>. SUFFICES ASSUME host.fn = "S7F3", Takes(body), ~host'.local
                  PROVE  store'[host.args[1]] = Cut(host.args[2])
      OBVIOUS
    <3>a. ~host.local
      BY <1>3
    <3>b. host.args[1] # pp
      BY <1>3, <1>5
    <3>1. ~host.local /\ host.args[1] # pp
      BY <3>a, <3>b
    <3>2. host.args[1] \in Ppids
      BY <1>5 DEF CommandsInv, Caller
    <3>3. store'[host.args[1]] = store[host.args[1]]
      BY <1>3, <3>1, <3>2
    <3>4. store[host.args[1]] = Cut(host.args[2])
      BY <1>5, <3>1 DEF Tells
    <3>. QED  BY <3>3, <3>4
  <2>2. host.fn = "S7F5" /\ "request" \notin installed => Serves(body, host'.held)
    BY <1>3, <1>5, ServesMore DEF Tells
  <2>3. host.fn \in {"S2F41", "S2F31"} /\ Takes(body) =>
          log[host.id] = <<[given |-> Conveyed, ok |-> TRUE]>>
    BY <1>5 DEF Tells
  <2>4. Conveyed' = Conveyed
    BY <1>3 DEF Conveyed
  <2>. QED  BY <1>1, <1>3, <2>1, <2>2, <2>3, <2>4 DEF Tells
<1>6. \A r : Asks(r)' = Asks(r)
  BY <1>3 DEF Asks, Conveyed
<1>7. OwnCall'
  BY <1>1, <1>3, <1>5, <1>6 DEF CommandsInv, OwnCall, Asked
<1>. QED  BY <1>1, <1>2, <1>4, <1>7 DEF CommandsInv

\* An answer is put behind the others, or not sent.
LEMMA AnswerIs ==
  ASSUME CommandsInv, NEW id, NEW body, Answer(id, body)
  PROVE  /\ answers' \in Seq(Elems(answers'))
         /\ \A a \in Elems(answers') : a \in Elems(answers) \/ (a.id = id /\ a.body = body)
<1>1. answers \in Seq(Elems(answers))
  BY DEF CommandsInv, Places
<1>2. CASE answers' = answers
  BY <1>1, <1>2
<1>3. CASE answers' = Append(answers, [id |-> id, body |-> body])
  BY <1>1, <1>3, QueueAppend
<1>. QED  BY <1>2, <1>3 DEF Answer

LEMMA StoreUploadKeeps ==
  ASSUME CommandsInv, StoreUpload
  PROVE  CommandsInv'
<1>. PICK up : up = upload
  OBVIOUS
<1>1. /\ up # NoUpload /\ Put(up.ppid, up.size, FALSE) /\ Answer(up.id, Bin(0))
      /\ upload' = NoUpload /\ UNCHANGED <<installed, calls, requests, log>>
      /\ up.ppid \in Ppids /\ up.size \in Nat /\ up.id \in 1..calls
  BY DEF StoreUpload, CommandsInv, Programs, Places
<1>2. Caller'
  BY <1>1, PutCaller
<1>3. /\ store' \in [Ppids -> Nat \cup {Absent}]
      /\ \A p \in Ppids : store'[p] = IF p = up.ppid THEN up.size ELSE store[p]
      /\ host'.id = host.id /\ host'.fn = host.fn /\ host'.args = host.args
  BY <1>1, PutIs
<1>4. /\ answers' \in Seq(Elems(answers'))
      /\ \A a \in Elems(answers') : a \in Elems(answers) \/ (a.id = up.id /\ a.body = Bin(0))
  BY <1>1, AnswerIs
<1>5. Places'
  BY <1>1, <1>4 DEF CommandsInv, Places
<1>6. Programs' /\ Logged'
  BY <1>1, <1>3 DEF CommandsInv, Programs, Logged
<1>7. ASSUME Asked, NEW a \in Elems(answers'), a.id = host.id
      PROVE  Tells(a.body)'
  <2>1. host.id = calls /\ calls \in Nat
    BY <1>7, CommandAssumption DEF CommandsInv, Caller, Logged
  <2>2. a \notin Elems(answers)
    <3>1. a \in Elems(answers) => a.id < up.id
      BY <1>1 DEF CommandsInv, Places
    <3>2. ~(calls < up.id)
      BY <1>1, <2>1
    <3>. QED  BY <1>7, <2>1, <3>1, <3>2
  <2>3. a.id = up.id /\ a.body = Bin(0)
    BY <1>4, <1>7, <2>2
  <2>4. host.fn = "S7F3" /\ up.ppid = host.args[1] /\ up.size = Cut(host.args[2])
    BY <1>1, <1>7, <2>3 DEF CommandsInv, OwnCall
  <2>. QED  BY <1>1, <1>3, <2>4 DEF Tells
<1>8. \A r : Asks(r)' = Asks(r)
  BY <1>3 DEF Asks, Conveyed
<1>9. OwnCall'
  BY <1>1, <1>3, <1>7, <1>8 DEF CommandsInv, OwnCall, Asked
<1>. QED  BY <1>1, <1>2, <1>5, <1>6, <1>9 DEF CommandsInv

-----------------------------------------------------------------------------
(* The handlers: each takes the first request.                             *)

LEMMA Taken ==
  ASSUME CommandsInv, NEW fn, Take(fn)
  PROVE  /\ upload = NoUpload /\ Request \in Elems(requests) /\ Request.fn = fn
         /\ Request.id \in 1..calls /\ log[Request.id] = <<>>
         /\ requests' \in Seq(Elems(requests')) /\ Elems(requests') \subseteq Elems(requests)
         /\ \A r \in Elems(requests') : Request.id < r.id
         /\ \A i, j \in DOMAIN requests' : i < j => requests'[i].id < requests'[j].id
         /\ \A a \in Elems(answers) : a.id < Request.id
         /\ Asked /\ Request.id = host.id => Asks(Request)
         /\ UNCHANGED <<installed, calls>>
<1>. PICK r, rs : r = Head(requests) /\ rs = requests
  OBVIOUS
<1>1. /\ upload = NoUpload /\ rs # <<>> /\ r.fn = fn /\ Request = r
      /\ requests' = Tail(rs) /\ UNCHANGED <<installed, calls>>
  BY DEF Take, Request
<1>2. rs \in Seq(Elems(rs)) /\ \A i, j \in DOMAIN rs : i < j => rs[i].id < rs[j].id
  BY DEF CommandsInv, Places
<1>3. /\ Tail(rs) \in Seq(Elems(Tail(rs))) /\ Elems(Tail(rs)) \subseteq Elems(rs)
      /\ r \in Elems(rs) /\ r = rs[1] /\ 1 \in DOMAIN rs
      /\ \A i \in DOMAIN Tail(rs) :
           i + 1 \in DOMAIN rs /\ Tail(rs)[i] = rs[i + 1] /\ i \in Nat \ {0}
  BY <1>1, <1>2, QueueTail
<1>4. PICK t : t = Tail(rs)
  OBVIOUS
<1>5. \A q \in Elems(t) : r.id < q.id
  <2>. SUFFICES ASSUME NEW i \in DOMAIN t PROVE r.id < t[i].id
    BY DEF Elems
  <2>1. i + 1 \in DOMAIN rs /\ 1 < i + 1 /\ t[i] = rs[i + 1]
    BY <1>3, <1>4
  <2>. QED  BY <1>2, <1>3, <2>1
<1>6. \A i, j \in DOMAIN t : i < j => t[i].id < t[j].id
  <2>. SUFFICES ASSUME NEW i \in DOMAIN t, NEW j \in DOMAIN t, i < j PROVE t[i].id < t[j].id
    OBVIOUS
  <2>1. i + 1 \in DOMAIN rs /\ j + 1 \in DOMAIN rs /\ i + 1 < j + 1
    BY <1>3, <1>4
  <2>. QED  BY <1>2, <1>3, <1>4, <2>1
<1>7. /\ r.id \in 1..calls /\ log[r.id] = <<>>
      /\ \A a \in Elems(answers) : a.id < r.id
      /\ Asked /\ r.id = host.id => Asks(r)
  <2>1. r.id \in 1..calls /\ \A a \in Elems(answers) : a.id < r.id
    BY <1>3 DEF CommandsInv, Places
  <2>2. r.id \in 1..MaxCalls
    BY <2>1, CommandAssumption DEF CommandsInv, Logged
  <2>3. log[r.id] = <<>>
    BY <1>3, <2>2 DEF CommandsInv, Logged
  <2>. QED  BY <1>3, <2>1, <2>3 DEF CommandsInv, OwnCall
<1>. QED  BY <1>1, <1>3, <1>4, <1>5, <1>6, <1>7

\* The application was called for this request, or not at all.
LEMMA LoggedStep ==
  ASSUME CommandsInv, NEW fn, Take(fn),
         UNCHANGED log \/ \E given, ok : Call(given, ok)
  PROVE  /\ Logged'
         /\ \A i \in 1..MaxCalls : i # Request.id => log'[i] = log[i]
<1>. PICK id : id = Request.id
  OBVIOUS
<1>1. /\ id \in 1..calls /\ Elems(requests') \subseteq Elems(requests)
      /\ (\A r \in Elems(requests') : id < r.id) /\ UNCHANGED calls
  BY Taken
<1>2. UNCHANGED log \/ \E e : log' = [log EXCEPT ![id] = e]
  BY DEF Call
<1>3. /\ DOMAIN log' = 1..MaxCalls
      /\ \A i \in 1..MaxCalls : i # id => log'[i] = log[i]
  <2>1. DOMAIN log = 1..MaxCalls
    BY DEF CommandsInv, Logged
  <2>. QED  BY <1>2, <2>1
<1>4. ASSUME NEW i \in 1..MaxCalls, i > calls' \/ \E r \in Elems(requests') : r.id = i
      PROVE  log'[i] = <<>>
  <2>1. i # id
    <3>1. calls \in Nat /\ id \in Nat /\ id <= calls
      BY <1>1, CommandAssumption DEF CommandsInv, Logged
    <3>. QED  BY <1>1, <1>4, <3>1
  <2>2. i > calls \/ \E r \in Elems(requests) : r.id = i
    BY <1>1, <1>4
  <2>. QED  BY <1>3, <2>1, <2>2 DEF CommandsInv, Logged
<1>. QED  BY <1>1, <1>3, <1>4 DEF CommandsInv, Logged

\* The answers on their way stay true.
LEMMA OldAnswersTell ==
  ASSUME CommandsInv, NEW fn, Take(fn), UNCHANGED <<store, host>>,
         UNCHANGED log \/ \E given, ok : Call(given, ok),
         Asked, NEW a \in Elems(answers), a.id = host.id
  PROVE  Tells(a.body)'
<1>1. a.id < Request.id /\ Request.id \in 1..calls /\ a.id \in 1..calls /\ UNCHANGED installed
  BY Taken DEF CommandsInv, Places
<1>2. calls \in 0..MaxCalls /\ MaxCalls \in Nat
  BY CommandAssumption DEF CommandsInv, Logged
<1>3. a.id # Request.id /\ a.id \in 1..MaxCalls
  BY <1>1, <1>2
<1>4. log'[host.id] = log[host.id]
  BY <1>3, LoggedStep
<1>5. Tells(a.body)
  BY DEF CommandsInv, OwnCall
<1>. QED  BY <1>1, <1>4, <1>5 DEF Tells, Conveyed

\* A handler that answers at once, and truly.
LEMMA HandledKeeps ==
  ASSUME CommandsInv, NEW fn, NEW body, Take(fn), Answer(Request.id, body),
         UNCHANGED <<store, host, upload>>,
         UNCHANGED log \/ \E given, ok : Call(given, ok),
         Asked /\ Request.id = host.id => Tells(body)'
  PROVE  CommandsInv'
<1>. PICK id : id = Request.id
  OBVIOUS
<1>1. /\ upload = NoUpload /\ upload' = NoUpload
      /\ id \in 1..calls /\ UNCHANGED <<installed, calls>>
      /\ requests' \in Seq(Elems(requests')) /\ Elems(requests') \subseteq Elems(requests)
      /\ \A r \in Elems(requests') : id < r.id
      /\ \A i, j \in DOMAIN requests' : i < j => requests'[i].id < requests'[j].id
      /\ \A a \in Elems(answers) : a.id < id
  BY Taken
<1>2. Logged'
  BY LoggedStep
<1>3. /\ answers' \in Seq(Elems(answers'))
      /\ \A a \in Elems(answers') : a \in Elems(answers) \/ (a.id = id /\ a.body = body)
  BY AnswerIs
<1>4. Places'
  BY <1>1, <1>3 DEF CommandsInv, Places
<1>5. Programs' /\ Caller'
  BY <1>1 DEF CommandsInv, Programs, Caller, Asked
<1>6. ASSUME Asked, NEW a \in Elems(answers'), a.id = host.id
      PROVE  Tells(a.body)'
  <2>1. CASE a \in Elems(answers)
    BY <1>6, <2>1, OldAnswersTell
  <2>2. CASE a.id = id /\ a.body = body
    BY <1>6, <2>2
  <2>. QED  BY <1>3, <1>6, <2>1, <2>2
<1>7. \A r : Asks(r)' = Asks(r)
  BY DEF Asks, Conveyed
<1>8. OwnCall'
  BY <1>1, <1>6, <1>7 DEF CommandsInv, OwnCall, Asked
<1>. QED  BY <1>1, <1>2, <1>4, <1>5, <1>8 DEF CommandsInv

LEMMA onS7F3Keeps ==
  ASSUME CommandsInv, onS7F3
  PROVE  CommandsInv'
<1>. PICK r : r = Request
  OBVIOUS
<1>. DEFINE given == <<Name(Elements(r.body)[1]), Size(Elements(r.body)[2])>>
<1>1. Take("S7F3") /\ UNCHANGED <<store, host>>
  BY DEF onS7F3
<1>2. Asked /\ r.id = host.id => Asks(r) /\ r.fn = "S7F3"
  BY <1>1, Taken
<1>3. CASE \E ack : ack # 0 /\ Answer(r.id, Bin(ack)) /\ UNCHANGED upload
                    /\ (UNCHANGED log \/ \E g, ok : Call(g, ok))
  <2>1. PICK ack : ack # 0 /\ Answer(r.id, Bin(ack)) /\ UNCHANGED upload
                   /\ (UNCHANGED log \/ \E g, ok : Call(g, ok))
    BY <1>3
  <2>2. Asked /\ r.id = host.id => Tells(Bin(ack))'
    BY <1>1, <1>2, <2>1, BinTakes DEF Tells, Asks
  <2>. QED  BY <1>1, <2>1, <2>2, HandledKeeps
<1>4. CASE /\ IsUpload(r.body) /\ UNCHANGED answers
           /\ upload' = [id |-> r.id, ppid |-> given[1], size |-> given[2]]
           /\ UNCHANGED log \/ \E g, ok : Call(g, ok)
  <2>1. /\ r \in Elems(requests) /\ r.fn = "S7F3" /\ UNCHANGED <<installed, calls>>
        /\ r.id \in 1..calls
        /\ requests' \in Seq(Elems(requests')) /\ Elems(requests') \subseteq Elems(requests)
        /\ \A q \in Elems(requests') : r.id < q.id
        /\ \A i, j \in DOMAIN requests' : i < j => requests'[i].id < requests'[j].id
        /\ \A a \in Elems(answers) : a.id < r.id
    BY <1>1, Taken
  <2>2. /\ upload'.id = r.id /\ upload'.ppid = Name(Elements(r.body)[1])
        /\ upload'.size = Size(Elements(r.body)[2])
    BY <1>4
  <2>3. upload'.ppid \in Ppids /\ upload'.size \in Nat
    BY <1>4, <2>1, <2>2 DEF CommandsInv, Programs
  <2>4. Places'
    BY <1>4, <2>1, <2>2 DEF CommandsInv, Places
  <2>5. Programs' /\ Caller'
    BY <1>1, <2>1, <2>3 DEF CommandsInv, Programs, Caller, Asked
  <2>6. Logged'
    BY <1>1, <1>4, LoggedStep
  <2>7. ASSUME Asked
        PROVE  /\ \A q \in Elems(requests') : q.id = host.id => Asks(q)
               /\ upload'.id = host.id =>
                    /\ host.fn = "S7F3" /\ upload'.ppid = host.args[1]
                    /\ upload'.size = Cut(host.args[2])
               /\ \A a \in Elems(answers) : a.id = host.id => Tells(a.body)'
    <3>1. \A q \in Elems(requests') : q.id = host.id => Asks(q)
      BY <2>1, <2>7 DEF CommandsInv, OwnCall
    <3>2. upload'.id = host.id => /\ host.fn = "S7F3" /\ upload'.ppid = host.args[1]
                                  /\ upload'.size = Cut(host.args[2])
      BY <1>2, <1>4, <2>2, <2>7 DEF Asks
    <3>3. \A a \in Elems(answers) : a.id = host.id => Tells(a.body)'
      BY <1>1, <1>4, <2>7, OldAnswersTell
    <3>. QED  BY <3>1, <3>2, <3>3
  <2>8. \A q : Asks(q)' = Asks(q)
    BY <1>1 DEF Asks, Conveyed
  <2>9. OwnCall'
    BY <1>1, <1>4, <2>7, <2>8 DEF OwnCall, Asked
  <2>. QED  BY <2>1, <2>4, <2>5, <2>6, <2>9 DEF CommandsInv
<1>5. CASE ~IsUpload(r.body) /\ Answer(r.id, Bin(1)) /\ UNCHANGED <<upload, log>>
  BY <1>3, <1>5
<1>6. CASE IsUpload(r.body) /\ \E ack \in IF "upload" \in installed THEN Acks ELSE {0} :
             /\ IF "upload" \in installed THEN Call(given, ack = 0) ELSE UNCHANGED log
             /\ IF ack = 0
                THEN /\ upload' = [id |-> r.id, ppid |-> given[1], size |-> given[2]]
                     /\ UNCHANGED answers
                ELSE Answer(r.id, Bin(ack)) /\ UNCHANGED upload
  <2>. HIDE DEF given
  <2>. QED  BY <1>3, <1>4, <1>6
<1>. QED  BY <1>5, <1>6 DEF onS7F3

LEMMA onS7F5Keeps ==
  ASSUME CommandsInv, onS7F5
  PROVE  CommandsInv'
<1>. PICK r : r = Request
  OBVIOUS
<1>. DEFINE item == IF IsList(r.body) /\ Elements(r.body) # <<>>
                    THEN Elements(r.body)[1] ELSE r.body
            held == IF Name(item) \in Ppids THEN store[Name(item)] ELSE Absent
            own == IF held = Absent THEN ProgramBodies(item, 0, 1)
                   ELSE ProgramBodies(item, held, 0)
<1>1. Take("S7F5") /\ UNCHANGED <<store, host, upload, log>>
  BY DEF onS7F5
<1>2. PICK body : Answer(r.id, body) /\ (IsId(item) /\ "request" \notin installed => body \in own)
  BY DEF onS7F5
<1>. HIDE DEF item, held, own
<1>3. (Asked /\ r.id = host.id => Asks(r)) /\ r.fn = "S7F5" /\ UNCHANGED installed
  BY <1>1, Taken
<1>4. ASSUME Asked, r.id = host.id
      PROVE  Tells(body)'
  <2>1. host.fn = "S7F5" /\ r.body = Id(host.args[1])
    BY <1>3, <1>4 DEF Asks
  <2>2. PICK pp : pp = host.args[1]
    OBVIOUS
  <2>3. pp \in Ppids /\ store[pp] \in host.held /\ store[pp] \in Nat \cup {Absent}
    BY <1>4, <2>1, <2>2 DEF CommandsInv, Caller, Programs
  <2>4. item = Id(pp) /\ Name(item) = pp /\ IsId(item)
    <3>1. ~IsList(Id(pp))
      BY DEF Id, IsList, Format
    <3>. QED  BY <2>1, <2>2, <3>1, IdIs DEF item
  <2>5. held = store[pp]
    BY <2>3, <2>4 DEF held
  <2>6. "request" \notin installed => Serves(body, host.held)
    <3>. SUFFICES ASSUME "request" \notin installed PROVE Serves(body, host.held)
      OBVIOUS
    <3>1. body \in IF store[pp] = Absent THEN ProgramBodies(Id(pp), 0, 1)
                   ELSE ProgramBodies(Id(pp), store[pp], 0)
      BY <1>2, <2>4, <2>5 DEF own
    <3>. QED  BY <2>3, <3>1, ProgramServes
  <2>. QED  BY <1>1, <1>3, <2>1, <2>6 DEF Tells
<1>. QED  BY <1>1, <1>2, <1>4, HandledKeeps

LEMMA CallIs ==
  ASSUME CommandsInv, NEW fn, Take(fn), NEW given, NEW ok, Call(given, ok)
  PROVE  log'[Request.id] = <<[given |-> given, ok |-> ok]>>
<1>. PICK id : id = Request.id
  OBVIOUS
<1>1. id \in 1..calls /\ log[id] = <<>>
  BY Taken
<1>2. id \in DOMAIN log
  BY <1>1, CommandAssumption DEF CommandsInv, Logged
<1>3. log' = [log EXCEPT ![id] = Append(@, [given |-> given, ok |-> ok])]
  BY DEF Call
<1>4. PICK e : e = [given |-> given, ok |-> ok]
  OBVIOUS
<1>5. Append(<<>>, e) = <<e>>
  OBVIOUS
<1>6. log'[id] = Append(log[id], e)
  BY <1>2, <1>3, <1>4
<1>. QED  BY <1>1, <1>4, <1>5, <1>6

LEMMA onS2F41Keeps ==
  ASSUME CommandsInv, onS2F41
  PROVE  CommandsInv'
<1>. PICK r : r = Request
  OBVIOUS
<1>. DEFINE given == <<Name(Elements(r.body)[1]), Params(r.body)>>
<1>1. Take("S2F41") /\ UNCHANGED <<store, host, upload>>
  BY DEF onS2F41
<1>2. (Asked /\ r.id = host.id => Asks(r)) /\ r.fn = "S2F41" /\ UNCHANGED installed
  BY <1>1, Taken
<1>3. CASE Answer(r.id, CommandAck(1)) /\ UNCHANGED log
  <2>1. ~Takes(CommandAck(1))
    BY CommandAckTakes
  <2>2. Asked /\ r.id = host.id => Tells(CommandAck(1))'
    BY <1>1, <1>2, <2>1 DEF Tells, Asks
  <2>. QED  BY <1>1, <1>3, <2>2, HandledKeeps
<1>4. CASE /\ IsCommand(r.body)
           /\ \E hcack \in Acks, fails \in BOOLEAN :
                /\ Call(given, hcack = 0 /\ ~fails)
                /\ Answer(r.id, CommandAck(IF fails /\ hcack = 0 THEN 2 ELSE hcack))
  <2>. HIDE DEF given
  <2>1. PICK hcack \in Acks, fails \in BOOLEAN :
          /\ Call(given, hcack = 0 /\ ~fails)
          /\ Answer(r.id, CommandAck(IF fails /\ hcack = 0 THEN 2 ELSE hcack))
    BY <1>4
  <2>2. PICK h : h = IF fails /\ hcack = 0 THEN 2 ELSE hcack
    OBVIOUS
  <2>3. h \in Nat /\ (h = 0 => hcack = 0 /\ ~fails)
    BY <2>2, CommandAssumption
  <2>4. Takes(CommandAck(h)) => h = 0
    BY <2>3, CommandAckTakes
  <2>5. h = 0 => Call(given, TRUE)
    <3>. SUFFICES ASSUME h = 0 PROVE Call(given, TRUE)
      OBVIOUS
    <3>1. (hcack = 0 /\ ~fails) = TRUE
      BY <2>3
    <3>. QED  BY <2>1, <3>1
  <2>6. h = 0 => log'[r.id] = <<[given |-> given, ok |-> TRUE]>>
    BY <1>1, <2>5, CallIs
  <2>7. Asked /\ r.id = host.id => Tells(CommandAck(h))'
    <3>1. Asked /\ r.id = host.id => Conveyed = given /\ host.fn = "S2F41"
      BY <1>2, <1>4 DEF Asks, given
    <3>2. Conveyed' = Conveyed
      BY <1>1 DEF Conveyed
    <3>. QED  BY <1>1, <2>4, <2>6, <3>1, <3>2 DEF Tells
  <2>8. Answer(r.id, CommandAck(h)) /\ \E g, ok : Call(g, ok)
    BY <2>1, <2>2
  <2>. QED  BY <1>1, <2>7, <2>8, HandledKeeps
<1>. QED  BY <1>3, <1>4 DEF onS2F41

LEMMA onS2F17Keeps ==
  ASSUME CommandsInv, onS2F17
  PROVE  CommandsInv'
<1>. PICK r : r = Request
  OBVIOUS
<1>1. Take("S2F17") /\ Answer(r.id, Text(16)) /\ UNCHANGED <<store, host, upload, log>>
  BY DEF onS2F17
<1>2. (Asked /\ r.id = host.id => Asks(r)) /\ r.fn = "S2F17"
  BY <1>1, Taken
<1>3. Asked /\ r.id = host.id => Tells(Text(16))'
  BY <1>1, <1>2 DEF Tells, Asks
<1>. QED  BY <1>1, <1>3, HandledKeeps

LEMMA onS2F31Keeps ==
  ASSUME CommandsInv, onS2F31
  PROVE  CommandsInv'
<1>. PICK r : r = Request
  OBVIOUS
<1>. PICK given : given = <<Size(r.body)>>
  OBVIOUS
<1>1. Take("S2F31") /\ UNCHANGED <<store, host, upload>>
  BY DEF onS2F31
<1>2. (Asked /\ r.id = host.id => Asks(r)) /\ r.fn = "S2F31" /\ UNCHANGED installed
  BY <1>1, Taken
<1>3. CASE Answer(r.id, Bin(1)) /\ UNCHANGED log
  <2>1. Asked /\ r.id = host.id => Tells(Bin(1))'
    BY <1>1, <1>2, BinTakes DEF Tells, Asks
  <2>. QED  BY <1>1, <1>3, <2>1, HandledKeeps
<1>4. CASE \E tiack \in Acks, fails \in BOOLEAN :
             /\ Call(given, tiack = 0 /\ ~fails)
             /\ Answer(r.id, Bin(IF fails THEN 1 ELSE tiack))
  <2>1. PICK tiack \in Acks, fails \in BOOLEAN :
          /\ Call(given, tiack = 0 /\ ~fails)
          /\ Answer(r.id, Bin(IF fails THEN 1 ELSE tiack))
    BY <1>4
  <2>2. PICK h : h = IF fails THEN 1 ELSE tiack
    OBVIOUS
  <2>3. h = 0 => tiack = 0 /\ ~fails
    BY <2>2
  <2>4. h = 0 => Call(given, TRUE)
    <3>. SUFFICES ASSUME h = 0 PROVE Call(given, TRUE)
      OBVIOUS
    <3>1. (tiack = 0 /\ ~fails) = TRUE
      BY <2>3
    <3>. QED  BY <2>1, <3>1
  <2>5. h = 0 => log'[r.id] = <<[given |-> given, ok |-> TRUE]>>
    BY <1>1, <2>4, CallIs
  <2>6. Asked /\ r.id = host.id => Conveyed' = given /\ host.fn = "S2F31"
    <3>1. Size(Text(16)) = 16
      BY DEF Size, Text, Format, Elements
    <3>2. Asked /\ r.id = host.id => host.args = given /\ host.fn = "S2F31"
      BY <1>2, <3>1 DEF Asks
    <3>. QED  BY <1>1, <3>2 DEF Conveyed
  <2>7. Asked /\ r.id = host.id => Tells(Bin(h))'
    BY <1>1, <2>5, <2>6, BinTakes DEF Tells
  <2>8. Answer(r.id, Bin(h)) /\ \E g, ok : Call(g, ok)
    BY <2>1, <2>2
  <2>. QED  BY <1>1, <2>7, <2>8, HandledKeeps
<1>. QED  BY <1>3, <1>4 DEF onS2F31

-----------------------------------------------------------------------------

LEMMA CommandsStart == CommandsInit => CommandsInv
<1>. SUFFICES ASSUME CommandsInit PROVE CommandsInv
  OBVIOUS
<1>1. /\ store = [pp \in Ppids |-> Absent] /\ installed = {} /\ host = Idle /\ calls = 0
      /\ requests = <<>> /\ upload = NoUpload /\ answers = <<>>
      /\ log = [i \in 1..MaxCalls |-> <<>>]
  BY DEF CommandsInit
<1>2. Elems(<<>>) = {} /\ <<>> \in Seq({}) /\ DOMAIN <<>> = {}
  BY DEF Elems
<1>3. Places /\ Programs /\ Logged
  BY <1>1, <1>2, CommandAssumption DEF Places, Programs, Logged
<1>4. Caller /\ OwnCall
  <2>1. ~Asked /\ 0 \in 0..0
    BY <1>1, IdleIs DEF Asked
  <2>. QED  BY <1>1, <2>1, IdleIs DEF Caller, OwnCall
<1>. QED  BY <1>1, <1>3, <1>4 DEF CommandsInv

LEMMA CommandsStep == CommandsInv /\ [CommandsNext]_commandVars => CommandsInv'
<1>. SUFFICES ASSUME CommandsInv, [CommandsNext]_commandVars PROVE CommandsInv'
  OBVIOUS
<1>1. CASE \E pp \in Ppids, n \in Sizes :
             UploadProcessProgram(pp, n) \/ RegisterProcessProgram(pp, n)
  BY <1>1, UploadKeeps, RegisterProgramKeeps
<1>2. CASE \E pp \in Ppids : RequestProcessProgram(pp)
  BY <1>2, RequestProgramKeeps
<1>3. CASE \E cmd \in Commands : SendRemoteCommand(cmd)
  BY <1>3, RemoteCommandKeeps
<1>4. CASE RequestDateTime \/ SetDateTime
  BY <1>4, ClockCallsKeep
<1>5. CASE \E r \in OddRequests : Ask(r.fn, <<>>, {}, r.body)
  BY <1>5, OddRequestKeeps
<1>6. CASE GiveUp \/ CommandReturned \/ ConnectionDropped \/ \E h \in Handlers : Install(h)
  BY <1>6, GiveUpKeeps, CommandReturnedKeeps, ConnectionDroppedKeeps, InstallKeeps
<1>7. CASE onS7F3 \/ StoreUpload \/ onS7F5 \/ onS2F41 \/ onS2F17 \/ onS2F31
  BY <1>7, onS7F3Keeps, StoreUploadKeeps, onS7F5Keeps, onS2F41Keeps, onS2F17Keeps, onS2F31Keeps
<1>8. CASE UNCHANGED commandVars
  <2>1. UNCHANGED <<store, installed, host, calls, requests, upload, answers, log>>
    BY <1>8 DEF commandVars
  <2>2. Places' /\ Programs' /\ Logged' /\ Caller'
    BY <2>1 DEF CommandsInv, Places, Programs, Logged, Caller, Asked
  <2>3. (\A r : Asks(r)' = Asks(r)) /\ \A body : Tells(body)' = Tells(body)
    BY <2>1 DEF Asks, Tells, Conveyed
  <2>4. OwnCall'
    BY <2>1, <2>3 DEF CommandsInv, OwnCall, Asked
  <2>. QED  BY <2>1, <2>2, <2>4 DEF CommandsInv
<1>. QED  BY <1>1, <1>2, <1>3, <1>4, <1>5, <1>6, <1>7, <1>8 DEF CommandsNext

LEMMA CommandsInvHolds == CommandsSpec => []CommandsInv
<1>. QED  BY CommandsStart, CommandsStep, PTL DEF CommandsSpec

\* An answer that ends the call of the host tells the truth.
LEMMA ReturnsTrue ==
  ASSUME CommandsInv, Returns, Asked
  PROVE  Tells(Read)
<1>1. Head(answers) \in Elems(answers) /\ Head(answers).id = host.id
  BY QueueTail DEF CommandsInv, Places, Returns
<1>. QED  BY <1>1 DEF CommandsInv, OwnCall, Read

(* A program whose upload was acknowledged with 0 is the one in the store  *)
(* when the host reads so, cut to what arrives of it, unless the           *)
(* application replaced it (onS7F3, the put of processProgramStore): also  *)
(* when the host had given up before.                                      *)
THEOREM UploadedIsStoredHolds == CommandsSpec => UploadedIsStored
<1>1. CommandsInv =>
        (Returns /\ host.fn = "S7F3" /\ host.args # <<>> /\ Accepted /\ ~host.local =>
           store[host.args[1]] = Cut(host.args[2]))
  BY ReturnsTrue DEF Asked, Tells, Accepted, Takes
<1>. QED  BY <1>1, CommandsInvHolds, PTL DEF UploadedIsStored

(* A host that asks for a program and takes what it reads for one gets a   *)
(* program the equipment had since, a long one cut, whatever the decoder   *)
(* makes of the rest of a long text; it reads that there was none, or      *)
(* nothing it can use, only if there was none or one was long (onS7F5,     *)
(* buildS7F6, hsms.Parse).                                                 *)
THEOREM ProgramServedHolds == CommandsSpec => ProgramServed
<1>1. CommandsInv =>
        (Returns /\ host.fn = "S7F5" /\ host.args # <<>> /\ "request" \notin installed =>
           LET kept   == host.held \ {Absent}
               misled == \E n \in kept : ~Short(n)
           IN  IF ~IsProgram(Read) THEN misled
               ELSE IF Elements(Elements(Read)[3])[1] = 0
               THEN \E n \in kept : Elements(Elements(Read)[2])[1] = Cut(n)
               ELSE Absent \in host.held \/ misled)
  BY ReturnsTrue DEF Asked, Tells, Serves
<1>. QED  BY <1>1, CommandsInvHolds, PTL DEF ProgramServed

(* The host reads that a command was done or a time set only if the        *)
(* application was called for it, once, with what the host asked and a     *)
(* list conveys, and accepted it (onS2F41, onS2F31).                       *)
THEOREM AcceptedWasDoneHolds == CommandsSpec => AcceptedWasDone
<1>1. CommandsInv =>
        (Returns /\ host.fn \in {"S2F41", "S2F31"} /\ host.args # <<>> /\ Accepted =>
           log[host.id] = <<[given |-> Conveyed, ok |-> TRUE]>>)
  BY ReturnsTrue DEF Asked, Tells, Accepted, Takes
<1>. QED  BY <1>1, CommandsInvHolds, PTL DEF AcceptedWasDone

\* Tables, numbers and queues have their types.
LEMMA CommandsTyped == CommandsInv => CommandsTypeOK
<1>. SUFFICES ASSUME CommandsInv PROVE CommandsTypeOK
  OBVIOUS
<1>1. answers \in Seq(Elems(answers)) /\ \A i \in DOMAIN answers : answers[i].id \in 1..calls
  BY DEF CommandsInv, Places, Elems
<1>. QED  BY <1>1 DEF CommandsTypeOK, CommandsInv, Places, Programs, Logged, Caller
=============================================================================
