------------------------- MODULE EventReports_proofs -------------------------
(***************************************************************************)
(* Theorems about EventReports.                                            *)
(***************************************************************************)
EXTENDS EventReports, FiniteSetTheorems, SequenceTheorems, WellFoundedInduction, TLAPS

-----------------------------------------------------------------------------
(* Lists without their first occurrence of a key.                          *)

LEMMA LeastExists ==
  ASSUME NEW S \in SUBSET Nat, S # {}
  PROVE  Least(S) \in S
<1>. DEFINE Below == [x \in S |-> {y \in S : y <= x}]
            T == {Below[x] : x \in S}
<1>1. \A x \in S : Below[x] \in FiniteSubsetsOf(Nat)
  <2>. SUFFICES ASSUME NEW x \in S PROVE Below[x] \in FiniteSubsetsOf(Nat)
    OBVIOUS
  <2>1. Below[x] \in SUBSET Nat /\ x \in Nat /\ \A y \in Below[x] : y <= x
    OBVIOUS
  <2>. HIDE DEF Below
  <2>2. IsFiniteSet(Below[x])
    BY <2>1, FS_BoundedSetOfNaturals
  <2>. QED  BY <2>1, <2>2 DEF FiniteSubsetsOf
<1>2. PICK m \in T : \A y \in T : <<y, m>> \notin StrictSubsetOrdering(Nat)
  <2>. HIDE DEF Below
  <2>1. T # {} /\ T \subseteq FiniteSubsetsOf(Nat)
    BY <1>1
  <2>. HIDE DEF T
  <2>. QED  BY <2>1, FS_StrictSubsetOrderingWellFounded, WFMin
<1>3. PICK x \in S : m = Below[x]
  BY <1>2
<1>4. ASSUME NEW y \in S PROVE x <= y
  <2>. SUFFICES ASSUME y < x PROVE FALSE
    OBVIOUS
  <2>1. x \in Below[x] /\ x \notin Below[y]
    OBVIOUS
  <2>2. Below[y] \subseteq Below[x]
    <3>. SUFFICES ASSUME NEW z \in S, z <= y PROVE z <= x
      OBVIOUS
    <3>. x \in Nat /\ y \in Nat /\ z \in Nat
      OBVIOUS
    <3>. QED  OBVIOUS
  <2>3. Below[x] \in SUBSET Nat /\ Below[y] \in SUBSET Nat
    OBVIOUS
  <2>. HIDE DEF Below
  <2>4. Below[y] \in T
    OBVIOUS
  <2>. HIDE DEF T
  <2>. QED  BY <1>2, <1>3, <2>1, <2>2, <2>3, <2>4 DEF StrictSubsetOrdering
<1>. QED  BY <1>4 DEF Least

LEMMA CutIs ==
  ASSUME NEW S, NEW s \in Seq(S), NEW k \in 1..Len(s)
  PROVE  LET c == SubSeq(s, 1, k - 1) \o SubSeq(s, k + 1, Len(s))
         IN  /\ c \in Seq(S) /\ Len(c) = Len(s) - 1
             /\ \A i \in 1..Len(c) : c[i] = s[IF i < k THEN i ELSE i + 1]
<1>. DEFINE a == SubSeq(s, 1, k - 1)
            b == SubSeq(s, k + 1, Len(s))
            c == a \o b
<1>1. a \in Seq(S) /\ Len(a) = k - 1 /\ \A i \in 1..Len(a) : a[i] = s[i]
  OBVIOUS
<1>2. b \in Seq(S) /\ Len(b) = Len(s) - k /\ \A i \in 1..Len(b) : b[i] = s[k + i]
  OBVIOUS
<1>. HIDE DEF a, b
<1>3. /\ c \in Seq(S) /\ Len(c) = Len(a) + Len(b)
      /\ \A i \in 1..Len(a) + Len(b) : c[i] = IF i <= Len(a) THEN a[i] ELSE b[i - Len(a)]
  <2>1. a \in Seq(S) /\ b \in Seq(S)
    BY <1>1, <1>2
  <2>. QED  BY <2>1, ConcatProperties
<1>. HIDE DEF c
<1>4. Len(c) = Len(s) - 1
  BY <1>1, <1>2, <1>3
<1>6. PICK m \in Nat, n \in Nat : m = Len(a) /\ n = Len(b)
  <2>1. a \in Seq(S) /\ b \in Seq(S)
    BY <1>1, <1>2
  <2>2. Len(a) \in Nat /\ Len(b) \in Nat
    BY ONLY <2>1
  <2>. QED  BY ONLY <2>2
<1>5. ASSUME NEW i \in 1..Len(c) PROVE c[i] = s[IF i < k THEN i ELSE i + 1]
  <2>1. CASE i < k
    <3>1. i \in 1..Len(a) /\ c[i] = a[i]
      BY <1>1, <1>3, <1>4, <2>1
    <3>. QED  BY <1>1, <2>1, <3>1
  <2>2. CASE i >= k
    <3>1. k = m + 1 /\ i \in 1..(m + n)
      BY <1>1, <1>3, <1>6
    <3>2. i - m \in 1..n /\ k + (i - m) = i + 1 /\ i > m
      BY <2>2, <3>1
    <3>3. c[i] = b[i - m]
      BY <1>3, <1>6, <3>1, <3>2
    <3>4. b[i - m] = s[k + (i - m)]
      BY <1>2, <1>6, <3>2
    <3>. QED  BY <2>2, <3>2, <3>3, <3>4
  <2>. QED  BY <2>1, <2>2
<1>. QED  BY <1>3, <1>4, <1>5 DEF a, b, c

\* Equal elements at two positions of s are in T.
Single(s, T) == \A i, j \in DOMAIN s : i # j /\ s[i] = s[j] => s[i] \in T

LEMMA RepeatedCovers ==
  ASSUME NEW S, NEW s \in Seq(S)
  PROVE  Single(s, Repeated(s))
<1>. SUFFICES ASSUME NEW i \in DOMAIN s, NEW j \in DOMAIN s, i # j, s[i] = s[j]
              PROVE  s[i] \in Repeated(s)
  BY DEF Single
<1>. DEFINE P == {n \in DOMAIN s : s[n] = s[i]}
<1>1. IsFiniteSet(DOMAIN s)
  BY FS_Interval
<1>2. IsFiniteSet(P) /\ Cardinality({i} \cup {j}) <= Cardinality(P)
  BY <1>1, FS_Subset
<1>3. Cardinality({i} \cup {j}) = 1 + 1
  <2>1. IsFiniteSet({i}) /\ Cardinality({i}) = 1 /\ j \notin {i}
    BY FS_Singleton
  <2>. QED  BY <2>1, FS_AddElement
<1>4. Cardinality(P) \in Nat
  BY <1>2, FS_CardinalityType
<1>. HIDE DEF P
<1>5. Cardinality(P) > 1
  BY <1>2, <1>3, <1>4
<1>. QED  BY <1>5 DEF Repeated, Elems, P

LEMMA WithoutFirstKeeps ==
  ASSUME NEW S, NEW s \in Seq(S), NEW key, NEW T, Single(s, T)
  PROVE  /\ WithoutFirst(s, key) \in Seq(S)
         /\ Single(WithoutFirst(s, key), T)
         /\ Elems(WithoutFirst(s, key)) \subseteq Elems(s)
         /\ key \in Elems(WithoutFirst(s, key)) => key \in T
<1>1. CASE key \notin Elems(s)
  BY <1>1 DEF WithoutFirst
<1>2. CASE key \in Elems(s)
  <2>. DEFINE k == Least({i \in DOMAIN s : s[i] = key})
              c == SubSeq(s, 1, k - 1) \o SubSeq(s, k + 1, Len(s))
  <2>1. WithoutFirst(s, key) = c
    BY <1>2 DEF WithoutFirst
  <2>2. k \in 1..Len(s) /\ s[k] = key
    <3>. DEFINE P == {i \in DOMAIN s : s[i] = key}
    <3>1. P \in SUBSET Nat /\ P # {}
      BY <1>2 DEF Elems
    <3>. HIDE DEF P
    <3>2. Least(P) \in P
      BY <3>1, LeastExists
    <3>. QED  BY <3>2 DEF P
  <2>3. /\ c \in Seq(S) /\ Len(c) = Len(s) - 1
        /\ \A i \in 1..Len(c) : c[i] = s[IF i < k THEN i ELSE i + 1]
    <3>. HIDE DEF k
    <3>. QED  BY <2>2, CutIs
  <2>. DEFINE old(i) == IF i < k THEN i ELSE i + 1
  <2>. HIDE DEF k, c
  <2>4. \A i \in 1..Len(c) : old(i) \in 1..Len(s) /\ old(i) # k
    BY <2>2, <2>3
  <2>5. \A i, j \in 1..Len(c) : i # j => old(i) # old(j)
    BY <2>2, <2>3
  <2>6. \A i \in 1..Len(c) : c[i] = s[old(i)]
    BY <2>3
  <2>. HIDE DEF old
  <2>7. Single(c, T)
    BY <2>3, <2>4, <2>5, <2>6 DEF Single
  <2>8. Elems(c) \subseteq Elems(s)
    BY <2>3, <2>4, <2>6 DEF Elems
  <2>9. key \in Elems(c) => key \in T
    <3>. SUFFICES ASSUME NEW i \in 1..Len(c), key = c[i] PROVE s[k] \in T
      BY <2>2, <2>3 DEF Elems
    <3>1. old(i) \in DOMAIN s /\ k \in DOMAIN s /\ old(i) # k /\ s[k] = s[old(i)]
      BY <2>2, <2>4, <2>6
    <3>. QED  BY <3>1 DEF Single
  <2>. QED  BY <2>1, <2>3, <2>7, <2>8, <2>9
<1>. QED  BY <1>1, <1>2

-----------------------------------------------------------------------------
(* The inductive invariant.                                                *)

RxShape == rx = [pc |-> rx.pc, rest |-> rx.rest, enable |-> rx.enable, fn |-> rx.fn, body |-> rx.body]

\* What S2F35 has checked of the entries it has not applied yet.
Checked(es) ==
  /\ es \in Seq(LinkEntry) /\ es # <<>>
  /\ \A i \in DOMAIN es : es[i].id \in events /\ Elems(es[i].ids) \subseteq DOMAIN reports

LinkShape(link) ==
  /\ link = [reports |-> link.reports, enabled |-> link.enabled]
  /\ link.reports \in Seq(Rptids)

LinksInv ==
  /\ RxShape
  /\ rx.pc = "link" => Checked(rx.rest)
  /\ \A ce \in DOMAIN eventLinks :
       LinkShape(eventLinks[ce]) /\ Single(eventLinks[ce].reports, twice)
  /\ LinksResolve

LEMMA LinksInit == ReportsInit => LinksInv
BY DEF ReportsInit, LinksInv, RxShape, Waiting, LinksResolve

LEMMA KeepTables ==
  ASSUME LinksInv, UNCHANGED <<events, reports, eventLinks, twice>>,
         rx' = rx \/ (RxShape' /\ rx'.pc # "link")
  PROVE  LinksInv'
BY DEF LinksInv, RxShape, Checked, LinksResolve

LEMMA Replied ==
  ASSUME NEW fn, NEW body, ReplyReport(fn, body)
  PROVE  RxShape' /\ rx'.pc # "link"
BY DEF ReplyReport, Waiting, RxShape

LEMMA Continued ==
  ASSUME NEW fn, RxShape, Continue(fn)
  PROVE  /\ RxShape'
         /\ rx'.pc = "link" => rx.pc = "link" /\ rx'.rest = Tail(rx.rest) /\ Len(rx.rest) # 1
<1>1. CASE Len(rx.rest) = 1
  BY <1>1, Replied DEF Continue
<1>2. CASE Len(rx.rest) # 1
  BY <1>2 DEF Continue, RxShape
<1>. QED  BY <1>1, <1>2

LEMMA Refused ==
  ASSUME LinksInv, NEW fn, NEW ack, Refuse(fn, ack)
  PROVE  LinksInv'
BY KeepTables, Replied DEF Refuse, reportTables

LEMMA RegisterCollectionEventKeeps ==
  ASSUME LinksInv, NEW ce, RegisterCollectionEvent(ce)
  PROVE  LinksInv'
BY DEF RegisterCollectionEvent, reportTables, LinksInv, RxShape, Checked, LinksResolve

LEMMA DeadKeeps ==
  ASSUME LinksInv, Die
  PROVE  LinksInv'
<1>1. RxShape' /\ rx'.pc # "link"
  BY DEF Die, Waiting, RxShape
<1>. QED  BY <1>1, KeepTables DEF Die, reportTables

LEMMA BuildKeeps ==
  ASSUME LinksInv, NEW b, Build(b) \/ onS6F11(b)
  PROVE  LinksInv'
<1>1. ASSUME NEW dataID, NEW out, Deliver(b, dataID, out)
      PROVE  LinksInv'
  <2>. DEFINE item == EventItem(dataID, Id(builders[b].ceid), out)
  <2>. HIDE DEF item
  <2>1. CASE UNCHANGED <<events, reportTables>> /\ ReplyReport(616, item)
    BY <2>1, KeepTables, Replied DEF reportTables
  <2>2. CASE UNCHANGED <<events, reportTables, rx>>
    BY <2>2, KeepTables DEF reportTables
  <2>3. CASE Die
    BY <2>3, DeadKeeps
  <2>. QED  BY <1>1, <2>1, <2>2, <2>3 DEF Deliver, Go, item
<1>2. ASSUME NEW new, Go(b, new), UNCHANGED rx
      PROVE  LinksInv'
  BY <1>2, KeepTables DEF Go, reportTables
<1>3. CASE Lookup(b)
  BY <1>1, <1>2, <1>3 DEF Lookup
<1>4. CASE CheckLink(b)
  BY <1>1, <1>2, <1>4 DEF CheckLink
<1>5. CASE CopyKeys(b)
  BY <1>2, <1>5 DEF CopyKeys
<1>6. CASE CollectReport(b)
  BY <1>2, <1>6, DeadKeeps DEF CollectReport
<1>7. CASE FinishReport(b)
  BY <1>1, <1>7 DEF FinishReport
<1>8. CASE onS6F11(b)
  BY <1>2, <1>8 DEF onS6F11
<1>. QED  BY <1>3, <1>4, <1>5, <1>6, <1>7, <1>8 DEF Build

LEMMA DefineKeeps ==
  ASSUME LinksInv, NEW body, onS2F33(body)
  PROVE  LinksInv'
<1>1. CASE ClearAll
  <2>1. RxShape' /\ rx'.pc # "link" /\ DOMAIN eventLinks' = {}
    BY <1>1, Replied DEF ClearAll
  <2>. QED  BY <2>1 DEF LinksInv, LinksResolve
<1>2. ASSUME NEW es, Start("define", es, FALSE)
      PROVE  LinksInv'
  <2>1. RxShape' /\ rx'.pc # "link"
    BY <1>2 DEF Start, Waiting, RxShape
  <2>. QED  BY <1>2, <2>1, KeepTables DEF Start, reportTables
<1>. QED  BY <1>1, <1>2, Refused DEF onS2F33

LEMMA removeReportKeeps ==
  ASSUME LinksInv, NEW key, removeReport(key), UNCHANGED <<events, twice>>,
         RxShape', rx'.pc # "link"
  PROVE  LinksInv'
<1>1. ASSUME NEW ce \in DOMAIN eventLinks'
      PROVE  /\ ce \in DOMAIN eventLinks
             /\ eventLinks'[ce] = [reports |-> WithoutFirst(eventLinks[ce].reports, key),
                                   enabled |-> eventLinks[ce].enabled]
             /\ eventLinks'[ce].reports # <<>>
  <2>1. ce \in DOMAIN eventLinks /\ eventLinks'[ce] = Shorter(key)[ce] /\ Shorter(key)[ce].reports # <<>>
    BY DEF removeReport
  <2>2. eventLinks[ce] = [reports |-> eventLinks[ce].reports, enabled |-> eventLinks[ce].enabled]
    BY <2>1 DEF LinksInv, LinkShape
  <2>3. Shorter(key)[ce] = [eventLinks[ce] EXCEPT !.reports = WithoutFirst(@, key)]
    BY <2>1 DEF Shorter
  <2>. QED  BY <2>1, <2>2, <2>3
<1>2. DOMAIN reports' = DOMAIN reports \ {key}
  BY DEF removeReport, Without
<1>3. ASSUME NEW ce \in DOMAIN eventLinks'
      PROVE  /\ LinkShape(eventLinks'[ce]) /\ Single(eventLinks'[ce].reports, twice)
             /\ ce \in events /\ eventLinks'[ce].reports # <<>>
             /\ Elems(eventLinks'[ce].reports) \ twice \subseteq DOMAIN reports'
  <2>. DEFINE old == eventLinks[ce].reports
  <2>1. /\ old \in Seq(Rptids) /\ Single(old, twice)
        /\ ce \in events /\ Elems(old) \ twice \subseteq DOMAIN reports
    BY <1>1 DEF LinksInv, LinkShape, LinksResolve
  <2>. HIDE DEF old
  <2>2. /\ WithoutFirst(old, key) \in Seq(Rptids)
        /\ Single(WithoutFirst(old, key), twice)
        /\ Elems(WithoutFirst(old, key)) \subseteq Elems(old)
        /\ key \in Elems(WithoutFirst(old, key)) => key \in twice
    BY <2>1, WithoutFirstKeeps
  <2>3. eventLinks'[ce].reports = WithoutFirst(old, key)
    BY <1>1 DEF old
  <2>4. LinkShape(eventLinks'[ce])
    BY <1>1, <2>2, <2>3 DEF LinkShape
  <2>. QED  BY <1>1, <1>2, <2>1, <2>2, <2>3, <2>4
<1>. QED  BY <1>3 DEF LinksInv, LinksResolve

LEMMA DefineNextKeeps ==
  ASSUME LinksInv, DefineNext
  PROVE  LinksInv'
<1>1. RxShape' /\ rx'.pc # "link"
  BY Continued DEF DefineNext, LinksInv
<1>2. ASSUME NEW r, NEW ids, reports' = With(reports, r, ids), UNCHANGED <<events, eventLinks, twice>>
      PROVE  LinksInv'
  <2>1. DOMAIN reports \subseteq DOMAIN reports'
    BY <1>2 DEF With
  <2>. QED  BY <1>1, <1>2, <2>1 DEF LinksInv, LinksResolve
<1>. QED  BY <1>1, <1>2, removeReportKeeps DEF DefineNext

LEMMA LinkAckChecks ==
  ASSUME NEW es \in Seq(LinkEntry), es # <<>>, LinkAck(es) = 0
  PROVE  Checked(es)
<1>. DEFINE Bad == {i \in DOMAIN es : LinkFault(es[i]) # 0}
<1>1. Bad = {}
  <2>. SUFFICES ASSUME Bad # {} PROVE FALSE
    OBVIOUS
  <2>1. LinkAck(es) = LinkFault(es[Least(Bad)])
    BY DEF LinkAck
  <2>2. Bad \in SUBSET Nat
    OBVIOUS
  <2>3. Least(Bad) \in Bad
    <3>. HIDE DEF Bad
    <3>. QED  BY <2>2, LeastExists
  <2>. QED  BY <2>1, <2>3
<1>2. ASSUME NEW i \in DOMAIN es
      PROVE  es[i].id \in events /\ Elems(es[i].ids) \subseteq DOMAIN reports
  <2>. DEFINE e == es[i]
              Wrong == {j \in DOMAIN e.ids : \/ e.ids[j] \notin DOMAIN reports
                                             \/ e.ids[j] \in LinkedTo(e.id, eventLinks)}
  <2>1. LinkFault(e) = 0
    BY <1>1
  <2>2. e.id \in events /\ Wrong = {}
    BY <2>1 DEF LinkFault
  <2>. QED  BY <2>2 DEF Elems
<1>. QED  BY <1>2 DEF Checked

LEMMA LinkKeeps ==
  ASSUME LinksInv, NEW body \in LinkBodies, onS2F35(body)
  PROVE  LinksInv'
<1>1. CASE /\ AreEntries(body) /\ Entries(body) # <<>> /\ LinkAck(Entries(body)) = 0
           /\ Start("link", Entries(body), FALSE)
  <2>1. Checked(Entries(body))
    BY <1>1, ReportsAssumption, LinkAckChecks
  <2>2. RxShape' /\ rx'.rest = Entries(body) /\ UNCHANGED <<events, reports, eventLinks, twice>>
    BY <1>1 DEF Start, Waiting, RxShape, reportTables
  <2>. QED  BY <2>1, <2>2 DEF LinksInv, Checked, LinksResolve
<1>. QED  BY <1>1, Refused DEF onS2F35

LEMMA JoinElems ==
  ASSUME NEW S, NEW s \in Seq(S), NEW t \in Seq(S)
  PROVE  s \o t \in Seq(S) /\ Elems(s \o t) \subseteq Elems(s) \cup Elems(t)
<1>1. /\ s \o t \in Seq(S) /\ Len(s \o t) = Len(s) + Len(t)
      /\ \A i \in 1..Len(s) + Len(t) : (s \o t)[i] = IF i <= Len(s) THEN s[i] ELSE t[i - Len(s)]
  BY ConcatProperties
<1>2. ASSUME NEW i \in 1..Len(s) + Len(t)
      PROVE  (s \o t)[i] \in Elems(s) \cup Elems(t)
  <2>1. CASE i <= Len(s)
    BY <1>1, <2>1 DEF Elems
  <2>2. CASE i > Len(s)
    <3>1. i - Len(s) \in 1..Len(t) /\ (s \o t)[i] = t[i - Len(s)]
      BY <1>1, <2>2
    <3>. QED  BY <3>1 DEF Elems
  <2>. QED  BY <2>1, <2>2
<1>. QED  BY <1>1, <1>2 DEF Elems

LEMMA ExtendedHolds ==
  ASSUME LinksInv, NEW e \in LinkEntry, e.ids # <<>>, Elems(e.ids) \subseteq DOMAIN reports
  PROVE  LET x == Extended(e)
         IN  /\ LinkShape(x) /\ x.reports # <<>>
             /\ Elems(x.reports) \ twice \subseteq DOMAIN reports
<1>. DEFINE x == Extended(e)
<1>1. e.ids \in Seq(Rptids)
  BY DEF LinkEntry
<1>2. CASE e.id \notin DOMAIN eventLinks
  BY <1>1, <1>2 DEF Extended, LinkShape
<1>3. CASE e.id \in DOMAIN eventLinks
  <2>. DEFINE old == eventLinks[e.id].reports
  <2>1. /\ old \in Seq(Rptids) /\ old # <<>> /\ Elems(old) \ twice \subseteq DOMAIN reports
        /\ eventLinks[e.id] = [reports |-> old, enabled |-> eventLinks[e.id].enabled]
    BY <1>3 DEF LinksInv, LinkShape, LinksResolve
  <2>2. x = [reports |-> old \o e.ids, enabled |-> eventLinks[e.id].enabled]
    BY <1>3, <2>1 DEF Extended
  <2>. HIDE DEF old
  <2>3. old \o e.ids \in Seq(Rptids) /\ Elems(old \o e.ids) \subseteq Elems(old) \cup Elems(e.ids)
    BY <1>1, <2>1, JoinElems
  <2>4. old \o e.ids # <<>>
    BY <1>1, <2>1
  <2>5. LinkShape(x)
    BY <2>2, <2>3 DEF LinkShape
  <2>. QED  BY <2>1, <2>2, <2>3, <2>4, <2>5
<1>. QED  BY <1>2, <1>3

LEMMA LinkNextKeeps ==
  ASSUME LinksInv, LinkNext
  PROVE  LinksInv'
<1>. DEFINE e == Head(rx.rest)
<1>1. /\ rx.pc = "link" /\ Checked(rx.rest) /\ RxShape /\ Continue(36)
      /\ UNCHANGED <<events, reports>>
  BY DEF LinkNext, LinksInv
<1>2. e \in LinkEntry /\ e.id \in events /\ Elems(e.ids) \subseteq DOMAIN reports
  BY <1>1 DEF Checked
<1>3. RxShape' /\ (rx'.pc = "link" => Checked(rx.rest)')
  <2>1. RxShape' /\ (rx'.pc = "link" => rx'.rest = Tail(rx.rest) /\ Len(rx.rest) # 1)
    BY <1>1, Continued
  <2>. DEFINE es == rx.rest
  <2>2. ASSUME Len(es) # 1
        PROVE  /\ Tail(es) \in Seq(LinkEntry) /\ Tail(es) # <<>>
               /\ \A i \in DOMAIN Tail(es) : i + 1 \in DOMAIN es /\ Tail(es)[i] = es[i + 1]
    <3>1. es \in Seq(LinkEntry) /\ es # <<>>
      BY <1>1 DEF Checked
    <3>. HIDE DEF es
    <3>2. /\ Tail(es) \in Seq(LinkEntry) /\ Len(Tail(es)) = Len(es) - 1
          /\ \A i \in 1..Len(Tail(es)) : Tail(es)[i] = es[i + 1]
      BY <3>1, HeadTailProperties
    <3>3. Len(es) \in Nat /\ Len(es) # 0
      BY <3>1
    <3>. DEFINE t == Tail(es)
    <3>. HIDE DEF t
    <3>4. t \in Seq(LinkEntry) /\ Len(t) = Len(es) - 1 /\ Len(t) > 0
      BY <2>2, <3>2, <3>3 DEF t
    <3>5. t # <<>> /\ DOMAIN t = 1..Len(t)
      BY <3>4
    <3>6. \A i \in DOMAIN t : i + 1 \in 1..Len(es)
      BY <3>3, <3>4, <3>5
    <3>. QED  BY <3>1, <3>2, <3>4, <3>5, <3>6 DEF t
  <2>3. ASSUME Len(es) # 1
        PROVE  \A i \in DOMAIN Tail(es) : /\ Tail(es)[i].id \in events
                                          /\ Elems(Tail(es)[i].ids) \subseteq DOMAIN reports
    BY <1>1, <2>2, <2>3 DEF Checked
  <2>. QED  BY <1>1, <2>1, <2>2, <2>3 DEF Checked
<1>4. CASE e.ids = <<>> /\ eventLinks' = Without(eventLinks, e.id) /\ UNCHANGED twice
  <2>1. ASSUME NEW ce \in DOMAIN eventLinks'
        PROVE  ce \in DOMAIN eventLinks /\ eventLinks'[ce] = eventLinks[ce]
    BY <1>4 DEF Without
  <2>. QED  BY <1>1, <1>3, <1>4, <2>1 DEF LinksInv, LinksResolve
<1>5. CASE /\ e.ids # <<>> /\ eventLinks' = With(eventLinks, e.id, Extended(e))
           /\ twice' = twice \cup Repeated(Extended(e).reports)
  <2>. DEFINE x == Extended(e)
  <2>1. /\ LinkShape(x) /\ x.reports # <<>>
        /\ Elems(x.reports) \ twice \subseteq DOMAIN reports
    BY <1>2, <1>5, ExtendedHolds
  <2>. HIDE DEF x, e
  <2>2. Single(x.reports, Repeated(x.reports))
    BY <2>1, RepeatedCovers DEF LinkShape
  <2>3. eventLinks' = With(eventLinks, e.id, x) /\ twice' = twice \cup Repeated(x.reports)
    BY <1>5 DEF x
  <2>4. ASSUME NEW ce \in DOMAIN eventLinks'
        PROVE  /\ LinkShape(eventLinks'[ce]) /\ Single(eventLinks'[ce].reports, twice')
               /\ ce \in events /\ eventLinks'[ce].reports # <<>>
               /\ Elems(eventLinks'[ce].reports) \ twice' \subseteq DOMAIN reports
    <3>1. CASE ce = e.id
      <4>1. eventLinks'[ce] = x
        BY <2>3, <3>1 DEF With
      <4>. QED  BY <1>2, <2>1, <2>2, <2>3, <3>1, <4>1 DEF Single
    <3>2. CASE ce # e.id
      <4>1. ce \in DOMAIN eventLinks /\ eventLinks'[ce] = eventLinks[ce]
        BY <2>3, <3>2 DEF With
      <4>. QED  BY <2>3, <4>1 DEF LinksInv, LinksResolve, Single
    <3>. QED  BY <3>1, <3>2
  <2>. QED  BY <1>1, <1>3, <2>4 DEF LinksInv, LinksResolve
<1>. QED  BY <1>4, <1>5 DEF LinkNext

\* The enabled flags change and nothing else of the links.
LEMMA FlagsKeep ==
  ASSUME LinksInv, UNCHANGED <<events, reports, twice>>, RxShape', rx'.pc # "link",
         DOMAIN eventLinks' = DOMAIN eventLinks,
         \A ce \in DOMAIN eventLinks : \E b :
           eventLinks'[ce] = [reports |-> eventLinks[ce].reports, enabled |-> b]
  PROVE  LinksInv'
BY DEF LinksInv, LinksResolve, LinkShape

LEMMA EnableKeeps ==
  ASSUME LinksInv, NEW body, onS2F37(body)
  PROVE  LinksInv'
<1>1. ASSUME NEW b, EnableEvery(b)
      PROVE  LinksInv'
  <2>1. RxShape' /\ rx'.pc # "link" /\ UNCHANGED <<events, reports, twice>>
    BY <1>1, Replied DEF EnableEvery
  <2>2. /\ DOMAIN eventLinks' = DOMAIN eventLinks
        /\ \A ce \in DOMAIN eventLinks :
             eventLinks'[ce] = [reports |-> eventLinks[ce].reports, enabled |-> b]
    BY <1>1 DEF EnableEvery, LinksInv, LinkShape
  <2>. QED  BY <2>1, <2>2, FlagsKeep
<1>2. ASSUME NEW es, NEW b, Start("enable", es, b)
      PROVE  LinksInv'
  <2>1. RxShape' /\ rx'.pc # "link"
    BY <1>2 DEF Start, Waiting, RxShape
  <2>. QED  BY <1>2, <2>1, KeepTables DEF Start, reportTables
<1>. QED  BY <1>1, <1>2, Refused DEF onS2F37

LEMMA EnableNextKeeps ==
  ASSUME LinksInv, EnableNext
  PROVE  LinksInv'
<1>1. CASE /\ Head(rx.rest) \in DOMAIN eventLinks
           /\ eventLinks' = [eventLinks EXCEPT ![Head(rx.rest)].enabled = rx.enable]
           /\ Continue(38)
  <2>1. RxShape' /\ rx'.pc # "link" /\ UNCHANGED <<events, reports, twice>>
    BY <1>1, Continued DEF EnableNext, LinksInv
  <2>2. /\ DOMAIN eventLinks' = DOMAIN eventLinks
        /\ \A ce \in DOMAIN eventLinks :
             eventLinks'[ce] = [reports |-> eventLinks[ce].reports,
                                enabled |-> IF ce = Head(rx.rest) THEN rx.enable
                                            ELSE eventLinks[ce].enabled]
    BY <1>1 DEF LinksInv, LinkShape
  <2>. QED  BY <2>1, <2>2, FlagsKeep
<1>2. CASE ReplyReport(38, Bin(1)) /\ UNCHANGED eventLinks
  BY <1>2, Replied, KeepTables DEF EnableNext
<1>. QED  BY <1>1, <1>2 DEF EnableNext

LEMMA LinksStep == LinksInv /\ [ReportsNext]_reportVars => LinksInv'
<1>. SUFFICES ASSUME LinksInv, [ReportsNext]_reportVars PROVE LinksInv'
  OBVIOUS
<1>1. CASE UNCHANGED reportVars
  BY <1>1, KeepTables DEF reportVars, reportTables
<1>2. CASE Application
  <2>1. ASSUME NEW v, RegisterVariable(v) \/ SetVariable(v)
        PROVE  LinksInv'
    BY <2>1, KeepTables DEF RegisterVariable, SetVariable, reportTables
  <2>2. ASSUME NEW b, NEW ce, TriggerCollectionEvent(b, ce)
        PROVE  LinksInv'
    BY <2>2, KeepTables DEF TriggerCollectionEvent, Go, reportTables
  <2>. QED  BY <1>2, <2>1, <2>2, RegisterCollectionEventKeeps DEF Application
<1>3. CASE Receiver
  <2>1. ASSUME NEW body, onS6F15(body)
        PROVE  LinksInv'
    <3>1. CASE ReplyReport(616, EventItem(1, Empty, <<>>))
      BY <2>1, <3>1, KeepTables, Replied DEF onS6F15, Go, reportTables
    <3>2. CASE rx' = [Waiting EXCEPT !.pc = "report"]
      <4>1. RxShape' /\ rx'.pc # "link"
        BY <3>2 DEF Waiting, RxShape
      <4>. QED  BY <2>1, <4>1, KeepTables DEF onS6F15, Go, reportTables
    <3>. QED  BY <2>1, <3>1, <3>2 DEF onS6F15
  <2>2. CASE ReportReturned
    <3>1. RxShape' /\ rx'.pc # "link"
      BY <2>2 DEF ReportReturned, Waiting, RxShape
    <3>. QED  BY <2>2, <3>1, KeepTables DEF ReportReturned, reportTables
  <2>. QED  BY <1>3, <2>1, <2>2, DefineKeeps, LinkKeeps, EnableKeeps, DefineNextKeeps,
               LinkNextKeeps, EnableNextKeeps DEF Receiver
<1>4. CASE \E b \in Builders : Build(b) \/ onS6F11(b)
  BY <1>4, BuildKeeps
<1>. QED  BY <1>1, <1>2, <1>3, <1>4 DEF ReportsNext

(* Every link is of a registered event and names defined reports, however  *)
(* S2F33, S2F35 and S2F37 follow each other and wherever their entries     *)
(* stop: S2F35 applies what it has checked because the receive goroutine   *)
(* lets nothing between (Checked), and the deletion of a report clears a   *)
(* link completely unless one S2F35 had named the report twice (Single).   *)
THEOREM LinksResolveHolds == ReportsSpec => []LinksResolve
<1>1. LinksInv => LinksResolve
  BY DEF LinksInv
<1>. QED  BY LinksInit, LinksStep, <1>1, PTL DEF ReportsSpec
-----------------------------------------------------------------------------
(* What the goroutines that build a message have seen, and what they sent. *)

FullItems   == {<<"L", <<Id(r), <<"L", v>>>>>> : r \in Rptids, v \in Seq({Id("value")})}
ReportItems == FullItems \cup {Hollow}

NameIn(item) == Name(Elements(item)[1])

BuildSteps == {"idle", "lookup", "check", "copy", "collect", "sent"}

BuildFields == {"pc", "ceid", "shared", "link", "keys", "out", "on", "ever", "steady",
                "full"}

BuilderShape(w) ==
  /\ DOMAIN w = BuildFields
  /\ w.pc \in BuildSteps /\ w.shared \in BOOLEAN /\ w.on \in BOOLEAN
  /\ w.full \in BOOLEAN
  /\ w.pc = "idle" => ~w.shared

\* What w has noted is what it can have seen of the tables rs and els and of
\* the variables vs.
Sees(w, rs, els, vs) ==
  /\ IsOn(w.ceid, els) => w.on
  /\ LinkedTo(w.ceid, els) \subseteq w.ever
  /\ w.steady \subseteq Reportable(w.ceid, rs, els)
  /\ w.full => Filled(w.ever, rs, vs)
  /\ w.shared => w.ceid \in DOMAIN els
  /\ ~w.shared => /\ w.link.enabled => w.on
                  /\ w.link.reports \in Seq(Rptids) /\ Elems(w.link.reports) \subseteq w.ever

\* What w gathers is linked; if no variable was without a value it is whole and
\* has what is steady.
Gathers(w) ==
  /\ w.pc \in {"copy", "collect", "sent"} => w.on
  /\ w.pc \in {"lookup", "check", "copy"} => w.out = <<>>
  /\ w.pc \in {"check", "copy"} /\ ~w.shared => w.steady = {}
  /\ w.pc = "sent" => w.keys = <<>>
  /\ w.keys \in Seq(Rptids) /\ Elems(w.keys) \subseteq w.ever
  /\ w.out \in Seq(ReportItems)
  /\ \A x \in Elems(w.out) : x \in FullItems => NameIn(x) \in w.ever
  /\ w.full => Elems(w.out) \subseteq FullItems
  /\ w.pc \in {"collect", "sent"} /\ w.full =>
       w.steady \subseteq Elems(w.keys) \cup {NameIn(x) : x \in Elems(w.out)}

BuildersInv ==
  /\ builders = [b \in Builders |-> builders[b]]
  /\ \A b \in Builders :
       /\ BuilderShape(builders[b])
       /\ builders[b].pc # "idle" =>
            Sees(builders[b], reports, eventLinks, variables) /\ Gathers(builders[b])

TablesInv ==
  /\ variables \in [Vids -> {"absent", "silent", "valued"}]
  /\ events \subseteq Ceids
  /\ DOMAIN reports \subseteq Rptids
  /\ \A r \in DOMAIN reports : reports[r] \in Seq(Vids) /\ reports[r] # <<>>
  /\ rx.pc \in {"idle", "define", "link", "enable", "report", "reply", "dead"}
  /\ rx.pc = "define" => rx.rest \in Seq(DefineEntry) /\ rx.rest # <<>>
  /\ rx.pc = "enable" => rx.rest \in Seq(Ceids) /\ rx.rest # <<>>

ReportsInv == LinksInv /\ TablesInv /\ BuildersInv

-----------------------------------------------------------------------------
(* Items.                                                                  *)

Sound(item) == item \notin {Empty, Hollow, Panicked}

LEMMA SoundItems ==
  /\ Empty # Hollow /\ Empty # Panicked /\ Hollow # Panicked
  /\ ~IsList(Hollow) /\ ~IsList(Panicked)
  /\ \A f : Sound(<<"L", f>>) /\ IsList(<<"L", f>>) /\ Elements(<<"L", f>>) = f
  /\ \A n : Sound(Id(n)) /\ IsId(Id(n)) /\ Name(Id(n)) = n
BY DEF Sound, Empty, Hollow, Panicked, IsList, Format, Elements, Id, IsId, Name

LEMMA Listed ==
  ASSUME NEW f, NEW g
  PROVE  /\ (\A i \in DOMAIN f : Sound(f[i])) => ListOf(f, g) = <<"L", g>>
         /\ (\E i \in DOMAIN f : ~Sound(f[i])) => ListOf(f, g) \in {Hollow, Panicked}
<1>1. (\A i \in DOMAIN f : Sound(f[i])) => Holes(f) = {} /\ ~\E i \in DOMAIN f : f[i] = Panicked
  BY DEF Sound, Holes
<1>2. (\E i \in DOMAIN f : ~Sound(f[i])) => Holes(f) # {} \/ \E i \in DOMAIN f : f[i] = Panicked
  BY DEF Sound, Holes
<1>. QED  BY <1>1, <1>2 DEF ListOf

LEMMA PairIs ==
  ASSUME NEW x, NEW y, Sound(x)
  PROVE  /\ Sound(y) => L(<<x, y>>) = <<"L", <<x, y>>>>
         /\ ~Sound(y) => L(<<x, y>>) \in {Hollow, Panicked}
<1>. DEFINE p == <<x, y>>
<1>1. DOMAIN p = 1..2 /\ p[1] = x /\ p[2] = y /\ 2 \in DOMAIN p
  OBVIOUS
<1>. HIDE DEF p
<1>2. Sound(y) => \A i \in DOMAIN p : Sound(p[i])
  BY <1>1
<1>3. ~Sound(y) => \E i \in DOMAIN p : ~Sound(p[i])
  BY <1>1
<1>4. /\ Sound(y) => L(p) = <<"L", p>>
      /\ ~Sound(y) => L(p) \in {Hollow, Panicked}
  BY <1>2, <1>3, Listed DEF L
<1>. QED  BY <1>4 DEF p

LEMMA TripleIs ==
  ASSUME NEW x, NEW y, NEW z, Sound(x), Sound(y)
  PROVE  /\ Sound(z) => L(<<x, y, z>>) = <<"L", <<x, y, z>>>>
         /\ ~Sound(z) => L(<<x, y, z>>) \in {Hollow, Panicked}
<1>. DEFINE p == <<x, y, z>>
<1>1. DOMAIN p = 1..3 /\ p[1] = x /\ p[2] = y /\ p[3] = z /\ 3 \in DOMAIN p
  OBVIOUS
<1>. HIDE DEF p
<1>2. Sound(z) => \A i \in DOMAIN p : Sound(p[i])
  <2>1. \A i \in DOMAIN p : i = 1 \/ i = 2 \/ i = 3
    BY <1>1
  <2>. QED  BY <1>1, <2>1
<1>3. ~Sound(z) => \E i \in DOMAIN p : ~Sound(p[i])
  BY <1>1
<1>4. /\ Sound(z) => L(p) = <<"L", p>>
      /\ ~Sound(z) => L(p) \in {Hollow, Panicked}
  BY <1>2, <1>3, Listed DEF L
<1>. QED  BY <1>4 DEF p

LEMMA ItemIs ==
  ASSUME NEW x \in FullItems
  PROVE  /\ NameIn(x) \in Rptids /\ IsList(x) /\ Len(Elements(x)) >= 2
         /\ IsId(Elements(x)[1]) /\ IsList(Elements(x)[2])
         /\ Sound(x)
<1>1. PICK r \in Rptids, v \in Seq({Id("value")}) : x = <<"L", <<Id(r), <<"L", v>>>>>>
  BY DEF FullItems
<1>2. Elements(x) = <<Id(r), <<"L", v>>>> /\ Format(x) = "L"
  BY <1>1 DEF Elements, Format
<1>3. Elements(x)[1] = Id(r) /\ Elements(x)[2] = <<"L", v>> /\ Len(Elements(x)) = 2
  BY <1>2
<1>4. Sound(x) /\ IsList(x) /\ IsList(<<"L", v>>) /\ Name(Id(r)) = r /\ IsId(Id(r))
  BY <1>1, SoundItems
<1>. QED  BY <1>2, <1>3, <1>4 DEF NameIn

\* The item of a report is whole, or it has a hole for each variable without a
\* value.
LEMMA ReportItemIs ==
  ASSUME TablesInv, NEW r \in DOMAIN reports
  PROVE  /\ ReportItem(r) \in ReportItems \cup {Panicked}
         /\ ReportItem(r) \in FullItems => NameIn(ReportItem(r)) = r
         /\ Filled({r}, reports, variables) => ReportItem(r) \in FullItems
<1>. DEFINE f == [i \in DOMAIN reports[r] |->
                    IF variables[reports[r][i]] = "valued" THEN Id("value") ELSE Empty]
<1>1. r \in Rptids /\ reports[r] \in Seq(Vids)
  BY DEF TablesInv
<1>2. ReportItem(r) = L(<<Id(r), L(f)>>)
  BY DEF ReportItem
<1>3. Filled({r}, reports, variables) => \A i \in DOMAIN f : Sound(f[i])
  BY SoundItems DEF Filled, Elems
<1>4. CASE \E i \in DOMAIN f : ~Sound(f[i])
  <2>1. ~Sound(L(f))
    <3>1. L(f) \in {Hollow, Panicked}
      BY <1>4, Listed DEF L
    <3>. QED  BY <3>1 DEF Sound
  <2>2. ReportItem(r) \in {Hollow, Panicked}
    BY <1>2, <2>1, SoundItems, PairIs
  <2>3. ReportItem(r) \notin FullItems
    BY <2>2, ItemIs DEF Sound
  <2>. QED  BY <1>3, <1>4, <2>2, <2>3 DEF ReportItems
<1>5. CASE \A i \in DOMAIN f : Sound(f[i])
  <2>1. L(f) = <<"L", f>>
    BY <1>5, Listed DEF L
  <2>2. f \in Seq({Id("value")})
    <3>1. \A i \in DOMAIN reports[r] : f[i] = Id("value")
      BY <1>5 DEF Sound
    <3>2. f = [i \in 1..Len(reports[r]) |-> Id("value")]
      BY <1>1, <3>1
    <3>. QED  BY <1>1, <3>2
  <2>. HIDE DEF f
  <2>3. ReportItem(r) = <<"L", <<Id(r), <<"L", f>>>>>>
    BY <1>2, <2>1, SoundItems, PairIs
  <2>4. ReportItem(r) \in FullItems
    BY <1>1, <2>2, <2>3 DEF FullItems
  <2>5. NameIn(ReportItem(r)) = r
    BY <2>3 DEF NameIn, Name, Elements, Id
  <2>. QED  BY <2>4, <2>5 DEF ReportItems
<1>. QED  BY <1>4, <1>5

LEMMA CutLength ==
  ASSUME NEW n \in Nat
  PROVE  n % Byte \in Nat /\ n % Byte <= n /\ (n < Byte => n % Byte = n)
BY ByteAssumption

LEMMA SeqElems ==
  ASSUME NEW S, NEW s \in Seq(S)
  PROVE  /\ Elems(s) \subseteq S
         /\ Elems(Arrived(s)) \subseteq Elems(s)
         /\ Len(s) < Byte => Arrived(s) = s
<1>1. Len(s) \in Nat /\ DOMAIN s = 1..Len(s) /\ \A i \in DOMAIN s : s[i] \in S
  BY LenProperties, ElementOfSeq
<1>2. PICK n : n = Len(s) % Byte
  OBVIOUS
<1>3. n \in Nat /\ n <= Len(s) /\ (Len(s) < Byte => n = Len(s))
  BY <1>1, <1>2, CutLength
<1>4. /\ Len(Arrived(s)) = n /\ DOMAIN Arrived(s) = 1..n
      /\ \A i \in 1..n : i \in DOMAIN s /\ Arrived(s)[i] = s[i]
      /\ n = Len(s) => Arrived(s) = s
  BY <1>1, <1>2, <1>3 DEF Arrived
<1>5. Elems(s) \subseteq S
  BY <1>1 DEF Elems
<1>6. Elems(Arrived(s)) \subseteq Elems(s)
  BY <1>4 DEF Elems
<1>. QED  BY <1>3, <1>4, <1>5, <1>6

\* A message of whole reports is sent, and of 255 at most all arrive; the host
\* reads nothing of another.
LEMMA HeardIs ==
  ASSUME NEW ce, NEW out \in Seq(ReportItems)
  PROVE  LET heard == ReadReports(EventItem(1, Id(ce), out))
         IN  /\ Elems(out) \subseteq FullItems => \A n : Sound(EventItem(n, Id(ce), out))
             /\ heard # {} => Elems(out) \subseteq FullItems
             /\ heard \subseteq {NameIn(x) : x \in Elems(out)}
             /\ Elems(out) \subseteq FullItems /\ Len(out) < Byte =>
                  heard = {NameIn(x) : x \in Elems(out)}
<1>. DEFINE item(n) == EventItem(n, Id(ce), out)
<1>1. /\ Elems(out) \subseteq ReportItems /\ Elems(Arrived(out)) \subseteq Elems(out)
      /\ Len(out) < Byte => Arrived(out) = out
  BY SeqElems
<1>2. CASE ~(Elems(out) \subseteq FullItems)
  <2>1. \E i \in DOMAIN out : ~Sound(out[i])
    BY <1>1, <1>2 DEF Elems, ReportItems, Sound
  <2>2. ~Sound(SentList(out))
    <3>1. SentList(out) \in {Hollow, Panicked}
      BY <2>1, Listed DEF SentList
    <3>. QED  BY <3>1 DEF Sound
  <2>3. item(1) \in {Hollow, Panicked}
    BY <2>2, SoundItems, TripleIs DEF EventItem
  <2>4. ReadReports(item(1)) = {}
    <3>. HIDE DEF item
    <3>. QED  BY <2>3, SoundItems DEF ReadReports, IsReport
  <2>. QED  BY <1>2, <2>4
<1>3. CASE Elems(out) \subseteq FullItems
  <2>. DEFINE a == Arrived(out)
  <2>1. SentList(out) = <<"L", a>>
    <3>1. \A i \in DOMAIN out : Sound(out[i])
      BY <1>3, ItemIs DEF Elems
    <3>. QED  BY <3>1, Listed DEF SentList
  <2>2. \A n : item(n) = <<"L", <<Id(n), Id(ce), <<"L", a>>>>>>
    BY <2>1, SoundItems, TripleIs DEF EventItem
  <2>3. \A n : Sound(item(n))
    BY <2>2, SoundItems
  <2>. DEFINE p == <<Id(1), Id(ce), <<"L", a>>>>
  <2>4. p[2] = Id(ce) /\ p[3] = <<"L", a>> /\ Len(p) = 3
    OBVIOUS
  <2>. HIDE DEF p, a
  <2>5. item(1) = <<"L", p>>
    BY <2>2 DEF p
  <2>. HIDE DEF item
  <2>6. /\ IsList(item(1)) /\ Elements(item(1)) = p
        /\ Elements(Elements(item(1))[3]) = a /\ IsList(Elements(item(1))[3])
    BY <2>4, <2>5, SoundItems
  <2>7. \A x \in Elems(a) : x \in FullItems
    BY <1>1, <1>3 DEF a
  <2>8. IsReport(item(1))
    BY <2>4, <2>6, <2>7, SoundItems, ItemIs DEF IsReport
  <2>9. ReadReports(item(1)) = {NameIn(x) : x \in Elems(a)}
    BY <2>6, <2>8 DEF ReadReports, NameIn
  <2>. QED  BY <1>1, <1>3, <2>3, <2>9 DEF item, a
<1>. QED  BY <1>2, <1>3

-----------------------------------------------------------------------------
(* Sequences.                                                              *)

LEMMA TailMore ==
  ASSUME NEW S, NEW s \in Seq(S), s # <<>>, Len(s) # 1
  PROVE  Tail(s) \in Seq(S) /\ Tail(s) # <<>>
<1>1. Tail(s) \in Seq(S) /\ Len(Tail(s)) = Len(s) - 1
  BY HeadTailProperties
<1>2. Len(s) \in Nat /\ Len(s) # 0
  BY EmptySeq
<1>3. Len(Tail(s)) # 0
  BY <1>1, <1>2
<1>. QED  BY <1>1, <1>3, EmptySeq

LEMMA TailElems ==
  ASSUME NEW S, NEW s \in Seq(S), s # <<>>
  PROVE  /\ Head(s) \in S /\ Tail(s) \in Seq(S)
         /\ Elems(s) = {Head(s)} \cup Elems(Tail(s))
<1>. DEFINE t == Tail(s)
<1>1. /\ Head(s) \in S /\ t \in Seq(S) /\ Len(t) = Len(s) - 1
      /\ \A i \in 1..Len(t) : t[i] = s[i + 1]
  BY HeadTailProperties
<1>2. Head(s) = s[1] /\ Len(s) \in Nat /\ Len(s) # 0 /\ DOMAIN s = 1..Len(s)
  OBVIOUS
<1>. HIDE DEF t
<1>3. DOMAIN t = 1..Len(s) - 1 /\ 1 \in DOMAIN s
  BY <1>1, <1>2
<1>4. \A i \in 1..Len(s) - 1 : i + 1 \in DOMAIN s /\ t[i] = s[i + 1]
  BY <1>1, <1>2, <1>3
<1>5. ASSUME NEW i \in DOMAIN s
      PROVE  s[i] \in {s[1]} \cup Elems(t)
  <2>1. CASE i = 1
    BY <2>1
  <2>2. CASE i # 1
    <3>1. i - 1 \in 1..Len(s) - 1 /\ (i - 1) + 1 = i
      BY <1>2, <2>2
    <3>2. t[i - 1] = s[i]
      BY <1>4, <3>1
    <3>. QED  BY <1>3, <3>1, <3>2 DEF Elems
  <2>. QED  BY <2>1, <2>2
<1>6. Elems(s) \subseteq {Head(s)} \cup Elems(t)
  BY <1>2, <1>5 DEF Elems
<1>7. {Head(s)} \cup Elems(t) \subseteq Elems(s)
  BY <1>2, <1>3, <1>4 DEF Elems
<1>. QED  BY <1>1, <1>6, <1>7 DEF t

LEMMA AppendElems ==
  ASSUME NEW S, NEW s \in Seq(S), NEW x \in S
  PROVE  Append(s, x) \in Seq(S) /\ Elems(Append(s, x)) = Elems(s) \cup {x}
<1>. DEFINE t == Append(s, x)
<1>1. /\ t \in Seq(S) /\ Len(t) = Len(s) + 1
      /\ \A i \in 1..Len(s) : t[i] = s[i]
      /\ t[Len(s) + 1] = x
  BY AppendProperties
<1>. HIDE DEF t
<1>2. Len(s) \in Nat /\ DOMAIN s = 1..Len(s) /\ DOMAIN t = 1..Len(s) + 1
  BY <1>1
<1>3. \A i \in DOMAIN t : i \in DOMAIN s \/ i = Len(s) + 1
  BY <1>2
<1>4. DOMAIN s \subseteq DOMAIN t /\ Len(s) + 1 \in DOMAIN t
  BY <1>2
<1>5. \A i \in DOMAIN s : t[i] = s[i]
  BY <1>1, <1>2
<1>6. Elems(t) = Elems(s) \cup {x}
  BY <1>1, <1>3, <1>4, <1>5 DEF Elems
<1>. QED  BY <1>1, <1>6 DEF t

-----------------------------------------------------------------------------
(* The tables change while messages are built.                             *)

\* An event that loses its link keeps a link that was no more than its own.
Lost(ce, els, els2, last) ==
  ce \in DOMAIN els /\ ce \notin DOMAIN els2 =>
    /\ last[ce].enabled => els[ce].enabled
    /\ last[ce].reports \in Seq(Rptids)
    /\ Elems(last[ce].reports) \subseteq Elems(els[ce].reports)

LEMMA WatchedFits ==
  ASSUME NEW w, BuilderShape(w), w.pc # "idle",
         NEW rs, NEW els, Sees(w, rs, els, variables), Gathers(w),
         NEW rs2, NEW els2, NEW last, Lost(w.ceid, els, els2, last)
  PROVE  LET n == Watched(w, rs2, els2, last)
         IN  BuilderShape(n) /\ n.pc = w.pc /\ Sees(n, rs2, els2, variables) /\ Gathers(n)
<1>. DEFINE n == Watched(w, rs2, els2, last)
<1>2. /\ DOMAIN n = BuildFields
      /\ n.pc = w.pc /\ n.ceid = w.ceid /\ n.keys = w.keys /\ n.out = w.out
      /\ n.shared = (w.shared /\ w.ceid \in DOMAIN els2)
      /\ n.link = (IF w.shared /\ w.ceid \notin DOMAIN els2 THEN last[w.ceid] ELSE w.link)
      /\ n.on = (w.on \/ IsOn(w.ceid, els2))
      /\ n.ever = (w.ever \cup LinkedTo(w.ceid, els2))
      /\ n.steady = (w.steady \cap Reportable(w.ceid, rs2, els2))
      /\ n.full = (w.full /\ Filled(n.ever, rs2, variables))
  <2>1. PICK sh : sh = (w.shared /\ w.ceid \in DOMAIN els2)
    OBVIOUS
  <2>2. PICK li : li = (IF w.shared /\ w.ceid \notin DOMAIN els2 THEN last[w.ceid] ELSE w.link)
    OBVIOUS
  <2>3. PICK o : o = (w.on \/ IsOn(w.ceid, els2))
    OBVIOUS
  <2>4. PICK ev : ev = (w.ever \cup LinkedTo(w.ceid, els2))
    OBVIOUS
  <2>5. PICK st : st = (w.steady \cap Reportable(w.ceid, rs2, els2))
    OBVIOUS
  <2>9. PICK fu : fu = (w.full /\ Filled(w.ever \cup LinkedTo(w.ceid, els2), rs2, variables))
    OBVIOUS
  <2>6. DOMAIN w = BuildFields
    BY DEF BuilderShape
  <2>7. n = [w EXCEPT !.shared = sh, !.link = li, !.on = o, !.ever = ev, !.steady = st,
                      !.full = fu]
    BY <2>1, <2>2, <2>3, <2>4, <2>5, <2>6, <2>9, Zenon DEF Watched
  <2>. HIDE DEF n
  <2>8. /\ DOMAIN n = BuildFields
        /\ n.pc = w.pc /\ n.ceid = w.ceid /\ n.keys = w.keys /\ n.out = w.out
        /\ n.shared = sh /\ n.link = li /\ n.on = o /\ n.ever = ev /\ n.steady = st
        /\ n.full = fu
    BY <2>6, <2>7 DEF BuildFields
  <2>10. n.full = (w.full /\ Filled(n.ever, rs2, variables))
    BY <2>4, <2>8, <2>9, Zenon
  <2>. QED  BY <2>1, <2>2, <2>3, <2>4, <2>5, <2>8, <2>10, Zenon
<1>. HIDE DEF n
<1>3. BuilderShape(n)
  <2>1. w.pc \in BuildSteps /\ w.shared \in BOOLEAN /\ w.on \in BOOLEAN
    BY DEF BuilderShape
  <2>3. n.shared \in BOOLEAN /\ n.on \in BOOLEAN /\ n.full \in BOOLEAN
    BY <1>2, <2>1, Zenon
  <2>. QED  BY <1>2, <2>1, <2>3 DEF BuilderShape
<1>4. Sees(n, rs2, els2, variables)
  <2>1. CASE w.shared /\ w.ceid \notin DOMAIN els2
    <3>1. w.ceid \in DOMAIN els /\ n.link = last[w.ceid]
      BY <1>2, <2>1 DEF Sees
    <3>2. n.link.enabled => n.on
      BY <1>2, <3>1, <2>1 DEF Lost, Sees, IsOn
    <3>3. n.link.reports \in Seq(Rptids) /\ Elems(n.link.reports) \subseteq n.ever
      BY <1>2, <3>1, <2>1 DEF Lost, Sees, LinkedTo
    <3>. QED  BY <1>2, <2>1, <3>2, <3>3 DEF Sees
  <2>2. CASE ~(w.shared /\ w.ceid \notin DOMAIN els2)
    <3>1. n.link = w.link /\ n.shared = w.shared
      BY <1>2, <2>2 DEF BuilderShape
    <3>. QED  BY <1>2, <2>2, <3>1 DEF Sees
  <2>. QED  BY <2>1, <2>2
<1>5. Gathers(n)
  <2>1. w.pc \in {"check", "copy"} /\ ~n.shared => n.steady = {}
    <3>1. CASE w.shared
      BY <1>2, <3>1 DEF Reportable, IsOn
    <3>2. CASE ~w.shared
      BY <1>2, <3>2 DEF Gathers
    <3>. QED  BY <3>1, <3>2
  <2>2. n.steady \subseteq w.steady /\ w.ever \subseteq n.ever /\ (w.on => n.on) /\ (n.full => w.full)
    BY <1>2
  <2>. QED  BY <1>2, <2>1, <2>2 DEF Gathers
<1>. QED  BY <1>2, <1>3, <1>4, <1>5 DEF n

LEMMA WatchKeeps ==
  ASSUME BuildersInv, NEW last, Watch(last), UNCHANGED variables,
         \A ce : Lost(ce, eventLinks, eventLinks', last)
  PROVE  /\ BuildersInv'
         /\ \A b \in Builders : builders'[b].pc = builders[b].pc
<1>. PICK rs2 : rs2 = reports'
  OBVIOUS
<1>. PICK els2 : els2 = eventLinks'
  OBVIOUS
<1>1. builders' = [b \in Builders |-> IF builders[b].pc = "idle" THEN builders[b]
                                      ELSE Watched(builders[b], rs2, els2, last)]
  BY DEF Watch
<1>2. ASSUME NEW b \in Builders
      PROVE  /\ BuilderShape(builders'[b]) /\ builders'[b].pc = builders[b].pc
             /\ builders'[b].pc # "idle" =>
                  Sees(builders'[b], rs2, els2, variables) /\ Gathers(builders'[b])
  <2>1. CASE builders[b].pc = "idle"
    BY <1>1, <2>1 DEF BuildersInv
  <2>2. CASE builders[b].pc # "idle"
    <3>1. builders'[b] = Watched(builders[b], rs2, els2, last)
      BY <1>1, <2>2
    <3>2. PICK w : w = builders[b]
      OBVIOUS
    <3>3. /\ BuilderShape(w) /\ w.pc # "idle" /\ Sees(w, reports, eventLinks, variables) /\ Gathers(w)
          /\ Lost(w.ceid, eventLinks, els2, last)
      BY <2>2, <3>2 DEF BuildersInv
    <3>4. LET n == Watched(w, rs2, els2, last)
          IN  BuilderShape(n) /\ n.pc = w.pc /\ Sees(n, rs2, els2, variables) /\ Gathers(n)
      BY <3>3, WatchedFits
    <3>. QED  BY <3>1, <3>2, <3>4
  <2>. QED  BY <2>1, <2>2
<1>3. builders' = [b \in Builders |-> builders'[b]]
  BY <1>1
<1>. QED  BY <1>2, <1>3 DEF BuildersInv

\* A build that ends has nothing and owes nothing, or it is through its link.
EndsWell(w) == \/ w.out = <<>> /\ w.steady = {}
               \/ w.pc \in {"collect", "sent"} /\ w.keys = <<>>

EndedWell == \A b \in Builders : Ends(b) => EndsWell(builders[b])

LEMMA OwnLinksKeep ==
  ASSUME LinksInv, BuildersInv, Watch(eventLinks), UNCHANGED variables
  PROVE  BuildersInv' /\ EndedWell
<1>1. \A ce : Lost(ce, eventLinks, eventLinks', eventLinks)
  BY DEF Lost, LinksInv, LinkShape
<1>. QED  BY <1>1, WatchKeeps DEF EndedWell, Ends, At

LEMMA ShorterLinksKeep ==
  ASSUME LinksInv, BuildersInv, NEW key, removeReport(key), UNCHANGED variables
  PROVE  BuildersInv' /\ EndedWell
<1>1. ASSUME NEW ce \in DOMAIN eventLinks
      PROVE  /\ Shorter(key)[ce].enabled = eventLinks[ce].enabled
             /\ Shorter(key)[ce].reports \in Seq(Rptids)
             /\ Elems(Shorter(key)[ce].reports) \subseteq Elems(eventLinks[ce].reports)
  <2>1. LinkShape(eventLinks[ce]) /\ Single(eventLinks[ce].reports, twice)
    BY DEF LinksInv
  <2>2. Shorter(key)[ce] = [reports |-> WithoutFirst(eventLinks[ce].reports, key),
                            enabled |-> eventLinks[ce].enabled]
    BY <2>1 DEF Shorter, LinkShape
  <2>3. PICK old : old = eventLinks[ce].reports
    OBVIOUS
  <2>4. WithoutFirst(old, key) \in Seq(Rptids) /\ Elems(WithoutFirst(old, key)) \subseteq Elems(old)
    BY <2>1, <2>3, WithoutFirstKeeps DEF LinkShape
  <2>. QED  BY <2>2, <2>3, <2>4
<1>2. \A ce : Lost(ce, eventLinks, eventLinks', Shorter(key))
  BY <1>1 DEF Lost
<1>3. Watch(Shorter(key))
  BY DEF removeReport
<1>. QED  BY <1>2, <1>3, WatchKeeps DEF EndedWell, Ends, At

LEMMA NoBuildersChange ==
  ASSUME BuildersInv, UNCHANGED <<variables, reports, eventLinks, builders>>
  PROVE  BuildersInv' /\ EndedWell
BY DEF BuildersInv, EndedWell, Ends, At

\* The builders are told of a variable that loses its value.
LEMMA RegisterVariableKeeps ==
  ASSUME TablesInv, BuildersInv, NEW v \in Vids, RegisterVariable(v)
  PROVE  BuildersInv' /\ EndedWell
<1>1. /\ variables[v] = "absent" /\ variables' = [variables EXCEPT ![v] = "silent"]
      /\ UNCHANGED <<reports, eventLinks, builders>>
  BY DEF RegisterVariable, reportTables
<1>2. \A u \in Vids : variables[u] = "valued" => variables'[u] = "valued"
  BY <1>1 DEF TablesInv
<1>3. ASSUME NEW S, Filled(S, reports, variables)
      PROVE  Filled(S, reports, variables')
  <2>1. \A r \in DOMAIN reports : Elems(reports[r]) \subseteq Vids
    BY SeqElems DEF TablesInv
  <2>. QED  BY <1>2, <1>3, <2>1 DEF Filled
<1>4. \A b \in Builders : builders[b].pc # "idle" =>
        Sees(builders[b], reports, eventLinks, variables')
  BY <1>3 DEF BuildersInv, Sees
<1>5. BuildersInv'
  BY <1>1, <1>4 DEF BuildersInv
<1>. QED  BY <1>1, <1>5 DEF EndedWell, Ends, At

LEMMA SetVariableKeeps ==
  ASSUME BuildersInv, NEW v, SetVariable(v)
  PROVE  BuildersInv' /\ EndedWell
<1>. PICK vs2 : vs2 = variables'
  OBVIOUS
<1>1. /\ builders' = [b \in Builders |->
                        [builders[b] EXCEPT !.full = @ /\ Filled(builders[b].ever, reports, vs2)]]
      /\ UNCHANGED <<reports, eventLinks>>
  BY DEF SetVariable, reportTables
<1>2. ASSUME NEW b \in Builders
      PROVE  /\ BuilderShape(builders'[b]) /\ builders'[b].pc = builders[b].pc
             /\ builders'[b].pc # "idle" =>
                  Sees(builders'[b], reports, eventLinks, vs2) /\ Gathers(builders'[b])
  <2>1. PICK w : w = builders[b]
    OBVIOUS
  <2>2. PICK n : n = builders'[b]
    OBVIOUS
  <2>3. PICK fu : fu = (w.full /\ Filled(w.ever, reports, vs2))
    OBVIOUS
  <2>4. DOMAIN w = BuildFields /\ w.full \in BOOLEAN
    BY <2>1 DEF BuildersInv, BuilderShape
  <2>5. n = [w EXCEPT !.full = fu]
    BY <1>1, <2>1, <2>2, <2>3, <2>4, Zenon
  <2>6. /\ DOMAIN n = BuildFields /\ n.pc = w.pc /\ n.shared = w.shared
        /\ n.ceid = w.ceid /\ n.link = w.link /\ n.keys = w.keys
        /\ n.out = w.out /\ n.on = w.on /\ n.ever = w.ever /\ n.steady = w.steady
        /\ n.full = fu
    BY <2>4, <2>5 DEF BuildFields
  <2>7. fu \in BOOLEAN /\ (fu => w.full /\ Filled(w.ever, reports, vs2))
    BY <2>3, <2>4
  <2>8. /\ BuilderShape(w)
        /\ w.pc # "idle" => Sees(w, reports, eventLinks, variables) /\ Gathers(w)
    BY <2>1 DEF BuildersInv
  <2>9. BuilderShape(n)
    BY <2>6, <2>7, <2>8 DEF BuilderShape
  <2>10. n.pc # "idle" => Sees(n, reports, eventLinks, vs2)
    BY <2>6, <2>7, <2>8 DEF Sees
  <2>11. n.pc # "idle" => Gathers(n)
    BY <2>6, <2>7, <2>8 DEF Gathers
  <2>. QED  BY <2>1, <2>2, <2>6, <2>9, <2>10, <2>11
<1>3. builders' = [b \in Builders |-> builders'[b]]
  BY <1>1
<1>4. BuildersInv'
  BY <1>1, <1>2, <1>3 DEF BuildersInv
<1>. QED  BY <1>2, <1>4 DEF EndedWell, Ends, At

LEMMA GoKeeps ==
  ASSUME BuildersInv, NEW b \in Builders, NEW new, Go(b, new), BuilderShape(new),
         new.pc # "idle" => Sees(new, reports, eventLinks, variables) /\ Gathers(new),
         new.pc = "idle" => EndsWell(builders[b])
  PROVE  BuildersInv' /\ EndedWell
<1>1. /\ builders' = [builders EXCEPT ![b] = new]
      /\ builders = [c \in Builders |-> builders[c]]
      /\ UNCHANGED <<variables, reports, eventLinks>>
  BY DEF Go, reportTables, BuildersInv
<1>2. /\ builders' = [c \in Builders |-> builders'[c]]
      /\ builders'[b] = new /\ \A c \in Builders : c # b => builders'[c] = builders[c]
  BY <1>1
<1>3. BuildersInv'
  BY <1>1, <1>2 DEF BuildersInv
<1>4. EndedWell
  BY <1>2 DEF EndedWell, Ends, At
<1>. QED  BY <1>3, <1>4

LEMMA ParkedShape == BuilderShape(Parked) /\ Parked.pc = "idle"
BY DEF BuilderShape, Parked, BuildFields, BuildSteps

LEMMA BuildingFits ==
  ASSUME NEW ce
  PROVE  LET n == Building(ce)
         IN  BuilderShape(n) /\ Sees(n, reports, eventLinks, variables) /\ Gathers(n) /\ n.pc = "lookup"
<1>. DEFINE n == Building(ce)
<1>1. PICK o : o = IsOn(ce, eventLinks)
  OBVIOUS
<1>2. PICK ev : ev = LinkedTo(ce, eventLinks)
  OBVIOUS
<1>. PICK st : st = Reportable(ce, reports, eventLinks)
  OBVIOUS
<1>. PICK fu : fu = Filled(LinkedTo(ce, eventLinks), reports, variables)
  OBVIOUS
<1>3. /\ DOMAIN n = BuildFields /\ n.pc = "lookup" /\ n.ceid = ce /\ n.shared = FALSE
      /\ n.link = NoLink /\ n.keys = <<>> /\ n.out = <<>> /\ n.on = o
      /\ n.ever = LinkedTo(ce, eventLinks) /\ n.steady = Reportable(ce, reports, eventLinks)
      /\ n.full = fu
  <2>1. n = [Parked EXCEPT !.pc = "lookup", !.ceid = ce, !.on = o, !.ever = ev, !.steady = st,
                           !.full = fu]
    BY <1>1, <1>2 DEF Building
  <2>. HIDE DEF n
  <2>2. PICK w : w = Parked
    OBVIOUS
  <2>3. /\ DOMAIN w = BuildFields
        /\ w.shared = FALSE /\ w.link = NoLink /\ w.keys = <<>> /\ w.out = <<>>
    BY <2>2 DEF BuildFields, Parked
  <2>4. n = [w EXCEPT !.pc = "lookup", !.ceid = ce, !.on = o, !.ever = ev, !.steady = st,
                      !.full = fu]
    BY <2>1, <2>2
  <2>. QED  BY <1>2, <2>3, <2>4 DEF BuildFields
<1>. HIDE DEF n
<1>4. o \in BOOLEAN /\ fu \in BOOLEAN
  BY <1>1 DEF IsOn, Filled
<1>5. NoLink.enabled = FALSE /\ NoLink.reports = <<>>
  BY DEF NoLink
<1>6. Elems(<<>>) = {}
  BY DEF Elems
<1>7. BuilderShape(n)
  BY <1>3, <1>4 DEF BuilderShape, BuildSteps
<1>8. Sees(n, reports, eventLinks, variables)
  BY <1>1, <1>3, <1>5, <1>6 DEF Sees
<1>9. Gathers(n)
  BY <1>3, <1>6 DEF Gathers
<1>. QED  BY <1>3, <1>7, <1>8, <1>9 DEF n

LEMMA DeliverKeeps ==
  ASSUME BuildersInv, NEW b \in Builders, NEW dataID, NEW out, Deliver(b, dataID, out),
         EndsWell(builders[b]), builders[b].pc # "idle",
         out # <<>> => builders[b].pc = "collect" /\ builders[b].keys = <<>>
  PROVE  BuildersInv' /\ EndedWell
<1>1. CASE Go(b, Parked)
  BY <1>1, GoKeeps, ParkedShape
<1>2. CASE Go(b, [builders[b] EXCEPT !.pc = "sent"]) /\ out # <<>>
  <2>1. PICK w : w = builders[b]
    OBVIOUS
  <2>2. /\ BuilderShape(w) /\ w.pc = "collect" /\ w.keys = <<>>
        /\ Sees(w, reports, eventLinks, variables) /\ Gathers(w)
    BY <1>2, <2>1 DEF BuildersInv
  <2>3. PICK n : n = [w EXCEPT !.pc = "sent"]
    OBVIOUS
  <2>4. /\ DOMAIN n = BuildFields /\ n.pc = "sent"
        /\ n.ceid = w.ceid /\ n.shared = w.shared /\ n.link = w.link /\ n.keys = w.keys
        /\ n.out = w.out /\ n.on = w.on /\ n.ever = w.ever /\ n.steady = w.steady
        /\ n.full = w.full
    BY <2>2, <2>3 DEF BuilderShape, BuildFields
  <2>5. BuilderShape(n)
    BY <2>2, <2>4 DEF BuilderShape, BuildSteps
  <2>6. Sees(n, reports, eventLinks, variables)
    BY <2>2, <2>4 DEF Sees
  <2>7. Gathers(n)
    BY <2>2, <2>4 DEF Gathers
  <2>. QED  BY <1>2, <2>1, <2>3, <2>4, <2>5, <2>6, <2>7, GoKeeps
<1>3. CASE Die
  BY <1>3, NoBuildersChange DEF Die, reportTables
<1>. QED  BY <1>1, <1>2, <1>3 DEF Deliver

-----------------------------------------------------------------------------
(* The steps of a build.                                                   *)

LEMMA HeldIs ==
  ASSUME LinksInv, BuildersInv, NEW b \in Builders, builders[b].pc # "idle"
  PROVE  /\ Held(b).enabled => builders[b].on
         /\ Held(b).reports \in Seq(Rptids) /\ Elems(Held(b).reports) \subseteq builders[b].ever
         /\ builders[b].shared => /\ Held(b) = eventLinks[builders[b].ceid]
                                  /\ builders[b].ceid \in DOMAIN eventLinks
<1>1. Sees(builders[b], reports, eventLinks, variables)
  BY DEF BuildersInv
<1>2. CASE builders[b].shared
  BY <1>1, <1>2 DEF Held, Sees, IsOn, LinkedTo, LinksInv, LinkShape
<1>3. CASE ~builders[b].shared
  BY <1>1, <1>3 DEF Held, Sees
<1>. QED  BY <1>2, <1>3

LEMMA LookupKeeps ==
  ASSUME LinksInv, BuildersInv, NEW b \in Builders, Lookup(b)
  PROVE  BuildersInv' /\ EndedWell
<1>. PICK w : w = builders[b]
  OBVIOUS
<1>1. /\ BuilderShape(w) /\ w.pc = "lookup" /\ w.out = <<>>
      /\ Sees(w, reports, eventLinks, variables) /\ Gathers(w)
  BY DEF Lookup, At, BuildersInv, Gathers
<1>2. ASSUME w.ceid \notin DOMAIN eventLinks
      PROVE  EndsWell(w)
  BY <1>1, <1>2 DEF EndsWell, Sees, Reportable, IsOn
<1>3. CASE w.ceid \notin events /\ Deliver(b, 1, <<>>)
  BY <1>1, <1>2, <1>3, DeliverKeeps DEF LinksInv, LinksResolve
<1>4. CASE w.ceid \notin DOMAIN eventLinks /\ Deliver(b, 0, <<>>)
  BY <1>1, <1>2, <1>4, DeliverKeeps
<1>5. CASE w.ceid \in DOMAIN eventLinks /\ Go(b, [w EXCEPT !.pc = "check", !.shared = TRUE])
  <2>1. PICK n : n = [w EXCEPT !.pc = "check", !.shared = TRUE]
    OBVIOUS
  <2>2. /\ DOMAIN n = BuildFields /\ n.pc = "check" /\ n.shared = TRUE
        /\ n.ceid = w.ceid /\ n.link = w.link /\ n.keys = w.keys
        /\ n.out = w.out /\ n.on = w.on /\ n.ever = w.ever /\ n.steady = w.steady
        /\ n.full = w.full
    BY <1>1, <2>1 DEF BuilderShape, BuildFields
  <2>3. BuilderShape(n)
    BY <1>1, <2>2 DEF BuilderShape, BuildSteps
  <2>4. Sees(n, reports, eventLinks, variables)
    BY <1>1, <1>5, <2>2 DEF Sees
  <2>5. Gathers(n)
    BY <1>1, <2>2 DEF Gathers
  <2>. QED  BY <1>5, <2>1, <2>2, <2>3, <2>4, <2>5, GoKeeps
<1>. QED  BY <1>3, <1>4, <1>5 DEF Lookup

LEMMA CheckLinkKeeps ==
  ASSUME LinksInv, BuildersInv, NEW b \in Builders, CheckLink(b)
  PROVE  BuildersInv' /\ EndedWell
<1>. PICK w : w = builders[b]
  OBVIOUS
<1>1. /\ BuilderShape(w) /\ w.pc = "check" /\ w.out = <<>>
      /\ Sees(w, reports, eventLinks, variables) /\ Gathers(w)
  BY DEF CheckLink, At, BuildersInv, Gathers
<1>2. CASE (~Held(b).enabled \/ Held(b).reports = <<>>) /\ Deliver(b, 0, <<>>)
  <2>1. w.steady = {}
    <3>1. CASE w.shared
      <4>1. Held(b) = eventLinks[w.ceid]
        BY <3>1 DEF Held
      <4>2. Elems(<<>>) = {}
        BY DEF Elems
      <4>3. Reportable(w.ceid, reports, eventLinks) = {}
        BY <1>2, <4>1, <4>2 DEF Reportable, IsOn, LinkedTo
      <4>. QED  BY <1>1, <4>3 DEF Sees
    <3>2. CASE ~w.shared
      BY <1>1, <3>2 DEF Gathers
    <3>. QED  BY <3>1, <3>2
  <2>2. EndsWell(w)
    BY <1>1, <2>1 DEF EndsWell
  <2>. QED  BY <1>1, <1>2, <2>2, DeliverKeeps
<1>3. CASE Held(b).enabled /\ Go(b, [w EXCEPT !.pc = "copy"])
  <2>1. PICK n : n = [w EXCEPT !.pc = "copy"]
    OBVIOUS
  <2>2. /\ DOMAIN n = BuildFields /\ n.pc = "copy" /\ n.shared = w.shared
        /\ n.ceid = w.ceid /\ n.link = w.link /\ n.keys = w.keys
        /\ n.out = w.out /\ n.on = w.on /\ n.ever = w.ever /\ n.steady = w.steady
        /\ n.full = w.full
    BY <1>1, <2>1 DEF BuilderShape, BuildFields
  <2>3. BuilderShape(n)
    BY <1>1, <2>2 DEF BuilderShape, BuildSteps
  <2>4. Sees(n, reports, eventLinks, variables)
    BY <1>1, <2>2 DEF Sees
  <2>5. w.on
    BY <1>1, <1>3, HeldIs
  <2>6. Gathers(n)
    BY <1>1, <2>2, <2>5 DEF Gathers
  <2>. QED  BY <1>3, <2>1, <2>2, <2>3, <2>4, <2>6, GoKeeps
<1>. QED  BY <1>2, <1>3 DEF CheckLink

LEMMA CopyKeysKeeps ==
  ASSUME LinksInv, BuildersInv, NEW b \in Builders, CopyKeys(b)
  PROVE  BuildersInv' /\ EndedWell
<1>. PICK w : w = builders[b]
  OBVIOUS
<1>1. /\ BuilderShape(w) /\ w.pc = "copy" /\ w.out = <<>> /\ w.on
      /\ Sees(w, reports, eventLinks, variables) /\ Gathers(w)
  BY DEF CopyKeys, At, BuildersInv, Gathers
<1>2. PICK keys : keys = Held(b).reports
  OBVIOUS
<1>3. keys \in Seq(Rptids) /\ Elems(keys) \subseteq w.ever /\ w.steady \subseteq Elems(keys)
  <2>1. keys \in Seq(Rptids) /\ Elems(keys) \subseteq w.ever
    BY <1>1, <1>2, HeldIs
  <2>2. CASE w.shared
    <3>1. keys = eventLinks[w.ceid].reports
      BY <1>2, <2>2 DEF Held
    <3>2. Reportable(w.ceid, reports, eventLinks) \subseteq Elems(keys)
      BY <3>1 DEF Reportable, LinkedTo, IsOn
    <3>. QED  BY <1>1, <2>1, <3>2 DEF Sees
  <2>3. CASE ~w.shared
    BY <1>1, <2>1, <2>3 DEF Gathers
  <2>. QED  BY <2>2, <2>3
<1>4. PICK n : n = [w EXCEPT !.pc = "collect", !.keys = keys, !.shared = FALSE, !.link = NoLink]
  OBVIOUS
<1>5. /\ DOMAIN n = BuildFields /\ n.pc = "collect" /\ n.shared = FALSE
      /\ n.ceid = w.ceid /\ n.link = NoLink /\ n.keys = keys
      /\ n.out = w.out /\ n.on = w.on /\ n.ever = w.ever /\ n.steady = w.steady
        /\ n.full = w.full
  BY <1>1, <1>4 DEF BuilderShape, BuildFields
<1>6. BuilderShape(n)
  BY <1>1, <1>5 DEF BuilderShape, BuildSteps
<1>7. Elems(<<>>) = {} /\ NoLink.enabled = FALSE /\ NoLink.reports = <<>>
  BY DEF Elems, NoLink
<1>8. Sees(n, reports, eventLinks, variables)
  BY <1>1, <1>5, <1>7 DEF Sees
<1>9. Gathers(n)
  BY <1>1, <1>3, <1>5, <1>7 DEF Gathers
<1>. QED  BY <1>2, <1>4, <1>5, <1>6, <1>8, <1>9, GoKeeps DEF CopyKeys

LEMMA CollectReportKeeps ==
  ASSUME TablesInv, BuildersInv, NEW b \in Builders, CollectReport(b)
  PROVE  BuildersInv' /\ EndedWell
<1>. PICK w : w = builders[b]
  OBVIOUS
<1>1. /\ BuilderShape(w) /\ w.pc = "collect" /\ w.keys # <<>> /\ w.on
      /\ Sees(w, reports, eventLinks, variables) /\ Gathers(w)
  BY DEF CollectReport, At, BuildersInv, Gathers
<1>2. PICK r : r = Head(w.keys)
  OBVIOUS
<1>3. PICK out : out = (IF r \in DOMAIN reports THEN Append(w.out, ReportItem(r)) ELSE w.out)
  OBVIOUS
<1>4. PICK rest : rest = Tail(w.keys)
  OBVIOUS
<1>5. /\ w.keys \in Seq(Rptids) /\ Elems(w.keys) \subseteq w.ever /\ w.out \in Seq(ReportItems)
      /\ \A x \in Elems(w.out) : x \in FullItems => NameIn(x) \in w.ever
      /\ w.full => Elems(w.out) \subseteq FullItems
      /\ w.full =>
           w.steady \subseteq Elems(w.keys) \cup {NameIn(x) : x \in Elems(w.out)}
  BY <1>1 DEF Gathers
<1>6. rest \in Seq(Rptids) /\ Elems(w.keys) = {r} \cup Elems(rest)
  BY <1>1, <1>2, <1>4, <1>5, TailElems
<1>7. ASSUME Panicked \notin Elems(out)
      PROVE
      /\ out \in Seq(ReportItems)
      /\ \A x \in Elems(out) : x \in FullItems => NameIn(x) \in w.ever
      /\ w.full => Elems(out) \subseteq FullItems
      /\ w.full =>
           w.steady \subseteq Elems(rest) \cup {NameIn(x) : x \in Elems(out)}
  <2>1. CASE r \in DOMAIN reports
    <3>1. PICK item : item = ReportItem(r)
      OBVIOUS
    <3>2. /\ item \in ReportItems \cup {Panicked}
          /\ item \in FullItems => NameIn(item) = r
          /\ w.full => item \in FullItems
      <4>1. w.full => Filled({r}, reports, variables)
        BY <1>1, <1>5, <1>6 DEF Sees, Filled
      <4>. QED  BY <2>1, <3>1, <4>1, ReportItemIs
    <3>3. /\ out \in Seq(ReportItems) /\ Elems(out) = Elems(w.out) \cup {item}
      <4>1. /\ Append(w.out, item) \in Seq(ReportItems \cup {Panicked})
            /\ Elems(Append(w.out, item)) = Elems(w.out) \cup {item}
        <5>1. w.out \in Seq(ReportItems \cup {Panicked})
          BY <1>5
        <5>. QED  BY <3>2, <5>1, AppendElems
      <4>2. item # Panicked
        BY <1>3, <1>7, <2>1, <3>1, <4>1
      <4>. QED  BY <1>3, <1>5, <2>1, <3>1, <3>2, <4>2, AppendElems
    <3>4. \A x \in Elems(out) : x \in FullItems => NameIn(x) \in w.ever
      BY <1>5, <1>6, <3>2, <3>3
    <3>5. w.full => Elems(out) \subseteq FullItems
      BY <1>5, <3>2, <3>3
    <3>6. ASSUME w.full
          PROVE  w.steady \subseteq Elems(rest) \cup {NameIn(x) : x \in Elems(out)}
      BY <1>5, <1>6, <3>2, <3>3, <3>6
    <3>. QED  BY <3>3, <3>4, <3>5, <3>6
  <2>2. CASE r \notin DOMAIN reports
    <3>1. r \notin w.steady
      BY <1>1, <2>2 DEF Sees, Reportable
    <3>. QED  BY <1>3, <1>5, <1>6, <2>2, <3>1
  <2>. QED  BY <2>1, <2>2
<1>8. PICK n : n = [w EXCEPT !.keys = rest, !.out = out]
  OBVIOUS
<1>9. /\ DOMAIN n = BuildFields /\ n.pc = "collect" /\ n.shared = w.shared
      /\ n.ceid = w.ceid /\ n.link = w.link /\ n.keys = rest
      /\ n.out = out /\ n.on = w.on /\ n.ever = w.ever /\ n.steady = w.steady
        /\ n.full = w.full
  BY <1>1, <1>8 DEF BuilderShape, BuildFields
<1>10. BuilderShape(n)
  BY <1>1, <1>9 DEF BuilderShape, BuildSteps
<1>11. Sees(n, reports, eventLinks, variables)
  BY <1>1, <1>9 DEF Sees
<1>12. CASE Panicked \notin Elems(out) /\ Go(b, n)
  <2>1. Gathers(n)
    BY <1>1, <1>5, <1>6, <1>7, <1>9, <1>12 DEF Gathers
  <2>. QED  BY <1>9, <1>10, <1>11, <1>12, <2>1, GoKeeps
<1>13. CASE Die
  BY <1>13, NoBuildersChange DEF Die, reportTables
<1>14. Die \/ (Panicked \notin Elems(out) /\ Go(b, n))
  BY <1>2, <1>3, <1>4, <1>8 DEF CollectReport
<1>. QED  BY <1>12, <1>13, <1>14

LEMMA BuildFits ==
  ASSUME LinksInv, TablesInv, BuildersInv, NEW b \in Builders, Build(b) \/ onS6F11(b)
  PROVE  BuildersInv' /\ EndedWell
<1>1. CASE FinishReport(b)
  <2>1. builders[b].pc = "collect" /\ builders[b].keys = <<>> /\ EndsWell(builders[b])
    BY <1>1 DEF FinishReport, At, EndsWell
  <2>. QED  BY <1>1, <2>1, DeliverKeeps DEF FinishReport
<1>2. CASE onS6F11(b)
  <2>1. EndsWell(builders[b])
    BY <1>2 DEF onS6F11, At, EndsWell, BuildersInv, Gathers
  <2>. QED  BY <1>2, <2>1, GoKeeps, ParkedShape DEF onS6F11
<1>. QED  BY <1>1, <1>2, LookupKeeps, CheckLinkKeeps, CopyKeysKeeps, CollectReportKeeps DEF Build

-----------------------------------------------------------------------------
(* The tables and the message that is applied.                             *)

LEMMA ContinuedTables ==
  ASSUME LinksInv, NEW fn, Continue(fn), NEW S, NEW pc, rx.pc = pc,
         rx.rest \in Seq(S), rx.rest # <<>>
  PROVE  rx'.pc = "reply" \/ (rx'.pc = pc /\ rx'.rest \in Seq(S) /\ rx'.rest # <<>>)
<1>1. CASE Len(rx.rest) = 1
  BY <1>1 DEF Continue, ReplyReport, Waiting
<1>2. CASE Len(rx.rest) # 1
  <2>1. RxShape /\ rx' = [rx EXCEPT !.rest = Tail(@)]
    BY <1>2 DEF Continue, LinksInv
  <2>2. rx'.pc = pc /\ rx'.rest = Tail(rx.rest)
    BY <2>1 DEF RxShape
  <2>3. PICK s : s = rx.rest
    OBVIOUS
  <2>4. Tail(s) \in Seq(S) /\ Tail(s) # <<>>
    BY <1>2, <2>3, TailMore
  <2>. QED  BY <2>2, <2>3, <2>4
<1>. QED  BY <1>1, <1>2

\* The message changes and the tables do not.
LEMMA RxTables ==
  ASSUME TablesInv, UNCHANGED <<variables, events, reports>>,
         \/ UNCHANGED rx
         \/ rx'.pc \in {"idle", "link", "report", "reply", "dead"}
         \/ rx'.pc = "define" /\ rx'.rest \in Seq(DefineEntry) /\ rx'.rest # <<>>
         \/ rx'.pc = "enable" /\ rx'.rest \in Seq(Ceids) /\ rx'.rest # <<>>
  PROVE  TablesInv'
BY DEF TablesInv

LEMMA RefusedTables ==
  ASSUME TablesInv, NEW fn, NEW ack, Refuse(fn, ack)
  PROVE  TablesInv'
<1>1. rx'.pc = "reply"
  BY DEF Refuse, ReplyReport, Waiting
<1>. QED  BY <1>1, RxTables DEF Refuse, reportTables

LEMMA DeliveredTables ==
  ASSUME TablesInv, NEW b, NEW dataID, NEW out, Deliver(b, dataID, out)
  PROVE  TablesInv'
<1>1. UNCHANGED <<variables, events, reports>>
  BY DEF Deliver, Die, Go, reportTables
<1>2. UNCHANGED rx \/ rx'.pc = "reply" \/ rx'.pc = "dead"
  BY DEF Deliver, Die, ReplyReport, Waiting
<1>. QED  BY <1>1, <1>2, RxTables

LEMMA BuildTables ==
  ASSUME TablesInv, NEW b, Build(b) \/ onS6F11(b)
  PROVE  TablesInv'
<1>1. ASSUME NEW new, Go(b, new), UNCHANGED rx
      PROVE  TablesInv'
  BY <1>1, RxTables DEF Go, reportTables
<1>2. CASE Die
  <2>1. rx'.pc = "dead"
    BY <1>2 DEF Die, Waiting
  <2>. QED  BY <1>2, <2>1, RxTables DEF Die, reportTables
<1>. QED  BY <1>1, <1>2, DeliveredTables
             DEF Build, Lookup, CheckLink, CopyKeys, CollectReport, FinishReport, onS6F11

LEMMA DefineTables ==
  ASSUME TablesInv, NEW body \in DefineBodies, onS2F33(body)
  PROVE  TablesInv'
<1>1. CASE ClearAll
  <2>1. rx'.pc = "reply" /\ DOMAIN reports' = {} /\ UNCHANGED <<variables, events>>
    BY <1>1 DEF ClearAll, ReplyReport, Waiting
  <2>. QED  BY <2>1 DEF TablesInv
<1>2. CASE AreEntries(body) /\ Entries(body) # <<>> /\ Start("define", Entries(body), FALSE)
  <2>1. rx'.pc = "define" /\ rx'.rest = Entries(body) /\ Entries(body) \in Seq(DefineEntry)
    BY <1>2, ReportsAssumption DEF Start, Waiting
  <2>. QED  BY <1>2, <2>1, RxTables DEF Start, reportTables
<1>. QED  BY <1>1, <1>2, RefusedTables DEF onS2F33

LEMMA DefineNextTables ==
  ASSUME LinksInv, TablesInv, DefineNext
  PROVE  TablesInv'
<1>1. /\ rx.rest \in Seq(DefineEntry) /\ rx.rest # <<>> /\ UNCHANGED <<variables, events>>
      /\ rx.pc = "define" /\ Continue(34)
  BY DEF DefineNext, TablesInv
<1>2. \/ rx'.pc = "reply"
      \/ rx'.pc = "define" /\ rx'.rest \in Seq(DefineEntry) /\ rx'.rest # <<>>
  BY <1>1, ContinuedTables
<1>3. PICK e : e = Head(rx.rest)
  OBVIOUS
<1>4. e.id \in Rptids /\ e.ids \in Seq(Vids)
  <2>1. e \in DefineEntry
    BY <1>1, <1>3, HeadTailProperties
  <2>. QED  BY <2>1 DEF DefineEntry
<1>5. /\ DOMAIN reports' \subseteq Rptids
      /\ \A r \in DOMAIN reports' : reports'[r] \in Seq(Vids) /\ reports'[r] # <<>>
  <2>1. CASE reports' = Without(reports, e.id)
    BY <2>1 DEF Without, TablesInv
  <2>2. CASE e.ids # <<>> /\ reports' = With(reports, e.id, e.ids)
    <3>1. \A r \in DOMAIN reports' : \/ r \in DOMAIN reports /\ reports'[r] = reports[r]
                                     \/ r = e.id /\ reports'[r] = e.ids
      BY <2>2 DEF With
    <3>. QED  BY <1>4, <2>2, <3>1 DEF TablesInv
  <2>. QED  BY <1>3, <2>1, <2>2 DEF DefineNext, removeReport
<1>. QED  BY <1>1, <1>2, <1>5 DEF TablesInv

LEMMA LinkTables ==
  ASSUME TablesInv, NEW body, onS2F35(body)
  PROVE  TablesInv'
<1>1. CASE Start("link", Entries(body), FALSE)
  <2>1. rx'.pc = "link"
    BY <1>1 DEF Start, Waiting
  <2>. QED  BY <1>1, <2>1, RxTables DEF Start, reportTables
<1>. QED  BY <1>1, RefusedTables DEF onS2F35

LEMMA LinkNextTables ==
  ASSUME LinksInv, TablesInv, LinkNext
  PROVE  TablesInv'
<1>1. RxShape /\ Continue(36) /\ rx.pc = "link" /\ UNCHANGED <<variables, events, reports>>
  BY DEF LinkNext, LinksInv
<1>2. rx'.pc = "reply" \/ rx'.pc = "link"
  BY <1>1 DEF Continue, ReplyReport, Waiting, RxShape
<1>. QED  BY <1>1, <1>2, RxTables

LEMMA EnableTables ==
  ASSUME TablesInv, NEW body \in EnableBodies, onS2F37(body)
  PROVE  TablesInv'
<1>1. ASSUME NEW enable, EnableEvery(enable)
      PROVE  TablesInv'
  <2>1. rx'.pc = "reply" /\ UNCHANGED <<variables, events, reports>>
    BY <1>1 DEF EnableEvery, ReplyReport, Waiting
  <2>. QED  BY <2>1, RxTables
<1>2. ASSUME NEW enable, IsEventEnable(body), Names(Elements(body)[2]) # <<>>,
             Start("enable", Names(Elements(body)[2]), enable)
      PROVE  TablesInv'
  <2>. DEFINE ids == Names(Elements(body)[2])
  <2>1. rx'.pc = "enable" /\ rx'.rest = ids /\ UNCHANGED <<variables, events, reports>>
    BY <1>2 DEF Start, Waiting, reportTables
  <2>2. ids \in Seq(Ceids)
    BY <1>2, EnableAssumption
  <2>. QED  BY <1>2, <2>1, <2>2, RxTables
<1>. QED  BY <1>1, <1>2, RefusedTables DEF onS2F37

LEMMA EnableNextTables ==
  ASSUME LinksInv, TablesInv, EnableNext
  PROVE  TablesInv'
<1>1. rx.rest \in Seq(Ceids) /\ rx.rest # <<>> /\ UNCHANGED <<variables, events, reports>>
  BY DEF EnableNext, TablesInv
<1>2. CASE Continue(38)
  BY <1>1, <1>2, ContinuedTables, RxTables DEF EnableNext
<1>3. CASE ReplyReport(38, Bin(1))
  BY <1>1, <1>3, RxTables DEF ReplyReport, Waiting
<1>. QED  BY <1>2, <1>3 DEF EnableNext

-----------------------------------------------------------------------------
(* Every step keeps the invariant, and ends builds only where they may.    *)

LEMMA ReportsStart == ReportsInit => ReportsInv
<1>. SUFFICES ASSUME ReportsInit PROVE ReportsInv
  OBVIOUS
<1>1. TablesInv
  <2>1. variables \in [Vids -> {"absent", "silent", "valued"}]
    BY DEF ReportsInit
  <2>2. events = {} /\ DOMAIN reports = {} /\ rx.pc = "idle"
    BY DEF ReportsInit, Waiting
  <2>. QED  BY <2>1, <2>2 DEF TablesInv
<1>2. BuildersInv
  BY ParkedShape DEF ReportsInit, BuildersInv
<1>. QED  BY <1>1, <1>2, LinksInit DEF ReportsInv

LEMMA ApplicationFits ==
  ASSUME ReportsInv, Application
  PROVE  TablesInv' /\ BuildersInv' /\ EndedWell
<1>. USE DEF ReportsInv
<1>1. ASSUME NEW v \in Vids, RegisterVariable(v) \/ SetVariable(v)
      PROVE  TablesInv' /\ BuildersInv' /\ EndedWell
  <2>1. variables' \in [Vids -> {"absent", "silent", "valued"}]
    BY <1>1 DEF RegisterVariable, SetVariable, TablesInv
  <2>2. UNCHANGED <<events, reports, rx>>
    BY <1>1 DEF RegisterVariable, SetVariable, reportTables
  <2>3. TablesInv'
    BY <2>1, <2>2 DEF TablesInv
  <2>. QED  BY <1>1, <2>3, RegisterVariableKeeps, SetVariableKeeps
<1>2. ASSUME NEW ce \in Ceids, RegisterCollectionEvent(ce)
      PROVE  TablesInv' /\ BuildersInv' /\ EndedWell
  <2>1. TablesInv'
    BY <1>2 DEF RegisterCollectionEvent, reportTables, TablesInv
  <2>. QED  BY <1>2, <2>1, NoBuildersChange DEF RegisterCollectionEvent, reportTables
<1>3. ASSUME NEW b \in Triggers, NEW ce \in Ceids, TriggerCollectionEvent(b, ce)
      PROVE  TablesInv' /\ BuildersInv' /\ EndedWell
  <2>1. TablesInv'
    BY <1>3, RxTables DEF TriggerCollectionEvent, Go, reportTables
  <2>2. /\ b \in Builders /\ Go(b, Building(ce)) /\ BuilderShape(Building(ce))
        /\ Building(ce).pc = "lookup" /\ Gathers(Building(ce))
        /\ Sees(Building(ce), reports, eventLinks, variables)
    BY <1>3, BuildingFits DEF TriggerCollectionEvent, Builders
  <2>. QED  BY <2>1, <2>2, GoKeeps
<1>. QED  BY <1>1, <1>2, <1>3 DEF Application

LEMMA ReceiverFits ==
  ASSUME ReportsInv, Receiver
  PROVE  TablesInv' /\ BuildersInv' /\ EndedWell
<1>. USE DEF ReportsInv
<1>1. ASSUME NEW fn, NEW ack, Refuse(fn, ack)
      PROVE  BuildersInv' /\ EndedWell
  BY <1>1, NoBuildersChange DEF Refuse, reportTables
<1>2. ASSUME NEW pc, NEW rest, NEW enable, Start(pc, rest, enable)
      PROVE  BuildersInv' /\ EndedWell
  BY <1>2, NoBuildersChange DEF Start, reportTables
<1>3. ASSUME NEW body \in DefineBodies, onS2F33(body)
      PROVE  TablesInv' /\ BuildersInv' /\ EndedWell
  BY <1>1, <1>2, <1>3, OwnLinksKeep, DefineTables DEF onS2F33, ClearAll
<1>4. ASSUME NEW body \in LinkBodies, onS2F35(body)
      PROVE  TablesInv' /\ BuildersInv' /\ EndedWell
  BY <1>1, <1>2, <1>4, LinkTables DEF onS2F35
<1>5. ASSUME NEW body \in EnableBodies, onS2F37(body)
      PROVE  TablesInv' /\ BuildersInv' /\ EndedWell
  BY <1>1, <1>2, <1>5, OwnLinksKeep, EnableTables DEF onS2F37, EnableEvery
<1>6. ASSUME NEW body \in ReportBodies, onS6F15(body)
      PROVE  TablesInv' /\ BuildersInv' /\ EndedWell
  <2>1. CASE UNCHANGED <<variables, events, reportTables, builders>> /\ ReplyReport(616, EventItem(1, Empty, <<>>))
    <3>1. rx'.pc = "reply"
      BY <2>1 DEF ReplyReport, Waiting
    <3>2. TablesInv'
      BY <2>1, <3>1, RxTables DEF reportTables
    <3>. QED  BY <2>1, <3>2, NoBuildersChange DEF reportTables
  <2>2. ASSUME NEW ce, rx' = [Waiting EXCEPT !.pc = "report"], Go("rx", Building(ce))
        PROVE  TablesInv' /\ BuildersInv' /\ EndedWell
    <3>1. rx'.pc = "report"
      BY <2>2 DEF Waiting
    <3>2. TablesInv'
      BY <2>2, <3>1, RxTables DEF Go, reportTables
    <3>3. /\ "rx" \in Builders /\ BuilderShape(Building(ce)) /\ Building(ce).pc = "lookup"
          /\ Gathers(Building(ce)) /\ Sees(Building(ce), reports, eventLinks, variables)
      BY BuildingFits DEF Builders
    <3>. QED  BY <2>2, <3>2, <3>3, GoKeeps
  <2>. QED  BY <1>6, <2>1, <2>2 DEF onS6F15
<1>7. CASE DefineNext
  BY <1>7, DefineNextTables, OwnLinksKeep, ShorterLinksKeep DEF DefineNext
<1>8. CASE LinkNext
  BY <1>8, LinkNextTables, OwnLinksKeep DEF LinkNext
<1>9. CASE EnableNext
  BY <1>9, EnableNextTables, OwnLinksKeep DEF EnableNext
<1>10. CASE ReportReturned
  <2>1. rx'.pc = "idle"
    BY <1>10 DEF ReportReturned, Waiting
  <2>2. TablesInv'
    BY <1>10, <2>1, RxTables DEF ReportReturned, reportTables
  <2>. QED  BY <1>10, <2>2, NoBuildersChange DEF ReportReturned, reportTables
<1>. QED  BY <1>3, <1>4, <1>5, <1>6, <1>7, <1>8, <1>9, <1>10 DEF Receiver

LEMMA ReportsStep ==
  ASSUME ReportsInv, [ReportsNext]_reportVars
  PROVE  ReportsInv' /\ EndedWell
<1>1. LinksInv'
  BY LinksStep DEF ReportsInv
<1>2. TablesInv' /\ BuildersInv' /\ EndedWell
  <2>1. CASE UNCHANGED reportVars
    <3>1. TablesInv'
      BY <2>1, RxTables DEF reportVars, reportTables, ReportsInv
    <3>. QED  BY <2>1, <3>1, NoBuildersChange DEF reportVars, reportTables, ReportsInv
  <2>2. CASE \E b \in Builders : Build(b) \/ onS6F11(b)
    BY <2>2, BuildTables, BuildFits DEF ReportsInv
  <2>. QED  BY <2>1, <2>2, ApplicationFits, ReceiverFits DEF ReportsNext
<1>. QED  BY <1>1, <1>2 DEF ReportsInv

\* What a message tells when its build ends or the host takes it.
LEMMA EndTells ==
  ASSUME ReportsInv, NEW b \in Builders, builders[b].pc # "idle", EndsWell(builders[b])
  PROVE  /\ Heard(b) # {} => Heard(b) \subseteq builders[b].ever /\ builders[b].on
         /\ builders[b].full /\ Len(builders[b].out) < Byte =>
              builders[b].steady \subseteq Heard(b)
<1>. PICK w : w = builders[b]
  OBVIOUS
<1>1. /\ Gathers(w) /\ w.out \in Seq(ReportItems)
      /\ \A x \in Elems(w.out) : x \in FullItems => NameIn(x) \in w.ever
      /\ w.full => Elems(w.out) \subseteq FullItems
  BY DEF ReportsInv, BuildersInv, Gathers
<1>2. /\ Heard(b) # {} => Elems(w.out) \subseteq FullItems
      /\ Heard(b) \subseteq {NameIn(x) : x \in Elems(w.out)}
      /\ Elems(w.out) \subseteq FullItems /\ Len(w.out) < Byte =>
           Heard(b) = {NameIn(x) : x \in Elems(w.out)}
  BY <1>1, HeardIs DEF Heard
<1>3. Elems(<<>>) = {}
  BY DEF Elems
<1>4. CASE w.out = <<>> /\ w.steady = {}
  BY <1>2, <1>3, <1>4
<1>5. CASE w.pc \in {"collect", "sent"} /\ w.keys = <<>>
  <2>1. w.on /\ (w.full => w.steady \subseteq {NameIn(x) : x \in Elems(w.out)})
    BY <1>1, <1>3, <1>5 DEF Gathers
  <2>. QED  BY <1>1, <1>2, <2>1
<1>. QED  BY <1>4, <1>5 DEF EndsWell

\* The equipment dies of an item that is not whole.
LEMMA DeliverDies ==
  ASSUME ReportsInv, NEW b \in Builders, NEW dataID, NEW out, Deliver(b, dataID, out),
         rx'.pc = "dead", rx.pc # "dead", builders[b].pc # "idle",
         out = <<>> \/ out = builders[b].out
  PROVE  ~builders[b].full
<1>. PICK w : w = builders[b]
  OBVIOUS
<1>1. w.out \in Seq(ReportItems) /\ (w.full => Elems(w.out) \subseteq FullItems)
  BY DEF ReportsInv, BuildersInv, Gathers
<1>2. EventItem(dataID, Id(w.ceid), out) = Panicked
  BY DEF Deliver, ReplyReport, Waiting
<1>3. ~Sound(Panicked)
  BY DEF Sound
<1>4. Elems(<<>>) = {} /\ <<>> \in Seq(ReportItems)
  BY DEF Elems
<1>5. out \in Seq(ReportItems) /\ (w.full => Elems(out) \subseteq FullItems)
  BY <1>1, <1>4
<1>. QED  BY <1>2, <1>3, <1>5, HeardIs

LEMMA DeathTells ==
  ASSUME ReportsInv, ReportsNext, rx'.pc = "dead"
  PROVE  \E b \in Builders : ~builders[b].full
<1>1. rx.pc # "dead"
  BY DEF ReportsNext
<1>2. ~Application
  BY <1>1 DEF Application, RegisterVariable, SetVariable, RegisterCollectionEvent,
              TriggerCollectionEvent
<1>3. ASSUME NEW fn, Continue(fn)
      PROVE  FALSE
  BY <1>1, <1>3 DEF Continue, ReplyReport, Waiting, ReportsInv, LinksInv, RxShape
<1>4. ASSUME NEW fn, NEW body, ReplyReport(fn, body)
      PROVE  FALSE
  BY <1>4 DEF ReplyReport, Waiting
<1>5. ~Receiver
  <2>1. \A pc, rest, enable : pc # "dead" => ~Start(pc, rest, enable)
    BY DEF Start, Waiting
  <2>2. \A fn, ack : ~Refuse(fn, ack)
    BY <1>4 DEF Refuse
  <2>3. \A body : ~onS2F33(body) /\ ~onS2F35(body) /\ ~onS2F37(body)
    BY <1>4, <2>1, <2>2 DEF onS2F33, ClearAll, onS2F35, onS2F37, EnableEvery
  <2>4. \A body : ~onS6F15(body)
    BY <1>4 DEF onS6F15, Waiting
  <2>5. ~DefineNext /\ ~LinkNext /\ ~EnableNext
    BY <1>3, <1>4 DEF DefineNext, LinkNext, EnableNext
  <2>6. ~ReportReturned
    BY DEF ReportReturned, Waiting
  <2>. QED  BY <2>3, <2>4, <2>5, <2>6 DEF Receiver
<1>6. PICK b \in Builders : Build(b) \/ onS6F11(b)
  BY <1>2, <1>5 DEF ReportsNext
<1>7. CASE Lookup(b)
  BY <1>1, <1>7, DeliverDies DEF Lookup, At
<1>8. CASE CheckLink(b)
  BY <1>1, <1>8, DeliverDies DEF CheckLink, At
<1>9. CASE CopyKeys(b) \/ onS6F11(b)
  BY <1>1, <1>9 DEF CopyKeys, onS6F11
<1>10. CASE FinishReport(b)
  BY <1>1, <1>10, DeliverDies DEF FinishReport, At
<1>11. CASE CollectReport(b)
  <2>. PICK w : w = builders[b]
    OBVIOUS
  <2>1. /\ w.pc = "collect" /\ w.keys # <<>>
        /\ Sees(w, reports, eventLinks, variables) /\ Gathers(w)
    BY <1>11 DEF CollectReport, At, ReportsInv, BuildersInv
  <2>2. PICK r : r = Head(w.keys)
    OBVIOUS
  <2>3. PICK out : out = (IF r \in DOMAIN reports THEN Append(w.out, ReportItem(r)) ELSE w.out)
    OBVIOUS
  <2>4. Panicked \in Elems(out)
    BY <1>1, <1>11, <2>2, <2>3 DEF CollectReport
  <2>5. /\ w.out \in Seq(ReportItems) /\ Elems(w.out) \subseteq ReportItems
        /\ Elems(w.keys) \subseteq w.ever /\ r \in Elems(w.keys)
    BY <2>1, <2>2, SeqElems, TailElems DEF Gathers
  <2>6. \A x \in ReportItems : x # Panicked
    BY SoundItems, ItemIs DEF ReportItems, Sound
  <2>7. r \in DOMAIN reports
    BY <2>3, <2>4, <2>5, <2>6
  <2>8. PICK item : item = ReportItem(r)
    OBVIOUS
  <2>9. item \in ReportItems \cup {Panicked} /\ (Filled({r}, reports, variables) => item \in FullItems)
    BY <2>7, <2>8, ReportItemIs DEF ReportsInv
  <2>10. item = Panicked
    <3>1. SUFFICES ASSUME item \in ReportItems PROVE FALSE
      BY <2>9
    <3>2. Elems(Append(w.out, item)) = Elems(w.out) \cup {item}
      BY <2>5, <3>1, AppendElems
    <3>. QED  BY <2>3, <2>4, <2>5, <2>6, <2>7, <2>8, <3>1, <3>2
  <2>11. ~Filled({r}, reports, variables)
    BY <2>6, <2>9, <2>10 DEF ReportItems
  <2>. QED  BY <2>1, <2>5, <2>11 DEF Sees, Filled
<1>. QED  BY <1>6, <1>7, <1>8, <1>9, <1>10, <1>11 DEF Build

(* What the host reads was linked to the event while the message was       *)
(* built, and the event was enabled then: CheckLink tests a flag that was  *)
(* on at that instant or when the link left the table (Sees), CopyKeys     *)
(* takes reports that were linked (Gathers), and no other goroutine writes *)
(* what a builder has collected.                                           *)
THEOREM ReportsSupportedHolds == ReportsSpec => ReportsSupported
<1>1. ReportsInv /\ [ReportsNext]_reportVars =>
        [\A b \in Builders : Ends(b) /\ Heard(b) # {} =>
           Heard(b) \subseteq builders[b].ever /\ builders[b].on]_reportVars
  <2>. SUFFICES ASSUME ReportsInv, [ReportsNext]_reportVars, NEW b \in Builders, Ends(b), Heard(b) # {}
                PROVE  Heard(b) \subseteq builders[b].ever /\ builders[b].on
    OBVIOUS
  <2>1. builders[b].pc # "idle" /\ EndsWell(builders[b])
    BY ReportsStep DEF Ends, At, EndedWell
  <2>. QED  BY <2>1, EndTells
<1>2. ReportsInv /\ [ReportsNext]_reportVars => ReportsInv'
  BY ReportsStep
<1>. QED  BY ReportsStart, <1>1, <1>2, PTL DEF ReportsSpec, ReportsSupported

(* A report that stays defined, linked and enabled through the build is in *)
(* the message, which is sent, unless a variable of a linked report had no *)
(* value: between the link and the end it is among the keys that are left  *)
(* or the items that are ready, and those are whole.  An item that panics  *)
(* is of a report linked during the build, with such a variable.           *)
THEOREM SteadyReportsSentHolds == ReportsSpec => SteadyReportsSent
<1>1. ReportsInv /\ [ReportsNext]_reportVars =>
        [/\ \A b \in Builders :
              Ends(b) /\ builders[b].full /\ Len(builders[b].out) < Byte =>
                builders[b].steady \subseteq Heard(b)
         /\ rx'.pc = "dead" => \E b \in Builders : ~builders[b].full]_reportVars
  <2>1. ASSUME ReportsInv, [ReportsNext]_reportVars, NEW b \in Builders, Ends(b),
               builders[b].full, Len(builders[b].out) < Byte
        PROVE  builders[b].steady \subseteq Heard(b)
    <3>1. builders[b].pc # "idle" /\ EndsWell(builders[b])
      BY <2>1, ReportsStep DEF Ends, At, EndedWell
    <3>. QED  BY <2>1, <3>1, EndTells
  <2>2. ASSUME ReportsInv, ReportsNext, rx'.pc = "dead"
        PROVE  \E b \in Builders : ~builders[b].full
    BY <2>2, DeathTells
  <2>. QED  BY <2>1, <2>2
<1>2. ReportsInv /\ [ReportsNext]_reportVars => ReportsInv'
  BY ReportsStep
<1>. QED  BY ReportsStart, <1>1, <1>2, PTL DEF ReportsSpec, SteadyReportsSent

(* The tables, the message that is applied and the links the builders hold *)
(* keep their shape; a loop that applies entries has one left.             *)
THEOREM ReportsTypeOKHolds == ReportsSpec => []ReportsTypeOK
<1>1. ReportsInv => ReportsTypeOK
  <2>. SUFFICES ASSUME ReportsInv PROVE ReportsTypeOK
    OBVIOUS
  <2>1. ASSUME NEW S, NEW s \in Seq(S)
        PROVE  Elems(s) \subseteq S
    BY LenProperties, ElementOfSeq DEF Elems
  <2>2. \A r \in DOMAIN reports : reports[r] # <<>> /\ Elems(reports[r]) \subseteq Vids
    BY <2>1 DEF ReportsInv, TablesInv
  <2>3. \A ce \in DOMAIN eventLinks : Elems(eventLinks[ce].reports) \subseteq Rptids
    BY <2>1 DEF ReportsInv, LinksInv, LinkShape
  <2>4. Locked => rx.rest # <<>>
    BY DEF Locked, ReportsInv, LinksInv, TablesInv, Checked
  <2>5. \A b \in Builders : builders[b].shared => builders[b].ceid \in DOMAIN eventLinks
    BY DEF ReportsInv, BuildersInv, BuilderShape, Sees
  <2>. QED  BY <2>2, <2>3, <2>4, <2>5 DEF ReportsTypeOK, ReportsInv, TablesInv
<1>2. ReportsInv /\ [ReportsNext]_reportVars => ReportsInv'
  BY ReportsStep
<1>. QED  BY ReportsStart, <1>1, <1>2, PTL DEF ReportsSpec
=============================================================================
