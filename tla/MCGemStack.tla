----------------------------- MODULE MCGemStack -----------------------------
(* Small instances of GemStack for TLC.                                    *)
EXTENDS GemStack

CONSTANTS
  v1, r1, r2, c1, c2, t1,            \* reports
  sv1, sv2, ec1, ec2, lo, hi, none,  \* data
  p1, p2,                            \* alarms
  rec, go, x,                         \* commands
  s1, s2, k1, w1, w2                 \* link

\* Reports: entries that define, redefine and delete; links with two reports, and
\* with three, one of them twice, that are too many for a list.
Entry(id, ids) == [id |-> id, ids |-> ids]

MCDefines ==
  {EntryBody(<<Entry(r1, <<v1>>), Entry(r2, <<v1>>)>>), EntryBody(<<Entry(r1, <<>>)>>),
   L(<<>>), Id(r1)}
MCLinks ==
  {EntryBody(<<Entry(c1, <<r1, r2>>)>>), EntryBody(<<Entry(c1, <<>>)>>),
   EntryBody(<<Entry(c2, <<r1, r1>>), Entry(c2, <<r2>>)>>), EntryBody(<<>>), Id(c1)}
MCEnables ==
  {L(<<Bool(FALSE), L(<<Id(c1), Id(c2)>>)>>), L(<<Bin(1), L(<<>>)>>), Id(c1)}
MCReports == {L(<<Id(c1)>>), Bool(TRUE)}

\* Data: ec1 is stored and may hold either value, ec2 is given by a provider
\* and set through an updater; ec1 has both bounds and ec2 only one.
\* Lists of three identifiers or updates are too long.
Update(id, v) == [id |-> id, value |-> v]

MCIdLists == {<<>>, <<sv1>>, <<sv2, sv1>>, <<ec1, ec2>>, <<ec1, sv1>>,
   <<sv1, sv1, sv2>>}
MCUpdates ==
  {<<Update(ec1, hi), Update(ec2, lo)>>, <<Update(ec2, hi), Update(ec1, lo)>>,
   <<Update(ec2, lo), Update(ec1, lo), Update(ec2, lo)>>,
   <<Update(ec1, lo), Update(sv1, hi)>>}
MCOddBodies ==
  {Empty, L(<<Bool(TRUE), Id(sv1)>>), L(<<L(<<Id(ec1), Id(hi)>>), Id(ec2)>>)}
MCValid == [ec \in {ec1, ec2} |-> IF ec = ec1 THEN {lo, hi} ELSE {lo}]

\* Alarms: known and unknown ones, and a body without its list.
MCAlarmBodies ==
  {AlarmBody(<<1>>, FALSE), AlarmBody(<<1, 2>>, TRUE), AlarmBody(<<2, 9>>, FALSE), L(<<Bin(0)>>)}

\* Three alarms are too many for a list.  While the third is there none is raised:
\* it is for the lists, and two are enough for the races.
ThirdIsQuiet ==
  3 \in DOMAIN alarms => wire = <<>> /\ \A p \in Raisers : raisers[p] = NoMessage

\* Commands: without parameters, with one, with one or two that have no value,
\* with three, too many for a list; the bodies of a host that is not this
\* library; and codes and another item that a text may be read as.
Param(v) == [name |-> x, value |-> v]
MCCommands ==
  {[name |-> go, params |-> <<>>], [name |-> go, params |-> <<Param(x)>>],
   [name |-> go, params |-> <<Param(x), Param(none)>>],
   [name |-> go, params |-> <<Param(none), Param(none)>>],
   [name |-> go, params |-> <<Param(x), Param(x), Param(x)>>]}
Odd(fn, body) == [fn |-> fn, body |-> body]
MCOddRequests ==
  {Odd("S7F3", Id(rec)), Odd("S7F3", L(<<Id(rec), Bin(1)>>)),
   Odd("S7F5", L(<<>>)), Odd("S7F5", L(<<Id(rec)>>)),
   Odd("S2F41", L(<<Id(go), L(<<L(<<Id(x)>>), Id(x)>>)>>)), Odd("S2F41", Id(go)),
   Odd("S2F31", Text(10))}

MCMisread == {Bin(0), Bin(1), Id(x)}

\* Dispatch: both entities start with the same number; an unknown stream and
\* an unknown function of a known one.
MCForeign == {<<40, 1>>, <<2, 21>>}
MCUsed    == {<<1, 1>>, <<1, 13>>, <<2, 41>>, <<5, 1>>} \cup MCForeign
MCStarts  == [e \in Entities |-> 0]

\* Link: both sessions in one map of the manager.
MCMapOf == [s \in {s1, s2} |-> 1]
=============================================================================
