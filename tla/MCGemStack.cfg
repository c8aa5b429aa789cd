CONSTANTS
  Byte = 3
  v1 = v1
  r1 = r1
  r2 = r2
  c1 = c1
  c2 = c2
  t1 = t1
  Vids = {v1}
  Rptids = {r1, r2}
  Ceids = {c1, c2}
  Triggers = {t1}
  DefineBodies <- MCDefines
  LinkBodies <- MCLinks
  EnableBodies <- MCEnables
  ReportBodies <- MCReports
  sv1 = sv1
  sv2 = sv2
  ec1 = ec1
  ec2 = ec2
  lo = lo
  hi = hi
  none = none
  Svids = {sv1, sv2}
  Ecids = {ec1, ec2}
  Values = {lo, hi}
  None = none
  Default = lo
  Driven = {ec2}
  Fixed = {}
  WithMin = {ec1, ec2}
  WithMax = {ec1}
  Valid <- MCValid
  IdLists <- MCIdLists
  UpdateLists <- MCUpdates
  OddBodies <- MCOddBodies
  p1 = p1
  p2 = p2
  Alids = {1, 2, 3}
  Raisers = {p1, p2}
  AlarmBodies <- MCAlarmBodies
  MaxWire = 1
  rec = rec
  go = go
  x = x
  Ppids = {rec}
  Sizes = {2, 4}
  Commands <- MCCommands
  Absent = none
  Acks = {0, 1, 9}
  OddRequests <- MCOddRequests
  Misread <- MCMisread
  MaxCalls = 2
  Starts <- MCStarts
  ForeignRequests <- MCForeign
  Used <- MCUsed
  MaxSent = 2
  s1 = s1
  s2 = s2
  k1 = k1
  w1 = w1
  w2 = w2
  NoOne = none
  Sessions = {s1, s2}
  Keys = {k1}
  Workers = {w1, w2}
  Senders = {w1}
  MapOf <- MCMapOf
  MapCount = 1
  Parts = {"reports", "data", "alarms", "commands", "dispatch", "link"}
SPECIFICATION Spec
INVARIANTS
  TypeOK
  LinksResolve
  AnswersAligned AckTellsApplied
  HostKnows ListFaithful
  ExchangesEnd OutcomeIsTrue
  NoSendOnClosed DisposeCovers ChannelForgets OnlyEarlyTestBlocks NoOtherWait
PROPERTIES
  ReportsSupported 
  UploadedIsStored ProgramServed AcceptedWasDone
  CallsImplemented
  LiveStays
CONSTRAINT ThirdIsQuiet
CHECK_DEADLOCK FALSE
