-------------------------- MODULE HonestGapsProofs --------------------------
(***************************************************************************)
(* The promise "Honest gaps" of the README for any number of services,     *)
(* restarts, prunes and removals, provided that no cycle ends between its  *)
(* first stored result and its last step (run cut_gap shows what happens   *)
(* otherwise); and the agreement of the live status with the history.      *)
(***************************************************************************)
EXTENDS AggregatorProofs

\* At time t no live event of r is the last: a later one has made r unknown.
Quiet(r, t) ==
  \A e \in EventsOf(r) : e.at <= t /\ e.to # "unknown" =>
    \E d \in EventsOf(r) : d.id > e.id /\ d.to = "unknown" /\ d.at <= t

UnknownIsLast == \A r \in services : r.status = "unknown" => Quiet(r, MaxTime)

\* Between cycles the log ends with the last completed one, or with the marks
\* of an outage after it; a cycle starts after all events before it.
LogIsBounded ==
  /\ cycle.stored => cycle.pc # "idle"
  /\ ~cycle.stored =>
       \A e \in events : /\ meta # None
                         /\ e.at <= meta \/ (e.to = "unknown" /\ e.at = meta + Interval)
  /\ cycle.pc # "idle" => \A e \in events : e.at <= cycle.at

\* Every gap that is being marked is the one after the last completed cycle.
MarkingIsCurrent ==
  proc = "starting" /\ gap.at # None =>
    meta # None /\ gap.at = meta + Interval /\ now - meta > 3 * Interval

OutagesArePast ==
  \A o \in outages : o.to <= now /\ (cycle.pc # "idle" => o.to <= cycle.at)

\* A live row that the marking of outage o has still to reach, now or at the
\* next start.
Pending(o, r) ==
  /\ r.status # "unknown"
  /\ meta # None /\ meta + Interval <= o.from /\ now - meta > 3 * Interval
  /\ proc # "running"
  /\ proc = "starting" => gap.at # None

QuietDuring(o, r) == \A t \in Time : o.from <= t /\ t < o.to => Quiet(r, t)

GapsAreQuiet == \A o \in outages, r \in services : QuietDuring(o, r) \/ Pending(o, r)

HonestInv ==
  /\ EventsInOrder
  /\ UnknownIsLast
  /\ LogIsBounded
  /\ MarkingIsCurrent
  /\ OutagesArePast
  /\ GapsAreQuiet
-----------------------------------------------------------------------------
LEMMA Types ==
  ASSUME AggregatorInv
  PROVE  /\ now \in Nat /\ now <= MaxTime /\ MaxTime \in Nat /\ Interval \in Nat
         /\ meta # None => meta \in Nat
         /\ \A e \in events : e.id \in Nat /\ e.at \in Nat /\ e.at <= MaxTime
         /\ \A o \in outages : o.from \in Nat /\ o.to \in Nat
BY TimeIsBounded, IntervalIsPositive
DEF AggregatorInv, AggregatorTypeOK, TypeOK, Time, Event

LEMMA LoggedIsNew ==
  ASSUME AggregatorInv, NEW id, NEW to, NEW at, NEW reason, NEW e \in Logged(id, to, at, reason)
  PROVE  /\ e.at = at /\ e.svc = id /\ e.to = to
         /\ e.id \in Nat /\ \A d \in events : d.id < e.id
<1>1. e.at = at /\ e.svc = id /\ e.to = to /\ e.id = NextId(events)
  BY DEF Logged
<1> QED BY <1>1, FreshIds DEF AggregatorInv, StoreInv

\* More events: silence is kept by marks, and by what comes after t.
LEMMA QuietAfterAppend ==
  ASSUME NEW s, NEW r, r.id = s.id, NEW t, Quiet(r, t), NEW N, events' = events \cup N,
         \A e \in N : e.svc = s.id /\ e.at <= t => e.to = "unknown"
  PROVE  Quiet(s, t)'
<1>1. EventsOf(s)' = {e \in events \cup N : e.svc = s.id}
  BY DEF EventsOf
<1>2. EventsOf(r) = {e \in events : e.svc = s.id}
  BY DEF EventsOf
<1> QED BY <1>1, <1>2 DEF Quiet

\* A new mark silences its row.
LEMMA QuietAfterMark ==
  ASSUME NEW s, NEW t, NEW N, events' = events \cup N, NEW m \in N,
         m.svc = s.id, m.to = "unknown", m.at <= t,
         \A e \in events : e.id < m.id,
         \A e \in N : e.to = "unknown"
  PROVE  Quiet(s, t)'
<1>1. m \in EventsOf(s)'
  BY DEF EventsOf
<1>2. \A e \in EventsOf(s)' : e.to # "unknown" => e \in events
  BY DEF EventsOf
<1> QED BY <1>1, <1>2 DEF Quiet

\* A prune that takes a mark takes all that lies before it in the same order.
LEMMA QuietAfterPrune ==
  ASSUME AggregatorInv, EventsInOrder, NEW s, NEW t, Quiet(s, t),
         NEW cutoff \in Time, events' = {e \in events : e.at >= cutoff}
  PROVE  Quiet(s, t)'
<1> SUFFICES ASSUME NEW e \in EventsOf(s)', e.at <= t, e.to # "unknown"
             PROVE  \E d \in EventsOf(s)' : d.id > e.id /\ d.to = "unknown" /\ d.at <= t
  BY DEF Quiet
<1>1. e \in EventsOf(s) /\ e \in events /\ e.at >= cutoff
  BY DEF EventsOf
<1>2. PICK d \in EventsOf(s) : d.id > e.id /\ d.to = "unknown" /\ d.at <= t
  BY <1>1 DEF Quiet
<1>3. d \in events /\ d.svc = e.svc
  BY <1>1 DEF EventsOf
<1>4. d.at >= cutoff
  BY <1>1, <1>2, <1>3, Types, TimeIsBounded DEF EventsInOrder, Time
<1>5. d \in EventsOf(s)'
  BY <1>3, <1>4 DEF EventsOf
<1> QED BY <1>2, <1>5

LEMMA QuietWhenUntouched ==
  ASSUME NEW s, NEW t, Quiet(s, t), EventsOf(s)' = EventsOf(s)
  PROVE  Quiet(s, t)'
BY DEF Quiet
-----------------------------------------------------------------------------
\* While the process starts or is stopped no cycle has stored anything.
LEMMA NothingStored ==
  ASSUME AggregatorInv, HonestInv, proc # "running"
  PROVE  cycle.pc = "idle" /\ cycle.stored = FALSE
BY DEF AggregatorInv, HonestInv, PastTimes, LogIsBounded, AggregatorTypeOK

\* A mark is not dated before any event of the log.
LEMMA MarkIsLast ==
  ASSUME AggregatorInv, HonestInv, MarkGap
  PROVE  /\ meta \in Nat /\ gap.at = meta + Interval
         /\ \A e \in events : e.at <= gap.at
<1>1. proc = "starting" /\ gap.at # None
  BY DEF MarkGap, AggregatorInv, PastTimes
<1>2. meta # None /\ gap.at = meta + Interval
  BY <1>1 DEF HonestInv, MarkingIsCurrent
<1>3. cycle.stored = FALSE
  BY <1>1, NothingStored
<1> QED BY <1>2, <1>3, Types DEF HonestInv, LogIsBounded

\* Events are written in the order of their times.
LEMMA OrderIsKept ==
  ASSUME AggregatorInv, HonestInv, [Next]_vars
  PROVE  EventsInOrder'
<1>1. CASE MarkGap
  <2> DEFINE N == Logged(FirstOf(gap.todo).id, "unknown", gap.at, "gap")
  <2>1. events' = events \cup N
    BY <1>1 DEF MarkGap, MarkUnknown
  <2>2. \A e \in N : e.at = gap.at /\ e.id \in Nat /\ \A d \in events : d.id < e.id
    BY LoggedIsNew
  <2>3. \A d \in events : d.at <= gap.at
    BY <1>1, MarkIsLast
  <2>4. gap.at \in Nat
    BY <1>1, MarkIsLast, Types
  <2> HIDE DEF N
  <2>5. \A d, e \in N : d.at <= e.at
    BY <2>2, <2>4
  <2> QED BY <2>1, <2>2, <2>3, <2>5, Types DEF EventsInOrder, HonestInv
<1>2. CASE RecordResult
  <2>1. PICK status \in {"up", "down"} :
          RecordCheck(RowOf(FirstOf(cycle.batch)), status, cycle.at, ReasonOf(status))
    BY <1>2 DEF RecordResult, Outcomes
  <2> DEFINE N == Logged(RowOf(FirstOf(cycle.batch)), status, cycle.at, ReasonOf(status))
  <2>2. events' = events \cup N
    BY <2>1 DEF RecordCheck
  <2>3. \A e \in N : e.at = cycle.at /\ e.id \in Nat /\ \A d \in events : d.id < e.id
    BY LoggedIsNew
  <2>4. cycle.at \in Nat /\ \A d \in events : d.at <= cycle.at
    BY <1>2, TimeIsBounded
    DEF RecordResult, HonestInv, LogIsBounded, AggregatorInv, PastTimes, Time
  <2> HIDE DEF N
  <2>5. \A d, e \in N : d.at <= e.at
    BY <2>3, <2>4
  <2> QED BY <2>2, <2>3, <2>4, <2>5, Types DEF EventsInOrder, HonestInv
<1>3. CASE ~(MarkGap \/ RecordResult)
  <2>1. events' \subseteq events
    BY <1>3 DEF Next, Tick, Start, Serve, Stop, Register, RemoveCommand, Prune, BeginCycle,
                EndChecks, FinishCycle, CycleFails, UpsertRegistration, Insert, Update, Remove,
                PruneEvents, SetMeta, vars, storeVars
  <2> QED BY <2>1 DEF EventsInOrder, HonestInv
<1> QED BY <1>1, <1>2, <1>3

\* Here the proviso counts: what a cycle has stored lies before the time that
\* set_meta stores, unless the cycle ends in between.
LEMMA BoundIsKept ==
  ASSUME AggregatorInv, HonestInv, [Next]_vars, ~MayCutShort
  PROVE  LogIsBounded'
<1> USE DEF HonestInv
<1>1. CASE MarkGap
  <2> DEFINE N == Logged(FirstOf(gap.todo).id, "unknown", gap.at, "gap")
  <2>1. events' = events \cup N /\ meta' = meta /\ cycle' = cycle
    BY <1>1 DEF MarkGap, MarkUnknown
  <2>2. \A e \in N : e.at = gap.at /\ e.to = "unknown"
    BY LoggedIsNew
  <2>3. cycle.pc = "idle" /\ cycle.stored = FALSE
    BY <1>1, NothingStored DEF MarkGap
  <2>4. gap.at = meta + Interval /\ meta # None
    BY <1>1, MarkIsLast, NoneIsNoValue
  <2> HIDE DEF N
  <2> QED BY <2>1, <2>2, <2>3, <2>4 DEF LogIsBounded
<1>2. CASE RecordResult
  <2>1. PICK status \in {"up", "down"} :
          RecordCheck(RowOf(FirstOf(cycle.batch)), status, cycle.at, ReasonOf(status))
    BY <1>2 DEF RecordResult, Outcomes
  <2> DEFINE N == Logged(RowOf(FirstOf(cycle.batch)), status, cycle.at, ReasonOf(status))
  <2>2. events' = events \cup N
    BY <2>1 DEF RecordCheck
  <2>3. \A e \in N : e.at = cycle.at
    BY LoggedIsNew
  <2>4. cycle'.at = cycle.at /\ cycle'.pc = "record" /\ cycle'.stored = TRUE
    BY <1>2 DEF RecordResult, AggregatorInv, AggregatorTypeOK
  <2>5. cycle.at \in Nat /\ \A d \in events : d.at <= cycle.at
    BY <1>2, TimeIsBounded DEF RecordResult, LogIsBounded, AggregatorInv, PastTimes, Time
  <2> HIDE DEF N
  <2> QED BY <2>2, <2>3, <2>4, <2>5 DEF LogIsBounded
<1>3. CASE FinishCycle
  <2>1. events' = events /\ meta' = now /\ cycle' = NoCycle
    BY <1>3 DEF FinishCycle, Finished, SetMeta, Sleep
  <2>2. now # None /\ \A e \in events : e.at <= now
    BY Types, NoneIsNoValue DEF AggregatorInv, NothingFromTheFuture
  <2> QED BY <2>1, <2>2 DEF LogIsBounded, NoCycle
<1>4. CASE BeginCycle
  <2>1. events' = events /\ meta' = meta /\ cycle'.stored = FALSE /\ cycle'.at = now
        /\ cycle.stored = FALSE
    BY <1>4 DEF BeginCycle, PollIsDue, storeVars, LogIsBounded, AggregatorInv, AggregatorTypeOK
  <2> QED BY <2>1 DEF LogIsBounded, AggregatorInv, NothingFromTheFuture
<1>5. CASE CycleFails \/ Stop
  <2>1. cycle.stored = FALSE
    BY <1>5 DEF CycleFails, Stop, CutAllowed, AggregatorInv, AggregatorTypeOK
  <2>2. events' = events /\ meta' = meta /\ cycle' = NoCycle
    BY <1>5 DEF CycleFails, Stop, Sleep, storeVars
  <2> QED BY <2>1, <2>2 DEF LogIsBounded, NoCycle
<1>6. CASE EndChecks
  <2>1. events' = events /\ meta' = meta /\ cycle'.stored = cycle.stored
        /\ cycle'.at = cycle.at /\ cycle.pc # "idle" /\ cycle'.pc = "record"
    BY <1>6 DEF EndChecks, storeVars, AggregatorInv, AggregatorTypeOK
  <2> QED BY <2>1 DEF LogIsBounded
<1>7. CASE Tick \/ Start \/ Serve \/ Register \/ RemoveCommand \/ Prune \/ UNCHANGED vars
  <2>1. events' \subseteq events /\ meta' = meta /\ cycle' = cycle
    BY <1>7 DEF Tick, Start, Serve, Register, RemoveCommand, Prune, UpsertRegistration, Insert,
                Update, Remove, PruneEvents, vars, storeVars, procVars
  <2> QED BY <2>1 DEF LogIsBounded
<1> QED BY <1>1, <1>2, <1>3, <1>4, <1>5, <1>6, <1>7 DEF Next

LEMMA MarkingStaysCurrent ==
  ASSUME AggregatorInv, HonestInv, [Next]_vars
  PROVE  MarkingIsCurrent'
<1> USE DEF HonestInv
<1>1. CASE Start
  <2>1. now' = now /\ meta' = meta
    BY <1>1 DEF Start, storeVars
  <2>2. gap'.at # None => GapIsLong /\ gap'.at = GapStart
    BY <1>1 DEF Start, NoGap
  <2> QED BY <2>1, <2>2 DEF MarkingIsCurrent, GapIsLong, GapStart
<1>2. CASE Tick
  <2>1. now' = now + 1 /\ UNCHANGED <<meta, proc, gap>>
    BY <1>2 DEF Tick, storeVars, procVars
  <2> QED BY <2>1, Types DEF MarkingIsCurrent
<1>3. CASE MarkGap
  <2>1. UNCHANGED <<meta, now, proc>> /\ gap'.at = gap.at
    BY <1>3 DEF MarkGap, MarkUnknown, AggregatorInv, AggregatorTypeOK
  <2> QED BY <2>1 DEF MarkingIsCurrent
<1>4. CASE Serve \/ Stop
  BY <1>4 DEF Serve, Stop, MarkingIsCurrent
<1>5. CASE Register \/ BeginCycle \/ EndChecks \/ RecordResult \/ FinishCycle \/ CycleFails
  <2>1. proc' = proc /\ proc = "running"
    BY <1>5 DEF Register, BeginCycle, PollIsDue, EndChecks, RecordResult, FinishCycle, CycleFails,
                AggregatorInv, PastTimes, procVars
  <2> QED BY <2>1 DEF MarkingIsCurrent
<1>6. CASE RemoveCommand \/ Prune \/ UNCHANGED vars
  <2>1. UNCHANGED <<meta, now, proc, gap>>
    BY <1>6 DEF RemoveCommand, Remove, Prune, PruneEvents, vars, storeVars, procVars
  <2> QED BY <2>1 DEF MarkingIsCurrent
<1> QED BY <1>1, <1>2, <1>3, <1>4, <1>5, <1>6 DEF Next

LEMMA OutagesStayPast ==
  ASSUME AggregatorInv, HonestInv, [Next]_vars
  PROVE  OutagesArePast'
<1> USE DEF HonestInv
<1>1. CASE Start
  <2>1. now' = now /\ cycle' = cycle /\ cycle.pc = "idle"
    BY <1>1, NothingStored DEF Start
  <2>2. \A o \in outages' : o \in outages \/ o.to = now
    BY <1>1 DEF Start
  <2> QED BY <2>1, <2>2, Types DEF OutagesArePast
<1>2. CASE Tick
  <2>1. now' = now + 1 /\ UNCHANGED <<cycle, outages>>
    BY <1>2 DEF Tick, procVars, historyVars
  <2> QED BY <2>1, Types DEF OutagesArePast
<1>3. CASE BeginCycle
  <2>1. cycle'.at = now /\ UNCHANGED <<now, outages>>
    BY <1>3 DEF BeginCycle, historyVars
  <2> QED BY <2>1 DEF OutagesArePast
<1>4. CASE EndChecks \/ RecordResult
  <2>1. cycle'.at = cycle.at /\ cycle.pc # "idle" /\ UNCHANGED <<now, outages>>
    BY <1>4 DEF EndChecks, RecordResult, historyVars, AggregatorInv, AggregatorTypeOK
  <2> QED BY <2>1 DEF OutagesArePast
<1>5. CASE ~(Start \/ Tick \/ BeginCycle \/ EndChecks \/ RecordResult)
  <2>1. cycle' \in {cycle, NoCycle} /\ UNCHANGED <<now, outages>>
    BY <1>5 DEF Next, MarkGap, Serve, Stop, Register, RemoveCommand, Prune, FinishCycle,
                CycleFails, Sleep, vars, procVars, historyVars
  <2> QED BY <2>1 DEF OutagesArePast, NoCycle
<1> QED BY <1>1, <1>2, <1>3, <1>4, <1>5
-----------------------------------------------------------------------------
\* A row that is new has no events; any other step but three leaves the status
\* and the events of a row alone.
Kept(s) == \E r \in services : r.status = s.status /\ r.id = s.id /\ EventsOf(s)' = EventsOf(r)

LEMMA UpsertKeepsHistories ==
  ASSUME AggregatorInv, NEW key, NEW info, NEW source,
         UpsertRegistration(key, info, source, now), NEW s \in services'
  PROVE  EventsOf(s)' = {} \/ Kept(s)
<1>1. CASE Insert(key, info, source, now)
  <2>1. s \in services \/ s.id = NextId(services)
    BY <1>1 DEF Insert
  <2>2. events' = events
    BY <1>1 DEF Insert
  <2>3. CASE s \in services
    BY <2>2, <2>3 DEF Kept, EventsOf
  <2>4. CASE s.id = NextId(services)
    <3>1. \A r \in services : r.id # NextId(services)
      BY FreshIds DEF AggregatorInv, StoreInv, TypeOK, Row
    <3>2. \A e \in events : e.svc # s.id
      BY <2>4, <3>1 DEF AggregatorInv, StoreInv, HistoryHasItsService
    <3> QED BY <2>2, <3>2 DEF EventsOf
  <2> QED BY <2>1, <2>3, <2>4
<1>2. CASE Update(key, info, source, now)
  <2>1. PICK r \in services : s = IF r.key = key THEN Renewed(r, info, source, now) ELSE r
    BY <1>2 DEF Update
  <2>2. s.id = r.id /\ s.status = r.status
    BY <2>1 DEF Renewed, AggregatorInv, StoreInv, TypeOK, Row
  <2>3. events' = events
    BY <1>2 DEF Update
  <2> QED BY <2>2, <2>3 DEF Kept, EventsOf
<1> QED BY <1>1, <1>2 DEF UpsertRegistration

LEMMA RemoveKeepsHistories ==
  ASSUME AggregatorInv, RemoveCommand, NEW s \in services'
  PROVE  Kept(s)
<1>1. PICK g \in services : Remove(g.key)
  BY DEF RemoveCommand
<1>2. s \in services /\ s.key # g.key
  BY <1>1 DEF Remove
<1>3. \A r \in services : r.key = g.key => r.id # s.id
  BY <1>2 DEF AggregatorInv, StoreInv, Keyed
<1>4. EventsOf(s)' = EventsOf(s)
  BY <1>1, <1>3 DEF Remove, EventsOf
<1> QED BY <1>2, <1>4 DEF Kept

LEMMA HistoriesAreKept ==
  ASSUME AggregatorInv, [Next]_vars, ~(MarkGap \/ RecordResult \/ Prune), NEW s \in services'
  PROVE  EventsOf(s)' = {} \/ Kept(s)
<1>1. CASE Serve \/ Register
  <2>1. \/ services' = services /\ events' = events
        \/ \E key, info, source : UpsertRegistration(key, info, source, now)
    BY <1>1 DEF Serve, Register, storeVars
  <2>2. CASE services' = services /\ events' = events
    BY <2>2 DEF Kept, EventsOf
  <2> QED BY <2>1, <2>2, UpsertKeepsHistories
<1>2. CASE RemoveCommand
  BY <1>2, RemoveKeepsHistories
<1>3. CASE ~(Serve \/ Register \/ RemoveCommand)
  <2>1. services' = services /\ events' = events
    BY <1>3 DEF Next, Tick, Start, Stop, BeginCycle, EndChecks, FinishCycle, SetMeta, CycleFails,
                vars, storeVars
  <2> QED BY <2>1 DEF Kept, EventsOf
<1> QED BY <1>1, <1>2, <1>3

LEMMA KeptIsQuiet ==
  ASSUME NEW s, NEW t, NEW r, EventsOf(s)' = {} \/ EventsOf(s)' = EventsOf(r), Quiet(r, t)
  PROVE  Quiet(s, t)'
BY DEF Quiet

\* What MarkGap does to a row: it is the one that is marked, or stays as it is.
LEMMA MarkedRow ==
  ASSUME AggregatorInv, HonestInv, MarkGap, NEW s \in services'
  PROVE  \E r \in services, N \in SUBSET events' :
           /\ r.id = s.id /\ events' = events \cup N
           /\ \A e \in N : e.to = "unknown"
           /\ \/ r.status = s.status
              \/ s.status = "unknown" /\ \E m \in N :
                   m.svc = s.id /\ m.at = gap.at /\ \A e \in events : e.id < m.id
<1> DEFINE id == FirstOf(gap.todo).id
           N == Logged(id, "unknown", gap.at, "gap")
<1>1. MarkUnknown(id, gap.at, "gap")
  BY DEF MarkGap
<1>2. events' = events \cup N
  BY <1>1 DEF MarkUnknown
<1>3. \A e \in N : e.to = "unknown" /\ e.svc = id /\ e.at = gap.at /\ \A d \in events : d.id < e.id
  BY LoggedIsNew
<1>4. PICK r \in services :
        s = IF r.id = id /\ r.status # "unknown"
              THEN [r EXCEPT !.status = "unknown", !.reason = "gap", !.change = gap.at] ELSE r
  BY <1>1 DEF MarkUnknown
<1>5. CASE r.id = id /\ r.status # "unknown"
  <2>1. s.id = r.id /\ s.status = "unknown"
    BY <1>4, <1>5 DEF AggregatorInv, StoreInv, TypeOK, Row
  <2>2. N # {}
    BY <1>5 DEF Logged
  <2> QED BY <1>2, <1>3, <1>5, <2>1, <2>2
<1>6. CASE ~(r.id = id /\ r.status # "unknown")
  <2>1. s = r
    BY <1>4, <1>6
  <2> QED BY <1>2, <1>3, <2>1
<1> QED BY <1>5, <1>6

\* What RecordResult does to a row: no event for it but one at the cycle's start,
\* and it is not unknown afterwards if it is the row of the result.
LEMMA RecordedRow ==
  ASSUME AggregatorInv, HonestInv, RecordResult, NEW s \in services'
  PROVE  \E r \in services, N \in SUBSET events' :
           /\ r.id = s.id /\ events' = events \cup N
           /\ \A e \in N : e.at = cycle.at
           /\ s.status = "unknown" => r.status = "unknown" /\ \A e \in N : e.svc # s.id
<1>1. PICK status \in {"up", "down"} :
        RecordCheck(RowOf(FirstOf(cycle.batch)), status, cycle.at, ReasonOf(status))
  BY DEF RecordResult, Outcomes
<1> DEFINE id == RowOf(FirstOf(cycle.batch))
           N == Logged(id, status, cycle.at, ReasonOf(status))
<1>2. events' = events \cup N
  BY <1>1 DEF RecordCheck
<1>3. \A e \in N : e.at = cycle.at /\ e.svc = id
  BY LoggedIsNew
<1>4. PICK r \in services :
        s = IF r.id = id THEN Checked(r, status, cycle.at, ReasonOf(status)) ELSE r
  BY <1>1 DEF RecordCheck
<1>5. CASE r.id = id
  <2>1. s.id = r.id /\ s.status # "unknown"
    BY <1>4, <1>5 DEF Checked, AggregatorInv, StoreInv, TypeOK, Row
  <2> QED BY <1>2, <1>3, <2>1
<1>6. CASE r.id # id
  BY <1>2, <1>3, <1>4, <1>6
<1> QED BY <1>5, <1>6
-----------------------------------------------------------------------------
LEMMA UnknownStaysLast ==
  ASSUME AggregatorInv, HonestInv, [Next]_vars
  PROVE  UnknownIsLast'
<1> USE DEF HonestInv
<1> SUFFICES ASSUME NEW s \in services', s.status = "unknown"
             PROVE  Quiet(s, MaxTime)'
  BY DEF UnknownIsLast
<1>1. CASE MarkGap
  <2>1. PICK r \in services, N \in SUBSET events' :
          /\ r.id = s.id /\ events' = events \cup N
          /\ \A e \in N : e.to = "unknown"
          /\ \/ r.status = s.status
             \/ s.status = "unknown" /\ \E m \in N :
                  m.svc = s.id /\ m.at = gap.at /\ \A e \in events : e.id < m.id
    BY <1>1, MarkedRow
  <2>2. CASE r.status = s.status
    <3>1. Quiet(r, MaxTime)
      BY <2>2 DEF UnknownIsLast
    <3> QED BY <2>1, <3>1, QuietAfterAppend
  <2>3. CASE r.status # s.status
    <3>1. PICK m \in N : m.svc = s.id /\ m.at = gap.at /\ \A e \in events : e.id < m.id
      BY <2>1, <2>3
    <3>2. m.at <= MaxTime
      <4>1. gap.at <= now /\ gap.at \in Nat
        BY <1>1, MarkIsLast, Types DEF MarkGap, AggregatorInv, PastTimes
      <4> QED BY <3>1, <4>1, Types
    <3> QED BY <2>1, <3>1, <3>2, QuietAfterMark
  <2> QED BY <2>2, <2>3
<1>2. CASE RecordResult
  <2>1. PICK r \in services, N \in SUBSET events' :
          /\ r.id = s.id /\ events' = events \cup N
          /\ r.status = "unknown" /\ \A e \in N : e.svc # s.id
    BY <1>2, RecordedRow
  <2>2. Quiet(r, MaxTime)
    BY <2>1 DEF UnknownIsLast
  <2> QED BY <2>1, <2>2, QuietAfterAppend
<1>3. CASE Prune
  <2>1. services' = services /\ PruneEvents(now - Retention) /\ now - Retention \in Time
    BY <1>3, RetentionIsNatural, Types DEF Prune, PruneEvents, Time
  <2>2. events' = {e \in events : e.at >= now - Retention}
    BY <2>1 DEF PruneEvents
  <2>3. Quiet(s, MaxTime)
    BY <2>1 DEF UnknownIsLast
  <2> QED BY <2>1, <2>2, <2>3, QuietAfterPrune
<1>4. CASE ~(MarkGap \/ RecordResult \/ Prune)
  <2>1. EventsOf(s)' = {} \/ Kept(s)
    BY <1>4, HistoriesAreKept
  <2>2. CASE EventsOf(s)' = {}
    BY <2>2 DEF Quiet
  <2>3. CASE Kept(s)
    <3>1. PICK r \in services : r.status = s.status /\ EventsOf(s)' = EventsOf(r)
      BY <2>3 DEF Kept
    <3>2. Quiet(r, MaxTime)
      BY <3>1 DEF UnknownIsLast
    <3> QED BY <3>1, <3>2, KeptIsQuiet
  <2> QED BY <2>1, <2>2, <2>3
<1> QED BY <1>1, <1>2, <1>3, <1>4

\* When the tasks start there is nothing left to mark.
LEMMA NothingPendingWhenServing ==
  ASSUME AggregatorInv, HonestInv, Serve, NEW o \in outages, NEW r \in services
  PROVE  ~Pending(o, r)
BY DEF Serve, MarkingIsDone, Pending, AggregatorInv, MarkingCovers

LEMMA GapsStayQuiet ==
  ASSUME AggregatorInv, HonestInv, [Next]_vars
  PROVE  GapsAreQuiet'
<1> USE DEF HonestInv
<1> SUFFICES ASSUME NEW o \in outages', NEW s \in services'
             PROVE  QuietDuring(o, s)' \/ Pending(o, s)'
  BY DEF GapsAreQuiet
<1>1. CASE MarkGap
  <2>1. PICK r \in services, N \in SUBSET events' :
          /\ r.id = s.id /\ events' = events \cup N
          /\ \A e \in N : e.to = "unknown"
          /\ \/ r.status = s.status
             \/ s.status = "unknown" /\ \E m \in N :
                  m.svc = s.id /\ m.at = gap.at /\ \A e \in events : e.id < m.id
    BY <1>1, MarkedRow
  <2>2. o \in outages
    BY <1>1 DEF MarkGap, historyVars
  <2>3. CASE QuietDuring(o, r)
    BY <2>1, <2>3, QuietAfterAppend DEF QuietDuring
  <2>4. CASE Pending(o, r)
    <3>1. CASE r.status = s.status
      <4>1. UNCHANGED <<meta, now, proc>> /\ gap'.at = gap.at
        BY <1>1 DEF MarkGap, MarkUnknown, AggregatorInv, AggregatorTypeOK
      <4> QED BY <2>4, <3>1, <4>1 DEF Pending
    <3>2. CASE r.status # s.status
      <4>1. PICK m \in N : m.svc = s.id /\ m.at = gap.at /\ \A e \in events : e.id < m.id
        BY <2>1, <3>2
      <4>2. gap.at <= o.from /\ gap.at \in Nat
        BY <1>1, <2>4, MarkIsLast, Types DEF Pending
      <4>3. ASSUME NEW t \in Time, o.from <= t
            PROVE  Quiet(s, t)'
        <5>1. m.at <= t
          BY <2>2, <4>1, <4>2, <4>3, Types DEF Time
        <5>2. m.to = "unknown"
          BY <2>1
        <5> QED BY <2>1, <4>1, <5>1, <5>2, QuietAfterMark
      <4> QED BY <4>3 DEF QuietDuring
    <3> QED BY <3>1, <3>2
  <2> QED BY <2>2, <2>3, <2>4 DEF GapsAreQuiet
<1>2. CASE RecordResult
  <2>1. PICK r \in services, N \in SUBSET events' :
          r.id = s.id /\ events' = events \cup N /\ \A e \in N : e.at = cycle.at
    BY <1>2, RecordedRow
  <2>2. o \in outages /\ QuietDuring(o, r)
    BY <1>2 DEF RecordResult, historyVars, GapsAreQuiet, Pending, AggregatorInv, PastTimes
  <2>3. o.to <= cycle.at /\ cycle.at \in Nat
    BY <1>2, <2>2, TimeIsBounded
    DEF RecordResult, OutagesArePast, AggregatorInv, PastTimes, Time
  <2>4. ASSUME NEW t \in Time, o.from <= t, t < o.to
        PROVE  Quiet(s, t)'
    <3>1. Quiet(r, t)
      BY <2>2, <2>4 DEF QuietDuring
    <3>2. \A e \in N : ~(e.at <= t)
      BY <2>1, <2>2, <2>3, <2>4, Types DEF Time
    <3> QED BY <2>1, <3>1, <3>2, QuietAfterAppend
  <2> QED BY <2>4 DEF QuietDuring
<1>3. CASE Prune
  <2>1. services' = services /\ PruneEvents(now - Retention) /\ now - Retention \in Time
        /\ o \in outages /\ proc = "running"
    BY <1>3, RetentionIsNatural, Types DEF Prune, PruneEvents, Time
  <2>2. events' = {e \in events : e.at >= now - Retention}
    BY <2>1 DEF PruneEvents
  <2>3. QuietDuring(o, s)
    BY <2>1 DEF GapsAreQuiet, Pending
  <2> QED BY <2>1, <2>2, <2>3, QuietAfterPrune DEF QuietDuring
<1>4. CASE Start
  <2>1. s \in services /\ EventsOf(s)' = EventsOf(s)
    BY <1>4 DEF Start, storeVars, EventsOf
  <2>2. UNCHANGED <<meta, now>> /\ proc' = "starting"
    BY <1>4 DEF Start, storeVars
  <2>3. GapIsLong => gap'.at # None /\ meta \in Nat
    BY <1>4, Types, NoneIsNoValue DEF Start, GapStart, GapIsLong
  <2>4. CASE o \in outages
    <3>1. CASE QuietDuring(o, s)
      BY <2>1, <3>1, KeptIsQuiet DEF QuietDuring
    <3>2. CASE Pending(o, s)
      BY <2>2, <2>3, <3>2 DEF Pending, GapIsLong
    <3> QED BY <2>1, <2>4, <3>1, <3>2 DEF GapsAreQuiet
  <2>5. CASE o \notin outages
    <3>1. GapIsLong /\ o.from = MaxOf(stopped, meta + Interval)
      BY <1>4, <2>5 DEF Start
    <3>2. meta \in Nat /\ meta + Interval <= o.from /\ o.from \in Nat
      <4>1. stopped \in Nat
        BY TimeIsBounded DEF AggregatorInv, AggregatorTypeOK, Time
      <4> QED BY <2>3, <3>1, <4>1, Types DEF MaxOf
    <3>3. CASE s.status # "unknown"
      BY <2>2, <2>3, <3>1, <3>2, <3>3 DEF Pending, GapIsLong
    <3>4. CASE s.status = "unknown"
      <4>1. Quiet(s, MaxTime)
        BY <2>1, <3>4 DEF UnknownIsLast
      <4>2. \A e \in events : e.at <= meta + Interval
        <5>1. cycle.stored = FALSE
          BY <1>4, NothingStored DEF Start
        <5>2. \A e \in events : e.at <= meta \/ e.at = meta + Interval
          BY <5>1 DEF LogIsBounded
        <5> QED BY <3>2, <5>2, Types
      <4>3. ASSUME NEW t \in Time, o.from <= t
            PROVE  Quiet(s, t)
        <5>1. \A e \in EventsOf(s) : e.at <= t /\ e.at <= MaxTime
          BY <3>2, <4>2, <4>3, Types DEF EventsOf, Time
        <5> QED BY <4>1, <5>1 DEF Quiet
      <4> QED BY <2>1, <4>3, KeptIsQuiet DEF QuietDuring
    <3> QED BY <3>3, <3>4
  <2> QED BY <2>4, <2>5
<1>5. CASE ~(MarkGap \/ RecordResult \/ Prune \/ Start)
  <2>1. outages' = outages
    BY <1>5 DEF Next, Tick, Serve, Stop, Register, RemoveCommand, BeginCycle, EndChecks,
                FinishCycle, CycleFails, vars, historyVars
  <2>2. EventsOf(s)' = {} \/ Kept(s)
    BY <1>5, HistoriesAreKept
  <2>3. CASE EventsOf(s)' = {}
    BY <2>3 DEF QuietDuring, Quiet
  <2>4. CASE Kept(s)
    <3>1. PICK r \in services : r.status = s.status /\ EventsOf(s)' = EventsOf(r)
      BY <2>4 DEF Kept
    <3>2. CASE QuietDuring(o, r)
      BY <3>1, <3>2, KeptIsQuiet DEF QuietDuring
    <3>3. CASE Pending(o, r)
      <4>1. Tick \/ Stop \/ RemoveCommand \/ UNCHANGED vars
        BY <1>5, <2>1, <3>3, NothingPendingWhenServing
        DEF Next, Pending, Register, BeginCycle, PollIsDue, EndChecks, FinishCycle, CycleFails,
            AggregatorInv, PastTimes
      <4>2. meta' = meta /\ now' \in {now, now + 1} /\ proc' \in {proc, "stopped"}
            /\ (proc' = proc => gap' = gap)
        BY <3>3, <4>1
        DEF Tick, Stop, RemoveCommand, Remove, vars, storeVars, procVars
      <4> QED BY <3>1, <3>3, <4>2, Types DEF Pending
    <3> QED BY <2>1, <3>2, <3>3 DEF GapsAreQuiet
  <2> QED BY <2>2, <2>3, <2>4
<1> QED BY <1>1, <1>2, <1>3, <1>4, <1>5

LEMMA HonestInvIsInductive ==
  ASSUME AggregatorInv, HonestInv, [Next]_vars, ~MayCutShort
  PROVE  HonestInv'
BY OrderIsKept, UnknownStaysLast, BoundIsKept, MarkingStaysCurrent, OutagesStayPast, GapsStayQuiet
DEF HonestInv

LEMMA HonestInvInitially == Init => HonestInv
<1> SUFFICES ASSUME Init
             PROVE  HonestInv
  OBVIOUS
<1>1. services = {} /\ events = {} /\ outages = {} /\ cycle = NoCycle /\ proc = "stopped"
  BY DEF Init, StoreInit
<1> QED BY <1>1 DEF HonestInv, EventsInOrder, UnknownIsLast, LogIsBounded, MarkingIsCurrent,
                    OutagesArePast, GapsAreQuiet, NoCycle

\* The strip takes the last event up to t, by time and then by id: with events
\* in order this is the one with the largest id, and that one is a mark.
LEMMA QuietIsUnknown ==
  ASSUME AggregatorInv, EventsInOrder, NEW r \in services, NEW t, Quiet(r, t)
  PROVE  Strip(r, t) = "unknown"
<1> DEFINE past == {e \in EventsOf(r) : e.at <= t}
           IsLast(e) == \A d \in past : d.at < e.at \/ (d.at = e.at /\ d.id <= e.id)
<1>t. \A e \in past : e \in events /\ e.svc = r.id /\ e.id \in Nat /\ e.at \in Nat
  BY Types DEF EventsOf
<1>1. CASE past = {}
  BY <1>1 DEF Strip
<1>2. CASE past # {}
  <2>1. \E e \in past : IsLast(e)
    <3> DEFINE ids == {e.id : e \in past}
    <3>1. ids \subseteq 0..MaxEventId /\ ids # {} /\ MaxEventId \in Nat
      BY <1>2, <1>t, IdsAreBounded DEF AggregatorInv, StoreInv, TypeOK, Event
    <3>2. PICK m \in ids : \A n \in ids : n <= m
      <4> HIDE DEF ids
      <4> QED BY <3>1, BoundedSetHasMaximum
    <3>3. PICK e \in past : m = e.id
      OBVIOUS
    <3>4. ASSUME NEW d \in past
          PROVE  d.at < e.at \/ (d.at = e.at /\ d.id <= e.id)
      <4>1. d.id <= e.id
        BY <3>2, <3>3
      <4>2. d.id < e.id => d.at <= e.at
        BY <1>t DEF EventsInOrder
      <4>3. d.id = e.id => d = e
        BY <1>t DEF AggregatorInv, StoreInv, Keyed
      <4> QED BY <1>t, <4>1, <4>2, <4>3
    <3> QED BY <3>4
  <2> DEFINE last == CHOOSE e \in past : IsLast(e)
  <2>2. last \in past /\ IsLast(last)
    BY <2>1
  <2>3. Strip(r, t) = last.to
    BY <1>2 DEF Strip
  <2> HIDE DEF last
  <2>4. ASSUME last.to # "unknown"
        PROVE  FALSE
    <3>1. PICK d \in EventsOf(r) : d.id > last.id /\ d.at <= t
      BY <2>2, <2>4 DEF Quiet
    <3>2. d \in past
      BY <3>1
    <3>3. last.at <= d.at
      BY <1>t, <2>2, <3>1, <3>2 DEF EventsInOrder
    <3> QED BY <1>t, <2>2, <3>1, <3>2, <3>3
  <2> QED BY <2>3, <2>4
<1> QED BY <1>1, <1>2
-----------------------------------------------------------------------------
\* The invariant behind the promise, if no cycle is cut after its first result.
THEOREM HonestInvariant ==
  ASSUME ~MayCutShort
  PROVE  Spec => []HonestInv
<1>1. AggregatorInv /\ HonestInv /\ [Next]_vars => HonestInv'
  BY HonestInvIsInductive
<1> QED BY <1>1, HonestInvInitially, AggregatorInvariant, PTL DEF Spec

\* The history takes as last event the last one written.
THEOREM EventsStayInOrder ==
  ASSUME ~MayCutShort
  PROVE  Spec => []EventsInOrder
<1>1. HonestInv => EventsInOrder
  BY DEF HonestInv
<1> QED BY <1>1, HonestInvariant, PTL

\* README "Honest gaps": whenever the page is served, every outage long enough
\* to be marked is drawn as unknown for every service.
THEOREM GapsAreHonest ==
  ASSUME ~MayCutShort
  PROVE  Spec => []HonestGaps
<1>1. AggregatorInv /\ HonestInv => HonestGaps
  <2> SUFFICES ASSUME AggregatorInv, HonestInv, proc = "running", NEW o \in outages,
                      NEW r \in services, NEW t \in Time, o.from <= t, t < o.to
               PROVE  Strip(r, t) = "unknown"
    BY DEF HonestGaps
  <2>1. QuietDuring(o, r)
    BY DEF HonestInv, GapsAreQuiet, Pending
  <2>2. Quiet(r, t)
    BY <2>1 DEF QuietDuring
  <2> QED BY <2>2, QuietIsUnknown DEF HonestInv
<1> QED BY <1>1, HonestInvariant, AggregatorInvariant, PTL
-----------------------------------------------------------------------------
\* The newest event of r is its entry into its present status.
IsOnRecord(r) ==
  \E e \in EventsOf(r) :
    /\ e.at = r.change /\ e.to = r.status
    /\ \A d \in EventsOf(r) : d.id <= e.id

\* A prune takes the entry into the present status of a row only if that is
\* before its cutoff.
RecentChangesAreLogged ==
  \A r \in services : r.change # None /\ r.change >= horizon => IsOnRecord(r)

LEMMA EventIds ==
  ASSUME AggregatorInv
  PROVE  \A e \in events : e.id \in Nat
BY Types

\* A change of status puts its row on record and leaves the others there.
LEMMA LoggedIsOnRecord ==
  ASSUME AggregatorInv, NEW id, NEW to, NEW at, NEW reason,
         events' = events \cup Logged(id, to, at, reason), RowsFollow(id, to, at),
         RecentChangesAreLogged, horizon' = horizon
  PROVE  RecentChangesAreLogged'
<1> DEFINE N == Logged(id, to, at, reason)
<1>1. \A e \in N : /\ e.at = at /\ e.svc = id /\ e.to = to
                   /\ e.id \in Nat /\ \A d \in events : d.id < e.id
  BY LoggedIsNew
<1>2. \A d, e \in N : d.id = e.id
  BY DEF Logged
<1> SUFFICES ASSUME NEW s \in services', s.change # None, s.change >= horizon
             PROVE  IsOnRecord(s)'
  BY DEF RecentChangesAreLogged
<1>3. PICK r \in services :
        /\ s.id = r.id
        /\ IF r.id = id /\ r.status # to
             THEN s.status = to /\ s.change = at
             ELSE s.status = r.status /\ s.change = r.change
  BY DEF RowsFollow
<1>4. CASE r.id = id /\ r.status # to
  <2>1. PICK e \in N : TRUE
    BY <1>4 DEF Logged
  <2> HIDE DEF N
  <2>2. e \in EventsOf(s)' /\ e.at = s.change /\ e.to = s.status
    BY <1>1, <1>3, <1>4, <2>1 DEF EventsOf, N
  <2>3. \A d \in EventsOf(s)' : d \in events \/ d \in N
    BY DEF EventsOf, N
  <2>4. \A d \in EventsOf(s)' : d.id <= e.id
    BY <1>1, <1>2, <2>1, <2>3, EventIds
  <2> QED BY <2>2, <2>4 DEF IsOnRecord
<1>5. CASE ~(r.id = id /\ r.status # to)
  <2>1. \A e \in N : e.svc # r.id
    <3>1. \A e \in N : e.svc = id /\ \E t \in services : t.id = id /\ t.status # to
      BY DEF Logged
    <3> QED BY <1>5, <3>1 DEF AggregatorInv, StoreInv, Keyed
  <2>2. EventsOf(s)' = EventsOf(r)
    BY <1>3, <2>1 DEF EventsOf
  <2>3. s.status = r.status /\ s.change = r.change
    BY <1>3, <1>5
  <2> QED BY <2>2, <2>3 DEF RecentChangesAreLogged, IsOnRecord
<1> QED BY <1>4, <1>5

\* An operation that leaves the log and the status of every row alone.
LEMMA QuietStepKeepsRecord ==
  ASSUME RecentChangesAreLogged, events' = events, horizon' = horizon,
         \A s \in services' :
           s.change = None \/ \E r \in services :
             s.id = r.id /\ s.status = r.status /\ s.change = r.change
  PROVE  RecentChangesAreLogged'
BY DEF RecentChangesAreLogged, IsOnRecord, EventsOf

LEMMA PruneKeepsRecord ==
  ASSUME AggregatorInv, RecentChangesAreLogged, Prune
  PROVE  RecentChangesAreLogged'
<1> DEFINE cutoff == now - Retention
<1>1. /\ services' = services /\ events' = {e \in events : e.at >= cutoff}
      /\ horizon' = MaxOf(horizon, cutoff)
  BY DEF Prune, PruneEvents
<1>2. horizon \in Nat /\ cutoff \in Int
  BY RetentionIsNatural, TimeIsBounded DEF AggregatorInv, AggregatorTypeOK, Time
<1> HIDE DEF cutoff
<1>3. horizon' \in Int /\ horizon <= horizon' /\ cutoff <= horizon'
  BY <1>1, <1>2 DEF MaxOf
<1> SUFFICES ASSUME NEW r \in services, r.change # None, r.change >= horizon'
             PROVE  IsOnRecord(r)'
  BY <1>1 DEF RecentChangesAreLogged
<1>4. r.change \in Nat
  BY TimeIsBounded DEF AggregatorInv, StoreInv, TypeOK, Row, Time
<1>5. IsOnRecord(r)
  BY <1>2, <1>3, <1>4 DEF RecentChangesAreLogged
<1>6. PICK e \in EventsOf(r) : /\ e.at = r.change /\ e.to = r.status
                               /\ \A d \in EventsOf(r) : d.id <= e.id
  BY <1>5 DEF IsOnRecord
<1>7. e.at >= cutoff
  BY <1>2, <1>3, <1>4, <1>6
<1>8. e \in EventsOf(r)' /\ EventsOf(r)' \subseteq EventsOf(r)
  BY <1>1, <1>6, <1>7 DEF EventsOf
<1> QED BY <1>6, <1>8 DEF IsOnRecord

LEMMA RecordIsKept ==
  ASSUME AggregatorInv, RecentChangesAreLogged, [Next]_vars
  PROVE  RecentChangesAreLogged'
<1>1. CASE MarkGap
  <2> DEFINE id == FirstOf(gap.todo).id
             New(r) == IF r.id = id /\ r.status # "unknown"
                         THEN [r EXCEPT !.status = "unknown", !.reason = "gap",
                                        !.change = gap.at]
                         ELSE r
  <2>1. /\ services' = {New(r) : r \in services} /\ horizon' = horizon
        /\ events' = events \cup Logged(id, "unknown", gap.at, "gap")
    BY <1>1 DEF MarkGap, MarkUnknown, historyVars
  <2>2. \A r \in services :
          /\ New(r).id = r.id
          /\ IF r.id = id /\ r.status # "unknown"
               THEN New(r).status = "unknown" /\ New(r).change = gap.at
               ELSE New(r).status = r.status /\ New(r).change = r.change
    BY DEF AggregatorInv, StoreInv, TypeOK, Row
  <2> HIDE DEF New, id
  <2>3. RowsFollow(id, "unknown", gap.at)
    BY <2>1, <2>2 DEF RowsFollow
  <2> QED BY <2>1, <2>3, LoggedIsOnRecord
<1>2. CASE RecordResult
  <2> DEFINE id == RowOf(FirstOf(cycle.batch))
             at == cycle.at
  <2>1. PICK status \in {"up", "down"} : RecordCheck(id, status, at, ReasonOf(status))
    BY <1>2 DEF RecordResult, Outcomes
  <2> DEFINE New(r) == IF r.id = id THEN Checked(r, status, at, ReasonOf(status)) ELSE r
  <2>2. /\ services' = {New(r) : r \in services} /\ horizon' = horizon
        /\ events' = events \cup Logged(id, status, at, ReasonOf(status))
    BY <1>2, <2>1 DEF RecordResult, RecordCheck, historyVars
  <2>3. \A r \in services :
          /\ New(r).id = r.id
          /\ IF r.id = id /\ r.status # status
               THEN New(r).status = status /\ New(r).change = at
               ELSE New(r).status = r.status /\ New(r).change = r.change
    BY DEF Checked, AggregatorInv, StoreInv, TypeOK, Row
  <2> HIDE DEF New, id, at
  <2>4. RowsFollow(id, status, at)
    BY <2>2, <2>3 DEF RowsFollow
  <2> QED BY <2>2, <2>4, LoggedIsOnRecord
<1>3. CASE Prune
  BY <1>3, PruneKeepsRecord
<1>4. ASSUME NEW key, NEW info, NEW source, UpsertRegistration(key, info, source, now),
             horizon' = horizon
      PROVE  RecentChangesAreLogged'
  <2>1. CASE Insert(key, info, source, now)
    <3>1. \A s \in services' : s.change = None \/ s \in services
      BY <2>1 DEF Insert
    <3> QED BY <1>4, <2>1, <3>1, QuietStepKeepsRecord DEF Insert
  <2>2. CASE Update(key, info, source, now)
    <3> DEFINE New(r) == IF r.key = key THEN Renewed(r, info, source, now) ELSE r
    <3>1. services' = {New(r) : r \in services} /\ events' = events
      BY <2>2 DEF Update
    <3>2. \A r \in services :
            New(r).id = r.id /\ New(r).status = r.status /\ New(r).change = r.change
      BY DEF Renewed, AggregatorInv, StoreInv, TypeOK, Row
    <3> HIDE DEF New
    <3> QED BY <1>4, <3>1, <3>2, QuietStepKeepsRecord
  <2> QED BY <1>4, <2>1, <2>2 DEF UpsertRegistration
<1>5. ASSUME services' = services, events' = events, horizon' = horizon
      PROVE  RecentChangesAreLogged'
  BY <1>5, QuietStepKeepsRecord
<1>6. CASE Serve \/ Register
  <2>1. horizon' = horizon
    BY <1>6 DEF Serve, Register, historyVars
  <2>2. CASE \E key \in Keys, info \in Infos :
               \/ UpsertRegistration(key, info, "register", now)
               \/ UpsertRegistration(key, info, "self", now)
    BY <1>4, <2>1, <2>2
  <2>3. CASE UNCHANGED storeVars
    BY <1>5, <2>1, <2>3 DEF storeVars
  <2>4. CASE \E info \in Infos : UpsertRegistration(SelfKey, info, "self", now)
    BY <1>4, <2>1, <2>4
  <2> QED BY <1>6, <2>2, <2>3, <2>4 DEF Serve, Register
<1>7. CASE RemoveCommand
  <2>1. PICK q \in services : Remove(q.key)
    BY <1>7 DEF RemoveCommand
  <2>2. /\ services' = {r \in services : r.key # q.key} /\ horizon' = horizon
        /\ events' = {e \in events : \A r \in services : r.key = q.key => r.id # e.svc}
    BY <1>7, <2>1 DEF RemoveCommand, Remove, historyVars
  <2>3. \A r \in services' : EventsOf(r)' = EventsOf(r)
    BY <2>2 DEF EventsOf, AggregatorInv, StoreInv, Keyed
  <2> QED BY <2>2, <2>3 DEF RecentChangesAreLogged, IsOnRecord
<1>8. CASE \/ Tick \/ Start \/ Stop \/ BeginCycle \/ EndChecks \/ FinishCycle \/ CycleFails
           \/ UNCHANGED vars
  BY <1>5, <1>8 DEF Tick, Start, Stop, BeginCycle, EndChecks, FinishCycle, SetMeta, CycleFails,
                    storeVars, historyVars, vars
<1> QED BY <1>1, <1>2, <1>3, <1>6, <1>7, <1>8 DEF Next

\* With events in order the strip ends with the event of the largest id.
LEMMA StripEndsWithTheNewest ==
  ASSUME AggregatorInv, EventsInOrder, NEW r \in services, NEW t, NEW e \in EventsOf(r),
         e.at <= t, \A d \in EventsOf(r) : d.id <= e.id
  PROVE  Strip(r, t) = e.to
<1> DEFINE past == {d \in EventsOf(r) : d.at <= t}
           IsLast(d) == \A c \in past : c.at < d.at \/ (c.at = d.at /\ c.id <= d.id)
<1>1. \A d \in past : d \in events /\ d.svc = r.id /\ d.id \in Nat /\ d.at \in Nat
  BY Types DEF EventsOf
<1>2. e \in past
  OBVIOUS
<1>3. IsLast(e)
  <2> SUFFICES ASSUME NEW c \in past
               PROVE  c.at < e.at \/ (c.at = e.at /\ c.id <= e.id)
    OBVIOUS
  <2>1. c.id <= e.id
    OBVIOUS
  <2>2. c.id < e.id => c.at <= e.at
    BY <1>1, <1>2 DEF EventsInOrder
  <2>3. c.id = e.id => c = e
    BY <1>1, <1>2 DEF AggregatorInv, StoreInv, Keyed
  <2> QED BY <1>1, <1>2, <2>1, <2>2, <2>3
<1>4. ASSUME NEW d \in past, IsLast(d)
      PROVE  d = e
  <2>1. d.at = e.at /\ d.id = e.id
    BY <1>1, <1>2, <1>3, <1>4
  <2> QED BY <1>1, <1>2, <2>1 DEF AggregatorInv, StoreInv, Keyed
<1>5. (CHOOSE d \in past : IsLast(d)) = e
  <2> HIDE DEF past, IsLast
  <2> QED BY <1>2, <1>3, <1>4
<1>6. past # {}
  BY <1>2
<1> QED BY <1>5, <1>6 DEF Strip

\* Under the same proviso the live status of a row and the right end of its strip
\* agree, unless a prune could take the event that began the status.
THEOREM LiveAndStripAgree ==
  ASSUME ~MayCutShort
  PROVE  Spec => []LiveMatchesStrip
<1>1. Init => RecentChangesAreLogged
  BY DEF Init, StoreInit, RecentChangesAreLogged
<1>2. AggregatorInv /\ RecentChangesAreLogged /\ [Next]_vars => RecentChangesAreLogged'
  BY RecordIsKept
<1>3. AggregatorInv /\ EventsInOrder /\ RecentChangesAreLogged => LiveMatchesStrip
  <2> SUFFICES ASSUME AggregatorInv, EventsInOrder, RecentChangesAreLogged,
                      NEW r \in services, r.change # None, r.change >= horizon
               PROVE  Strip(r, now) = r.status
    BY DEF LiveMatchesStrip
  <2>1. PICK e \in EventsOf(r) : /\ e.to = r.status
                                 /\ \A d \in EventsOf(r) : d.id <= e.id
    BY DEF RecentChangesAreLogged, IsOnRecord
  <2>2. e.at <= now
    BY DEF EventsOf, AggregatorInv, NothingFromTheFuture
  <2> QED BY <2>1, <2>2, StripEndsWithTheNewest
<1> QED BY <1>1, <1>2, <1>3, AggregatorInvariant, EventsStayInOrder, PTL DEF Spec
=============================================================================
