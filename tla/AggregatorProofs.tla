-------------------------- MODULE AggregatorProofs --------------------------
(***************************************************************************)
(* Whatever restarts, failed cycles and removals the aggregator goes       *)
(* through, for any number of services and any intervals: it uses the      *)
(* store only by its operations, no event lies in the future, and after a  *)
(* long outage nobody is live.                                             *)
(***************************************************************************)
EXTENDS Aggregator, StatusStoreProofs

\* What is in memory and in meta lies in the past.
PastTimes ==
  /\ meta # None => meta <= now
  /\ cycle.pc # "idle" => proc = "running" /\ cycle.at \in Time /\ cycle.at <= now
  /\ gap.at # None => gap.at <= now
  /\ gap.todo # {} => gap.at # None

\* While a gap is being marked every row that is not yet unknown is on the list.
MarkingCovers ==
  proc = "starting" /\ gap.at # None =>
    \A r \in services : r.status = "unknown" \/ \E b \in gap.todo : b.id = r.id

AggregatorInv ==
  /\ StoreInv
  /\ AggregatorTypeOK
  /\ PastTimes
  /\ NothingFromTheFuture
  /\ MarkingCovers
-----------------------------------------------------------------------------
\* A result for a row that has gone changes nothing; any other is a RecordCheck
\* of the store.
LEMMA RecordIsAStoreStep ==
  ASSUME StoreInv, NEW id, NEW status \in {"up", "down"}, NEW at \in Time,
         RecordCheck(id, status, at, ReasonOf(status))
  PROVE  [StoreNext]_storeVars
<1>1. CASE \E r \in services : r.id = id
  BY <1>1 DEF StoreNext
<1>2. CASE \A r \in services : r.id # id
  <2>1. services' = services
    BY <1>2 DEF RecordCheck
  <2>2. Logged(id, status, at, ReasonOf(status)) = {}
    BY <1>2 DEF Logged
  <2> QED BY <2>1, <2>2 DEF RecordCheck, storeVars
<1> QED BY <1>1, <1>2

LEMMA MarkIsAStoreStep ==
  ASSUME StoreInv, NEW id, NEW at \in Time, MarkUnknown(id, at, "gap")
  PROVE  [StoreNext]_storeVars
<1>1. CASE \E r \in services : r.id = id
  BY <1>1 DEF StoreNext
<1>2. CASE \A r \in services : r.id # id
  <2>1. services' = services
    BY <1>2 DEF MarkUnknown
  <2>2. Logged(id, "unknown", at, "gap") = {}
    BY <1>2 DEF Logged
  <2> QED BY <2>1, <2>2 DEF MarkUnknown, storeVars
<1> QED BY <1>1, <1>2

\* Every step of the aggregator is an operation of the store or none.
LEMMA StepIsAStoreStep ==
  ASSUME AggregatorInv, [Next]_vars
  PROVE  [StoreNext]_storeVars
<1> USE DEF AggregatorInv
<1>1. CASE MarkGap
  <2>1. gap.at \in Time
    BY <1>1 DEF MarkGap, PastTimes, AggregatorTypeOK
  <2> QED BY <1>1, <2>1, MarkIsAStoreStep DEF MarkGap
<1>2. CASE Serve
  <2>1. CASE SelfKey = None
    BY <1>2, <2>1 DEF Serve
  <2>2. CASE SelfKey # None
    <3>1. SelfKey \in Keys /\ "self" \in Sources /\ now \in Time
      BY <2>2, SelfIsAKey, SourcesAreKnown DEF AggregatorTypeOK
    <3> QED BY <1>2, <2>2, <3>1 DEF Serve, StoreNext
  <2> QED BY <2>1, <2>2
<1>3. CASE Register
  <2>1. "self" \in Sources /\ "register" \in Sources /\ now \in Time
    BY SourcesAreKnown DEF AggregatorTypeOK
  <2> QED BY <1>3, <2>1 DEF Register, StoreNext
<1>4. CASE RecordResult
  <2>1. cycle.at \in Time
    BY <1>4 DEF RecordResult, PastTimes
  <2>2. PICK status \in {"up", "down"} :
          RecordCheck(RowOf(FirstOf(cycle.batch)), status, cycle.at, ReasonOf(status))
    BY <1>4 DEF RecordResult, Outcomes
  <2> QED BY <2>1, <2>2, RecordIsAStoreStep
<1>5. CASE FinishCycle
  BY <1>5 DEF FinishCycle, Finished, StoreNext, AggregatorTypeOK
<1>6. CASE Prune
  <2>1. now - Retention \in Time
    BY <1>6, RetentionIsNatural, TimeIsBounded DEF Prune, AggregatorTypeOK, Time
  <2> QED BY <1>6, <2>1 DEF Prune, StoreNext
<1>7. CASE RemoveCommand
  <2>1. PICK r \in services : Remove(r.key)
    BY <1>7 DEF RemoveCommand
  <2>2. r.key \in Keys
    BY DEF StoreInv, TypeOK, Row
  <2> QED BY <2>1, <2>2 DEF StoreNext
<1>8. CASE Tick \/ Start \/ Stop \/ BeginCycle \/ EndChecks \/ CycleFails \/ UNCHANGED vars
  BY <1>8 DEF Tick, Start, Stop, BeginCycle, EndChecks, CycleFails, vars
<1> QED BY <1>1, <1>2, <1>3, <1>4, <1>5, <1>6, <1>7, <1>8 DEF Next
-----------------------------------------------------------------------------
\* While a gap is being marked the turn of a row makes it unknown, and no row is
\* added: what is left of the list covers what is left to mark.
LEMMA MarkingIsKept ==
  ASSUME AggregatorInv, [Next]_vars
  PROVE  MarkingCovers'
<1> USE DEF AggregatorInv
<1>1. CASE Start
  <2> SUFFICES ASSUME NEW r \in services, gap'.at # None
               PROVE  \E b \in gap'.todo : b.id = r.id
    BY <1>1 DEF Start, storeVars, MarkingCovers
  <2>1. gap'.todo = Listed
    BY <1>1 DEF Start, NoGap
  <2>2. [id |-> r.id, key |-> r.key] \in gap'.todo
    BY <2>1 DEF Listed
  <2> QED BY <2>2
<1>2. CASE MarkGap
  <2> DEFINE svc == FirstOf(gap.todo)
  <2>1. MarkUnknown(svc.id, gap.at, "gap")
    BY <1>2 DEF MarkGap
  <2>2. gap'.todo = gap.todo \ {svc} /\ gap'.at = gap.at
    BY <1>2 DEF MarkGap, LeftToMark, AggregatorTypeOK
  <2> HIDE DEF svc
  <2>3. ASSUME NEW s \in services', proc = "starting", gap.at # None, s.status # "unknown"
        PROVE  \E b \in gap.todo \ {svc} : b.id = s.id
    <3>1. s \in services /\ s.id # svc.id
      BY <2>1, <2>3 DEF MarkUnknown, StoreInv, TypeOK, Row
    <3> QED BY <2>3, <3>1 DEF MarkingCovers
  <2>4. proc' = proc
    BY <1>2 DEF MarkGap
  <2> QED BY <2>2, <2>3, <2>4 DEF MarkingCovers
<1>3. CASE RemoveCommand
  <2>1. services' \subseteq services /\ UNCHANGED <<proc, gap>>
    BY <1>3 DEF RemoveCommand, Remove, procVars
  <2> QED BY <2>1 DEF MarkingCovers
<1>4. CASE Serve \/ Stop
  BY <1>4 DEF Serve, Stop, MarkingCovers
<1>5. CASE Tick \/ Prune \/ BeginCycle \/ EndChecks \/ FinishCycle \/ CycleFails \/ UNCHANGED vars
  <2>1. UNCHANGED <<services, proc, gap>>
    BY <1>5 DEF Tick, Prune, PruneEvents, BeginCycle, EndChecks, FinishCycle, SetMeta, CycleFails,
                vars, storeVars, procVars
  <2> QED BY <2>1 DEF MarkingCovers
<1>6. CASE Register \/ RecordResult
  <2>1. proc' # "starting"
    BY <1>6 DEF Register, RecordResult, procVars, PastTimes
  <2> QED BY <2>1 DEF MarkingCovers
<1> QED BY <1>1, <1>2, <1>3, <1>4, <1>5, <1>6 DEF Next

LEMMA LoggedAt ==
  ASSUME NEW id, NEW to, NEW at, NEW reason, NEW e \in Logged(id, to, at, reason)
  PROVE  e.at = at
BY DEF Logged

\* A mark is dated after the last completed cycle but not after now, a result at
\* the start of its cycle.
LEMMA PastStaysPast ==
  ASSUME AggregatorInv, [Next]_vars
  PROVE  PastTimes' /\ NothingFromTheFuture'
<1> USE DEF AggregatorInv
<1>t. now \in Nat /\ (meta # None => meta \in Nat) /\ \A e \in events : e.at \in Nat
  BY TimeIsBounded DEF AggregatorTypeOK, TypeOK, Time, Event
<1>1. CASE Tick
  <2>1. now' = now + 1 /\ UNCHANGED <<storeVars, proc, gap, cycle>>
    BY <1>1 DEF Tick, procVars
  <2>2. PastTimes'
    BY <2>1, <1>t, TimeIsBounded DEF PastTimes, storeVars, Time, AggregatorTypeOK
  <2>3. NothingFromTheFuture'
    BY <2>1, <1>t DEF NothingFromTheFuture, storeVars
  <2> QED BY <2>2, <2>3
<1>2. CASE Start
  <2>1. GapIsLong => GapStart \in Nat /\ GapStart <= now
    BY <1>t, IntervalIsPositive DEF GapIsLong, GapStart
  <2>2. gap' = IF GapIsLong THEN [at |-> GapStart, todo |-> Listed] ELSE NoGap
    BY <1>2 DEF Start
  <2>3. UNCHANGED <<storeVars, now, cycle>> /\ cycle.pc = "idle"
    BY <1>2 DEF Start, PastTimes
  <2>4. PastTimes'
    <3>1. gap'.at # None => GapIsLong /\ gap'.at = GapStart
      BY <2>2 DEF NoGap
    <3>2. gap'.todo # {} => gap'.at # None
      <4>1. GapIsLong => GapStart # None
        BY <2>1, NoneIsNoValue
      <4> QED BY <2>2, <4>1 DEF NoGap
    <3> QED BY <2>1, <2>3, <3>1, <3>2 DEF PastTimes, storeVars
  <2>5. NothingFromTheFuture'
    BY <2>3 DEF NothingFromTheFuture, storeVars
  <2> QED BY <2>4, <2>5
<1>3. CASE MarkGap
  <2> DEFINE svc == FirstOf(gap.todo)
  <2>1. MarkUnknown(svc.id, gap.at, "gap") /\ gap.at <= now
    BY <1>3 DEF MarkGap, PastTimes
  <2>2. gap'.todo \subseteq gap.todo /\ gap'.at = gap.at
    BY <1>3 DEF MarkGap, LeftToMark, AggregatorTypeOK
  <2> HIDE DEF svc
  <2>3. UNCHANGED <<now, proc, cycle, meta>>
    BY <1>3, <2>1 DEF MarkGap, MarkUnknown
  <2>4. PastTimes'
    BY <2>2, <2>3 DEF PastTimes
  <2>5. \A e \in events' : e \in events \/ e.at = gap.at
    BY <2>1, LoggedAt DEF MarkUnknown
  <2> QED BY <2>1, <2>3, <2>4, <2>5 DEF NothingFromTheFuture
<1>4. CASE RecordResult
  <2>1. PICK status \in {"up", "down"} :
          RecordCheck(RowOf(FirstOf(cycle.batch)), status, cycle.at, ReasonOf(status))
    BY <1>4 DEF RecordResult, Outcomes
  <2>2. cycle'.pc = cycle.pc /\ cycle'.at = cycle.at /\ cycle.at <= now
    BY <1>4 DEF RecordResult, AggregatorTypeOK, PastTimes
  <2>3. UNCHANGED <<now, proc, gap, meta>>
    BY <1>4, <2>1 DEF RecordResult, RecordCheck
  <2>4. PastTimes'
    BY <2>2, <2>3 DEF PastTimes
  <2>5. \A e \in events' : e \in events \/ e.at = cycle.at
    BY <2>1, LoggedAt DEF RecordCheck
  <2> QED BY <2>2, <2>3, <2>4, <2>5 DEF NothingFromTheFuture
<1>5. CASE FinishCycle
  <2>1. meta' = now /\ cycle'.pc = "idle" /\ UNCHANGED <<events, now, proc, gap>>
    BY <1>5 DEF FinishCycle, Finished, SetMeta, Sleep, NoCycle
  <2> QED BY <1>t, <2>1 DEF PastTimes, NothingFromTheFuture
<1>6. CASE BeginCycle
  <2>1. cycle'.at = now /\ proc = "running" /\ UNCHANGED <<storeVars, now, proc, gap>>
    BY <1>6 DEF BeginCycle, PollIsDue
  <2> QED BY <1>t, <2>1 DEF PastTimes, NothingFromTheFuture, storeVars, AggregatorTypeOK
<1>7. CASE EndChecks
  <2>1. cycle'.at = cycle.at /\ cycle.pc # "idle" /\ UNCHANGED <<storeVars, now, proc, gap>>
    BY <1>7 DEF EndChecks, AggregatorTypeOK
  <2> QED BY <2>1 DEF PastTimes, NothingFromTheFuture, storeVars
<1>8. CASE CycleFails \/ Stop
  <2>1. cycle'.pc = "idle" /\ gap' \in {gap, NoGap} /\ UNCHANGED <<storeVars, now>>
    BY <1>8 DEF CycleFails, Stop, Sleep, NoCycle
  <2> QED BY <2>1 DEF PastTimes, NothingFromTheFuture, storeVars, NoGap
<1>9. CASE Serve \/ Register
  <2>1. UNCHANGED <<events, meta, now, cycle>>
    BY <1>9 DEF Serve, Register, UpsertRegistration, Insert, Update, storeVars, procVars
  <2>2. gap' \in {gap, NoGap} /\ proc' = "running"
    BY <1>9 DEF Serve, Register, procVars
  <2> QED BY <2>1, <2>2 DEF PastTimes, NothingFromTheFuture, NoGap
<1>10. CASE Prune \/ RemoveCommand
  <2>1. events' \subseteq events /\ UNCHANGED <<meta, now, procVars>>
    BY <1>10 DEF Prune, PruneEvents, RemoveCommand, Remove
  <2> QED BY <2>1 DEF PastTimes, NothingFromTheFuture, procVars
<1>11. CASE UNCHANGED vars
  BY <1>11 DEF vars, storeVars, procVars, PastTimes, NothingFromTheFuture
<1> QED
  BY <1>1, <1>2, <1>3, <1>4, <1>5, <1>6, <1>7, <1>8, <1>9, <1>10, <1>11 DEF Next

LEMMA TypesAreKept ==
  ASSUME AggregatorInv, StoreInv', [Next]_vars
  PROVE  AggregatorTypeOK'
<1> USE DEF AggregatorInv
<1> DEFINE Lists == SUBSET [id : 1..MaxServiceId, key : Keys]
<1>t. /\ now \in Time /\ nextAt \in Nat /\ horizon \in Time /\ stopped \in Time
      /\ proc \in {"stopped", "starting", "running"}
      /\ gap \in [at : Time \cup {None}, todo : Lists]
      /\ cycle \in [pc : {"idle", "check", "record"}, at : Time \cup {None},
                    batch : Lists, stored : BOOLEAN]
      /\ outages \subseteq [from : Time, to : Time]
      /\ meta \in Time \cup {None}
  BY DEF AggregatorTypeOK, TypeOK
<1>l. Listed \in Lists
  BY DEF Listed, StoreInv, TypeOK, Row
<1>n. NoGap \in [at : Time \cup {None}, todo : Lists]
  BY DEF NoGap
<1>c. NoCycle \in [pc : {"idle", "check", "record"}, at : Time \cup {None},
                   batch : Lists, stored : BOOLEAN]
  BY DEF NoCycle
<1>s. TypeOK'
  BY DEF StoreInv
<1>1. CASE Tick
  <2>1. now' \in Time
    BY <1>1, <1>t, TimeIsBounded DEF Tick, Time
  <2> QED BY <1>1, <1>s, <1>t, <2>1 DEF Tick, procVars, historyVars, AggregatorTypeOK
<1>2. CASE Start
  <2>1. GapIsLong => /\ GapStart \in Time
                     /\ meta + Interval \in Time
                     /\ MaxOf(stopped, meta + Interval) \in Time
    BY <1>t, IntervalIsPositive, TimeIsBounded, NoneIsNoValue DEF GapIsLong, GapStart, MaxOf, Time
  <2>2. gap' \in [at : Time \cup {None}, todo : Lists]
    BY <1>2, <1>l, <1>n, <2>1 DEF Start
  <2>3. outages' \subseteq [from : Time, to : Time]
    BY <1>2, <1>t, <2>1 DEF Start
  <2>4. stopped' \in Time
    BY <1>2, TimeIsBounded DEF Start, Time
  <2> QED BY <1>2, <1>s, <1>t, <2>2, <2>3, <2>4 DEF Start, AggregatorTypeOK
<1>3. CASE MarkGap
  <2>1. gap' \in [at : Time \cup {None}, todo : Lists]
    BY <1>3, <1>t DEF MarkGap, LeftToMark
  <2> QED BY <1>3, <1>s, <1>t, <2>1 DEF MarkGap, historyVars, AggregatorTypeOK
<1>4. CASE Serve
  <2>1. nextAt' \in Nat
    BY <1>4, <1>t, TimeIsBounded DEF Serve, Time
  <2> QED BY <1>4, <1>s, <1>t, <1>n, <2>1 DEF Serve, historyVars, AggregatorTypeOK
<1>5. CASE BeginCycle \/ EndChecks \/ RecordResult
  <2>1. cycle' \in [pc : {"idle", "check", "record"}, at : Time \cup {None},
                    batch : Lists, stored : BOOLEAN]
    <3>1. CASE BeginCycle
      BY <1>t, <1>l, <3>1 DEF BeginCycle
    <3>2. CASE EndChecks
      BY <1>t, <3>2 DEF EndChecks
    <3>3. CASE RecordResult
      <4>1. PICK svc : cycle' = [cycle EXCEPT !.batch = cycle.batch \ {svc}, !.stored = TRUE]
        BY <3>3 DEF RecordResult
      <4> QED BY <1>t, <4>1
    <3> QED BY <1>5, <3>1, <3>2, <3>3
  <2> QED BY <1>5, <1>s, <1>t, <2>1 DEF BeginCycle, EndChecks, RecordResult, historyVars,
                                        AggregatorTypeOK
<1>6. CASE FinishCycle \/ CycleFails
  <2>1. cycle.at \in Nat /\ cycle.pc # "idle"
    BY <1>6, TimeIsBounded DEF FinishCycle, CycleFails, PastTimes, Time
  <2>2. nextAt' \in Nat /\ cycle' = NoCycle
    BY <1>6, <1>t, <2>1, IntervalIsPositive, TimeIsBounded
    DEF FinishCycle, CycleFails, Sleep, MaxOf, Time
  <2> QED BY <1>6, <1>s, <1>t, <1>c, <2>2 DEF FinishCycle, CycleFails, historyVars,
                                              AggregatorTypeOK
<1>7. CASE Prune
  <2>1. horizon' \in Time
    BY <1>7, <1>t, RetentionIsNatural, TimeIsBounded DEF Prune, MaxOf, Time
  <2> QED BY <1>7, <1>s, <1>t, <2>1 DEF Prune, procVars, AggregatorTypeOK
<1>8. CASE Stop
  <2>1. nextAt' \in Nat
    BY <1>8 DEF Stop
  <2> QED BY <1>8, <1>s, <1>t, <1>n, <1>c, <2>1 DEF Stop, AggregatorTypeOK
<1>9. CASE Register \/ RemoveCommand \/ UNCHANGED vars
  BY <1>9, <1>s, <1>t DEF Register, RemoveCommand, vars, procVars, historyVars, AggregatorTypeOK
<1> QED BY <1>1, <1>2, <1>3, <1>4, <1>5, <1>6, <1>7, <1>8, <1>9 DEF Next

LEMMA AggregatorInvIsInductive ==
  ASSUME AggregatorInv, [Next]_vars
  PROVE  AggregatorInv'
<1>1. StoreInv'
  BY StepIsAStoreStep, StoreInvIsInductive DEF AggregatorInv
<1> QED BY <1>1, TypesAreKept, PastStaysPast, MarkingIsKept DEF AggregatorInv

LEMMA AggregatorInvInitially == Init => AggregatorInv
<1> SUFFICES ASSUME Init
             PROVE  AggregatorInv
  OBVIOUS
<1>1. StoreInv /\ services = {} /\ events = {} /\ meta = None
  BY StoreInvInitially DEF Init, StoreInit
<1>2. AggregatorTypeOK
  BY <1>1, TimeIsBounded DEF Init, AggregatorTypeOK, StoreInv, NoGap, NoCycle, Time
<1>3. PastTimes /\ NothingFromTheFuture /\ MarkingCovers
  BY <1>1 DEF Init, PastTimes, NothingFromTheFuture, MarkingCovers, NoGap, NoCycle
<1> QED BY <1>1, <1>2, <1>3 DEF AggregatorInv
-----------------------------------------------------------------------------
\* The inductive invariant of the aggregator.
THEOREM AggregatorInvariant == Spec => []AggregatorInv
<1>1. AggregatorInv /\ [Next]_vars => AggregatorInv'
  BY AggregatorInvIsInductive
<1> QED BY <1>1, AggregatorInvInitially, PTL DEF Spec

\* Start, marking, cycles, registrations, janitor, crash and the remove command
\* change the tables only as the operations of the store do.
THEOREM AggregatorUsesTheStore == Spec => StoreSpec
<1>1. Init => StoreInit
  BY DEF Init
<1>2. AggregatorInv /\ [Next]_vars => [StoreNext]_storeVars
  BY StepIsAStoreStep
<1> QED BY <1>1, <1>2, AggregatorInvariant, PTL DEF Spec, StoreSpec

\* The process, the cycle and the marking keep to their states and times.
THEOREM AggregatorIsTyped == Spec => []AggregatorTypeOK
<1>1. AggregatorInv => AggregatorTypeOK
  BY DEF AggregatorInv
<1> QED BY <1>1, AggregatorInvariant, PTL

\* No event, also not the mark of a gap, is dated later than now.
THEOREM TheLogIsInThePast == Spec => []NothingFromTheFuture
<1>1. AggregatorInv => NothingFromTheFuture
  BY DEF AggregatorInv
<1> QED BY <1>1, AggregatorInvariant, PTL

\* However often the start was interrupted while rows were being marked and
\* rows removed meanwhile: no row is live when the tasks begin.
THEOREM NobodyStaysLive == Spec => NobodyIsLiveAfterAGap
<1>1. ASSUME AggregatorInv, [Next]_vars,
             proc = "starting", proc' = "running", gap.at # None
      PROVE  \A r \in services' : r.status = "unknown"
  <2>1. Serve
    BY <1>1 DEF Next, Tick, Start, MarkGap, Stop, Register, RemoveCommand, Prune, BeginCycle,
                EndChecks, RecordResult, FinishCycle, CycleFails, procVars, vars
  <2>2. \A r \in services : r.status = "unknown"
    BY <1>1, <2>1 DEF Serve, MarkingIsDone, AggregatorInv, MarkingCovers
  <2>3. services' = services \/ \E info \in Infos : UpsertRegistration(SelfKey, info, "self", now)
    BY <2>1 DEF Serve, storeVars
  <2>4. ASSUME NEW info \in Infos, Insert(SelfKey, info, "self", now)
        PROVE  \A r \in services' : r.status = "unknown"
    BY <2>2, <2>4 DEF Insert
  <2>5. ASSUME NEW info \in Infos, Update(SelfKey, info, "self", now)
        PROVE  \A r \in services' : r.status = "unknown"
    BY <1>1, <2>2, <2>5 DEF Update, Renewed, AggregatorInv, StoreInv, TypeOK, Row
  <2> QED BY <2>2, <2>3, <2>4, <2>5 DEF UpsertRegistration
<1>2. AggregatorInv /\ [Next]_vars =>
        [proc = "starting" /\ proc' = "running" /\ gap.at # None
           => \A r \in services' : r.status = "unknown"]_vars
  BY <1>1
<1> QED BY <1>2, AggregatorInvariant, PTL DEF Spec, NobodyIsLiveAfterAGap
-----------------------------------------------------------------------------
\* The results still to be stored are of rows that are there under the same id.
BatchIsListed ==
  cycle.pc # "idle" =>
    \A b \in cycle.batch : \E r \in services : r.id = b.id /\ r.key = b.key

\* A non-empty list has a first entry in ORDER BY name, host.
LEMMA FirstIsListed ==
  ASSUME NEW list, list # {}, \A b \in list : b.key \in Keys
  PROVE  FirstOf(list) \in list
<1> DEFINE keys == {b.key : b \in list}
<1>1. keys \subseteq Nat /\ keys # {}
  BY KeysAreRanks
<1>2. PICK k \in keys : \A j \in keys : <<j, k>> \notin OpToRel(<, Nat)
  <2> HIDE DEF keys
  <2> QED BY <1>1, WFMin, NatLessThanWellFounded
<1>3. PICK b \in list : b.key = k
  OBVIOUS
<1>4. ASSUME NEW c \in list
      PROVE  b.key <= c.key
  <2>1. c.key \in keys /\ c.key \in Nat /\ k \in Nat
    BY <1>1
  <2>2. ~(c.key < k)
    <3> HIDE DEF keys
    <3> QED BY <1>2, <2>1, Zenon DEF OpToRel
  <2> QED BY <1>3, <2>1, <2>2
<1> QED BY <1>4 DEF FirstOf

\* What all operations but Remove leave of a row.
RowsStay == \A r \in services : \E s \in services' : s.id = r.id /\ s.key = r.key

\* The rows that no result touches.
Untouched(r, s) == s.checked = r.checked /\ (s.status = r.status \/ s.status = "unknown")

LEMMA UpsertLeavesRows ==
  ASSUME StoreInv, NEW key, NEW info, NEW source, NEW at,
         UpsertRegistration(key, info, source, at)
  PROVE  /\ RowsStay
         /\ \A r \in services, s \in services' : r.id = s.id => Untouched(r, s)
<1>1. CASE Insert(key, info, source, at)
  <2>1. \A r \in services : r.id < NextId(services) /\ r.id \in Int
    BY FreshIds DEF StoreInv, TypeOK, Row
  <2>2. \A s \in services' : s \in services \/ s.id = NextId(services)
    BY <1>1 DEF Insert
  <2>3. \A r \in services, s \in services' : r.id = s.id => s = r
    BY <2>1, <2>2 DEF StoreInv, Keyed
  <2>4. services \subseteq services'
    BY <1>1 DEF Insert
  <2> QED BY <2>3, <2>4 DEF RowsStay, Untouched
<1>2. CASE Update(key, info, source, at)
  <2> DEFINE New(r) == IF r.key = key THEN Renewed(r, info, source, at) ELSE r
  <2>1. services' = {New(r) : r \in services}
    BY <1>2 DEF Update
  <2>2. \A r \in services : /\ New(r).id = r.id /\ New(r).key = r.key
                            /\ New(r).checked = r.checked /\ New(r).status = r.status
    BY DEF Renewed, StoreInv, TypeOK, Row
  <2> HIDE DEF New
  <2> QED BY <2>1, <2>2 DEF RowsStay, Untouched, StoreInv, Keyed
<1> QED BY <1>1, <1>2 DEF UpsertRegistration

LEMMA MarkLeavesRows ==
  ASSUME StoreInv, NEW id, NEW at, MarkUnknown(id, at, "gap")
  PROVE  /\ RowsStay
         /\ \A r \in services, s \in services' : r.id = s.id => Untouched(r, s)
<1> DEFINE New(r) == IF r.id = id /\ r.status # "unknown"
                       THEN [r EXCEPT !.status = "unknown", !.reason = "gap", !.change = at]
                       ELSE r
<1>1. services' = {New(r) : r \in services}
  BY DEF MarkUnknown
<1>2. \A r \in services : /\ New(r).id = r.id /\ New(r).key = r.key
                          /\ New(r).checked = r.checked
                          /\ New(r).status = r.status \/ New(r).status = "unknown"
  BY DEF StoreInv, TypeOK, Row
<1> HIDE DEF New
<1> QED BY <1>1, <1>2 DEF RowsStay, Untouched, StoreInv, Keyed

LEMMA RecordLeavesOthers ==
  ASSUME StoreInv, NEW id, NEW status, NEW at, NEW reason, RecordCheck(id, status, at, reason)
  PROVE  /\ RowsStay
         /\ \A r \in services, s \in services' :
              r.id = s.id => s.key = r.key /\ (r.id = id \/ Untouched(r, s))
<1> DEFINE New(r) == IF r.id = id THEN Checked(r, status, at, reason) ELSE r
<1>1. services' = {New(r) : r \in services}
  BY DEF RecordCheck
<1>2. \A r \in services : /\ New(r).id = r.id /\ New(r).key = r.key
                          /\ r.id = id \/ New(r) = r
  BY DEF Checked, StoreInv, TypeOK, Row
<1> HIDE DEF New
<1>3. \A r \in services, s \in services' : r.id = s.id => s = New(r)
  BY <1>1, <1>2 DEF StoreInv, Keyed
<1> QED BY <1>1, <1>2, <1>3 DEF RowsStay, Untouched

LEMMA BatchStaysListed ==
  ASSUME ~MayRemoveLive, AggregatorInv, BatchIsListed, [Next]_vars
  PROVE  BatchIsListed'
<1> USE DEF AggregatorInv
<1>1. ASSUME RowsStay \/ UNCHANGED services,
             cycle'.pc # "idle" => cycle.pc # "idle" /\ cycle'.batch \subseteq cycle.batch
      PROVE  BatchIsListed'
  BY <1>1 DEF BatchIsListed, RowsStay
<1>2. CASE BeginCycle
  <2>1. cycle'.batch = {[id |-> r.id, key |-> r.key] : r \in services} /\ services' = services
    BY <1>2 DEF BeginCycle, Listed, storeVars
  <2> QED BY <2>1 DEF BatchIsListed
<1>3. CASE MarkGap
  <2>1. RowsStay /\ cycle' = cycle
    BY <1>3, MarkLeavesRows DEF MarkGap
  <2> QED BY <1>1, <2>1
<1>4. CASE Serve \/ Register
  <2>1. (RowsStay \/ UNCHANGED services) /\ cycle' = cycle
    BY <1>4, UpsertLeavesRows DEF Serve, Register, storeVars, procVars
  <2> QED BY <1>1, <2>1
<1>5. CASE RecordResult
  <2>1. RowsStay
    BY <1>5, RecordLeavesOthers DEF RecordResult
  <2>2. cycle.pc = "record" /\ cycle'.batch \subseteq cycle.batch
    BY <1>5 DEF RecordResult, AggregatorTypeOK
  <2> QED BY <1>1, <2>1, <2>2
<1>6. CASE RemoveCommand
  BY <1>6 DEF RemoveCommand, procVars, BatchIsListed
<1>7. CASE FinishCycle \/ CycleFails \/ Stop
  BY <1>7 DEF FinishCycle, CycleFails, Stop, Sleep, NoCycle, BatchIsListed
<1>8. CASE Tick \/ Start \/ EndChecks \/ Prune \/ UNCHANGED vars
  <2>1. services' = services
    BY <1>8 DEF Tick, Start, EndChecks, Prune, PruneEvents, storeVars, vars
  <2>2. cycle' = cycle \/ (cycle.pc # "idle" /\ cycle'.batch = cycle.batch)
    BY <1>8 DEF Tick, Start, EndChecks, Prune, procVars, vars, AggregatorTypeOK
  <2> QED BY <1>1, <2>1, <2>2
<1> QED BY <1>2, <1>3, <1>4, <1>5, <1>6, <1>7, <1>8 DEF Next

\* Provided that nothing is removed while a cycle is in flight, every result is
\* stored on the service that was polled, in any order of the other steps.
THEOREM ResultsLandOnTheirs ==
  ASSUME ~MayRemoveLive
  PROVE  Spec => ResultsLandOnTheirService
<1>1. ASSUME AggregatorInv, BatchIsListed, [Next]_vars,
             NEW r \in services, NEW s \in services', r.id = s.id, ~Untouched(r, s)
      PROVE  FirstOf(cycle.batch).key = s.key
  <2> USE <1>1 DEF AggregatorInv
  <2>1. \A q \in services : q.id = r.id => q = r
    BY DEF StoreInv, Keyed
  <2>2. RecordResult
    <3>1. ~(Serve \/ Register)
      BY UpsertLeavesRows, <2>1 DEF Serve, Register, storeVars, Untouched
    <3>2. ~MarkGap
      BY MarkLeavesRows DEF MarkGap
    <3>3. ~(services' \subseteq services)
      BY <2>1 DEF Untouched
    <3>4. ~RemoveCommand
      BY <3>3 DEF RemoveCommand, Remove
    <3> QED BY <3>1, <3>2, <3>3, <3>4
        DEF Next, Tick, Start, Stop, Prune, PruneEvents, BeginCycle, EndChecks, FinishCycle,
            SetMeta, CycleFails, storeVars, vars
  <2> DEFINE b == FirstOf(cycle.batch)
  <2>3. b \in cycle.batch /\ cycle.pc # "idle"
    <3>1. \A c \in cycle.batch : c.key \in Keys
      BY DEF AggregatorTypeOK
    <3> QED BY <2>2, <3>1, FirstIsListed DEF RecordResult
  <2>4. PICK status \in {"up", "down"} : RecordCheck(b.id, status, cycle.at, ReasonOf(status))
    BY <2>2 DEF RecordResult, Outcomes, RowOf
  <2> HIDE DEF b
  <2>5. s.key = r.key /\ r.id = b.id
    BY <2>4, RecordLeavesOthers
  <2>6. PICK q \in services : q.id = b.id /\ q.key = b.key
    BY <2>3 DEF BatchIsListed
  <2> QED BY <2>1, <2>5, <2>6 DEF b
<1>2. AggregatorInv /\ BatchIsListed /\ [Next]_vars =>
        [\A r \in services, s \in services' :
           r.id = s.id
             /\ (r.checked # s.checked \/ (r.status # s.status /\ s.status # "unknown"))
             => FirstOf(cycle.batch).key = s.key]_vars
  BY <1>1 DEF Untouched
<1>3. AggregatorInv /\ BatchIsListed /\ [Next]_vars => BatchIsListed'
  BY BatchStaysListed
<1>4. Init => BatchIsListed
  BY DEF Init, NoCycle, BatchIsListed
<1> QED BY <1>2, <1>3, <1>4, AggregatorInvariant, PTL DEF Spec, ResultsLandOnTheirService
=============================================================================
