----------------------------- MODULE WebProofs -----------------------------
(***************************************************************************)
(* Requests and pages run on the aggregator without disturbing it: every   *)
(* step of module Web is a step of module Aggregator, so all that is       *)
(* proved about the aggregator and its store holds with any number of      *)
(* requests under way.  No row comes from an unvetted request.  And the    *)
(* three reads a page is made of fit together: no row of it is drawn with  *)
(* the events of another service, and its banner agrees with its strips.   *)
(***************************************************************************)
EXTENDS Web, HonestGapsProofs

\* A request under way asks for something that can be stored, of a process that
\* runs; it is past check_target only if that has allowed its host.
PostsAreSound ==
  /\ post \in [Requests -> [pc : {"none", "checking", "allowed"},
                            key : Keys \cup {None}, info : Infos \cup {None}]]
  /\ \A q \in Requests : post[q].pc # "none" =>
       proc = "running" /\ post[q].key \in Keys /\ post[q].info \in Infos
  /\ \A q \in Requests : post[q].pc = "allowed" => post[q].key \in vetted

WebInv == PostsAreSound /\ RowsWereVetted
-----------------------------------------------------------------------------
\* What a step means to the aggregator.
LEMMA WebStepIsAStep ==
  ASSUME PostsAreSound, [WebNext]_allVars
  PROVE  [Next]_vars
<1>1. CASE RestOfProcess
  BY <1>1 DEF RestOfProcess, Next
<1>2. CASE StopAll
  BY <1>2 DEF StopAll, Next
<1>3. CASE SelfRegister
  <2>1. SelfKey \in Keys
    BY <1>3, SelfIsAKey DEF SelfRegister
  <2> QED BY <1>3, <2>1 DEF SelfRegister, Register, Next
<1>4. ASSUME NEW q \in Requests, Upsert(q)
      PROVE  Register
  <2>1. proc = "running" /\ post[q].key \in Keys /\ post[q].info \in Infos
    BY <1>4 DEF Upsert, ChecksEnded, PostsAreSound
  <2> QED BY <1>4, <2>1 DEF Upsert, Register, RegisteredAt
<1>5. ASSUME NEW q \in Requests, Post(q) \/ Refuse(q) \/ Allow(q)
      PROVE  UNCHANGED vars
  BY <1>5 DEF Post, Refuse, Allow
<1>6. CASE BeginPage \/ ListRows \/ ReadEvents \/ ShowPage
  BY <1>6 DEF BeginPage, ListRows, ReadEvents, ShowPage
<1>7. CASE UNCHANGED allVars
  BY <1>7 DEF allVars
<1> QED BY <1>1, <1>2, <1>3, <1>4, <1>5, <1>6, <1>7 DEF WebNext, Next

LEMMA PostsStaySound ==
  ASSUME PostsAreSound, [WebNext]_allVars
  PROVE  PostsAreSound'
<1>1. CASE RestOfProcess
  <2>1. proc = "running" => proc' = "running"
    BY <1>1 DEF RestOfProcess, Tick, Start, MarkGap, Serve, RemoveCommand, Prune, BeginCycle,
                EndChecks, RecordResult, FinishCycle, CycleFails, procVars
  <2> QED BY <1>1, <2>1 DEF RestOfProcess, webVars, PostsAreSound
<1>2. CASE StopAll
  BY <1>2 DEF StopAll, NoPost, PostsAreSound
<1>3. CASE SelfRegister
  BY <1>3 DEF SelfRegister, procVars, webVars, PostsAreSound
<1>4. ASSUME NEW q \in Requests, Post(q)
      PROVE  PostsAreSound'
  BY <1>4 DEF Post, Asked, vars, procVars, PostsAreSound
<1>5. ASSUME NEW q \in Requests, Refuse(q)
      PROVE  PostsAreSound'
  BY <1>5 DEF Refuse, NoPost, vars, procVars, PostsAreSound
<1>6. ASSUME NEW q \in Requests, Allow(q)
      PROVE  PostsAreSound'
  BY <1>6 DEF Allow, vars, procVars, PostsAreSound
<1>7. ASSUME NEW q \in Requests, Upsert(q)
      PROVE  PostsAreSound'
  BY <1>7 DEF Upsert, NoPost, procVars, PostsAreSound
<1>8. CASE BeginPage \/ ListRows \/ ReadEvents \/ ShowPage
  BY <1>8 DEF BeginPage, ListRows, ReadEvents, ShowPage, vars, procVars, PostsAreSound
<1>9. CASE UNCHANGED allVars
  BY <1>9 DEF allVars, vars, procVars, webVars, PostsAreSound
<1> QED BY <1>1, <1>2, <1>3, <1>4, <1>5, <1>6, <1>7, <1>8, <1>9 DEF WebNext

\* Only a request brings a new key or a new source.
LEMMA UpsertIsVetted ==
  ASSUME AggregatorInv, RowsWereVetted, NEW key, NEW info, NEW source, NEW at,
         UpsertRegistration(key, info, source, at),
         source = "register" => key \in vetted', vetted \subseteq vetted'
  PROVE  RowsWereVetted'
<1> SUFFICES ASSUME NEW s \in services', s.source = "register"
             PROVE  s.key \in vetted'
  BY DEF RowsWereVetted
<1>1. CASE s \in services
  BY <1>1 DEF RowsWereVetted
<1>2. CASE Insert(key, info, source, at) /\ s \notin services
  BY <1>2 DEF Insert
<1>3. CASE Update(key, info, source, at) /\ s \notin services
  <2>1. PICK r \in services :
          s = IF r.key = key THEN Renewed(r, info, source, at) ELSE r
    BY <1>3 DEF Update
  <2>2. r.key = key /\ s = Renewed(r, info, source, at)
    BY <1>3, <2>1
  <2>3. s.key = key /\ s.source = source
    BY <2>2 DEF Renewed, AggregatorInv, StoreInv, TypeOK, Row
  <2> QED BY <2>3
<1> QED BY <1>1, <1>2, <1>3 DEF UpsertRegistration

\* Results, marks and removals leave key and source of the rows alone.
LEMMA OtherwiseVetted ==
  ASSUME AggregatorInv, RowsWereVetted, vetted \subseteq vetted',
         \A s \in services' : \E r \in services : s.key = r.key /\ s.source = r.source
  PROVE  RowsWereVetted'
BY DEF RowsWereVetted

LEMMA ProcessKeepsVetted ==
  ASSUME AggregatorInv, RowsWereVetted, RestOfProcess
  PROVE  RowsWereVetted'
<1>0. vetted' = vetted
  BY DEF RestOfProcess, webVars
<1>1. CASE services' = services
  BY <1>0, <1>1 DEF RowsWereVetted
<1>2. CASE MarkGap
  <2>1. PICK id : MarkUnknown(id, gap.at, "gap")
    BY <1>2 DEF MarkGap
  <2>2. ASSUME NEW s \in services'
        PROVE  \E r \in services : s.key = r.key /\ s.source = r.source
    BY <2>1 DEF MarkUnknown, AggregatorInv, StoreInv, TypeOK, Row
  <2> QED BY <1>0, <2>2, OtherwiseVetted
<1>3. CASE RecordResult
  <2>1. PICK id, status, reason : RecordCheck(id, status, cycle.at, reason)
    BY <1>3 DEF RecordResult
  <2>2. ASSUME NEW s \in services'
        PROVE  \E r \in services : s.key = r.key /\ s.source = r.source
    BY <2>1 DEF RecordCheck, Checked, AggregatorInv, StoreInv, TypeOK, Row
  <2> QED BY <1>0, <2>2, OtherwiseVetted
<1>4. CASE RemoveCommand
  <2>1. services' \subseteq services
    BY <1>4 DEF RemoveCommand, Remove
  <2> QED BY <1>0, <2>1, OtherwiseVetted
<1>5. CASE Serve
  <2>1. CASE services' # services
    <3>1. PICK info \in Infos : UpsertRegistration(SelfKey, info, "self", now)
      BY <1>5, <2>1 DEF Serve, storeVars
    <3> QED BY <1>0, <3>1, UpsertIsVetted
  <2> QED BY <1>1, <2>1
<1>6. CASE ~(MarkGap \/ RecordResult \/ RemoveCommand \/ Serve)
  <2>1. services' = services
    BY <1>6 DEF RestOfProcess, Tick, Start, Prune, PruneEvents, BeginCycle, EndChecks,
                FinishCycle, SetMeta, CycleFails, storeVars
  <2> QED BY <1>1, <2>1
<1> QED BY <1>2, <1>3, <1>4, <1>5, <1>6

LEMMA VettingIsKept ==
  ASSUME AggregatorInv, WebInv, [WebNext]_allVars
  PROVE  RowsWereVetted'
<1>1. CASE RestOfProcess
  BY <1>1, ProcessKeepsVetted DEF WebInv
<1>2. CASE StopAll
  BY <1>2 DEF StopAll, Stop, storeVars, WebInv, RowsWereVetted
<1>3. CASE SelfRegister
  <2>1. PICK info \in Infos : UpsertRegistration(SelfKey, info, "self", now)
    BY <1>3 DEF SelfRegister
  <2>2. vetted' = vetted
    BY <1>3 DEF SelfRegister, webVars
  <2> QED BY <2>1, <2>2, UpsertIsVetted DEF WebInv
<1>4. ASSUME NEW q \in Requests, Upsert(q)
      PROVE  RowsWereVetted'
  <2>1. /\ UpsertRegistration(post[q].key, post[q].info, "register", RegisteredAt)
        /\ vetted' = vetted
    BY <1>4 DEF Upsert
  <2>2. post[q].key \in vetted
    BY <1>4 DEF Upsert, ChecksEnded, WebInv, PostsAreSound
  <2> QED BY <2>1, <2>2, UpsertIsVetted DEF WebInv
<1>5. ASSUME NEW q \in Requests, Post(q) \/ Refuse(q) \/ Allow(q)
      PROVE  RowsWereVetted'
  BY <1>5 DEF Post, Refuse, Allow, vars, storeVars, WebInv, RowsWereVetted
<1>6. CASE BeginPage \/ ListRows \/ ReadEvents \/ ShowPage
  BY <1>6 DEF BeginPage, ListRows, ReadEvents, ShowPage, vars, storeVars, WebInv, RowsWereVetted
<1>7. CASE UNCHANGED allVars
  BY <1>7 DEF allVars, vars, storeVars, webVars, WebInv, RowsWereVetted
<1> QED BY <1>1, <1>2, <1>3, <1>4, <1>5, <1>6, <1>7 DEF WebNext
-----------------------------------------------------------------------------
\* The inductive invariant of the web application, on that of the aggregator.
THEOREM WebInvariant == WebSpec => [](WebInv /\ AggregatorInv)
<1>1. WebInit => WebInv /\ AggregatorInv
  BY AggregatorInvInitially
  DEF WebInit, Init, StoreInit, NoPost, WebInv, PostsAreSound, RowsWereVetted
<1>2. WebInv /\ AggregatorInv /\ [WebNext]_allVars => (WebInv /\ AggregatorInv)'
  BY WebStepIsAStep, AggregatorInvIsInductive, PostsStaySound, VettingIsKept DEF WebInv
<1> QED BY <1>1, <1>2, PTL DEF WebSpec

\* Requests and pages, refused, repeated or cut off, change nothing but by the
\* steps of module Aggregator: its theorems hold of the whole program.
THEOREM WebRunsTheAggregator == WebSpec => Spec
<1>1. WebInit => Init
  BY DEF WebInit
<1>2. WebInv /\ [WebNext]_allVars => [Next]_vars
  BY WebStepIsAStep DEF WebInv
<1> QED BY <1>1, <1>2, WebInvariant, PTL DEF WebSpec, Spec

\* Every row that came by /register has a host that check_target allowed.
THEOREM OnlyVettedRows == WebSpec => []RowsWereVetted
<1>1. WebInv => RowsWereVetted
  BY DEF WebInv
<1> QED BY <1>1, WebInvariant, PTL
-----------------------------------------------------------------------------
\* A page is built by the process that began it, and its time is not in the future.
PageIsCurrent ==
  /\ page \in [pc : {"none", "list", "events", "before"}, at : Time \cup {None},
               rows : SUBSET Row, events : SUBSET Event, seen : SUBSET Row]
  /\ page.pc # "none" => proc = "running" /\ page.at \in Time /\ page.at <= now

PageStep == UNCHANGED vars /\ (BeginPage \/ ListRows \/ ReadEvents \/ ShowPage)

\* What else a step can be to a page.
LEMMA PageSteps ==
  ASSUME PostsAreSound, [WebNext]_allVars
  PROVE  \/ PageStep
         \/ page' = NoPage
         \/ page' = page /\ [Next]_vars /\ (proc = "running" => proc' = "running")
<1>1. [Next]_vars
  BY WebStepIsAStep
<1>2. CASE RestOfProcess
  <2>1. proc = "running" => proc' = "running"
    BY <1>2 DEF RestOfProcess, Tick, Start, MarkGap, Serve, RemoveCommand, Prune, BeginCycle,
                EndChecks, RecordResult, FinishCycle, CycleFails, procVars
  <2> QED BY <1>1, <1>2, <2>1 DEF RestOfProcess, webVars
<1>3. CASE StopAll
  BY <1>3 DEF StopAll
<1>4. CASE SelfRegister
  BY <1>1, <1>4 DEF SelfRegister, procVars, webVars
<1>5. ASSUME NEW q \in Requests, Post(q) \/ Refuse(q) \/ Allow(q) \/ Upsert(q)
      PROVE  page' = page /\ proc' = proc
  BY <1>5 DEF Post, Refuse, Allow, Upsert, vars, procVars
<1>6. CASE BeginPage \/ ListRows \/ ReadEvents \/ ShowPage
  BY <1>6 DEF PageStep, BeginPage, ListRows, ReadEvents, ShowPage
<1>7. CASE UNCHANGED allVars
  BY <1>1, <1>7 DEF allVars, vars, procVars, webVars
<1> QED BY <1>1, <1>2, <1>3, <1>4, <1>5, <1>6, <1>7 DEF WebNext

LEMMA TimeGoesOn ==
  ASSUME AggregatorInv, [Next]_vars
  PROVE  now' >= now /\ horizon' >= horizon /\ now \in Int /\ horizon \in Int /\ horizon' \in Int
<1>1. now \in Int /\ horizon \in Int
  BY TimeIsBounded DEF AggregatorInv, AggregatorTypeOK, Time
<1>2. now' = now \/ now' = now + 1
  BY DEF Next, Tick, Start, MarkGap, Serve, Register, RemoveCommand, Prune, BeginCycle,
         EndChecks, RecordResult, FinishCycle, CycleFails, Stop, vars
<1>3. horizon' = horizon \/ horizon' = MaxOf(horizon, now - Retention)
  BY DEF Next, Tick, Start, MarkGap, Serve, Register, RemoveCommand, Prune, BeginCycle,
         EndChecks, RecordResult, FinishCycle, CycleFails, Stop, vars, historyVars
<1> QED BY <1>1, <1>2, <1>3, RetentionIsNatural DEF MaxOf

LEMMA PageStaysCurrent ==
  ASSUME AggregatorInv, PostsAreSound, PageIsCurrent, [WebNext]_allVars
  PROVE  PageIsCurrent'
<1>0. CASE page' = NoPage
  BY <1>0 DEF NoPage, PageIsCurrent
<1>1. CASE page' = page /\ [Next]_vars /\ (proc = "running" => proc' = "running")
  <2>1. now' >= now /\ now \in Int /\ now' \in Int
    BY <1>1, TimeGoesOn, TimeIsBounded, WebStepIsAStep, AggregatorInvIsInductive
    DEF AggregatorInv, AggregatorTypeOK, Time
  <2>2. page.at \in Time => page.at \in Int
    BY TimeIsBounded DEF Time
  <2> QED BY <1>1, <2>1, <2>2 DEF PageIsCurrent
<1>2. CASE PageStep
  <2>1. /\ services \subseteq Row /\ events \subseteq Event
        /\ now \in Time /\ now \in Int /\ now' = now /\ proc' = proc
    BY <1>2, TimeIsBounded
    DEF PageStep, AggregatorInv, AggregatorTypeOK, TypeOK, Time, vars, procVars
  <2>2. CASE BeginPage
    <3>1. page' = [pc |-> "list", at |-> now, rows |-> {}, events |-> {}, seen |-> {}]
      BY <2>2 DEF BeginPage, NoPage
    <3>2. proc = "running" /\ now <= now
      BY <2>1, <2>2 DEF BeginPage
    <3> QED BY <2>1, <3>1, <3>2 DEF PageIsCurrent
  <2>3. CASE ListRows
    BY <2>1, <2>3 DEF ListRows, PageIsCurrent
  <2>4. CASE ReadEvents
    BY <2>1, <2>4 DEF ReadEvents, PageIsCurrent
  <2>5. CASE ShowPage
    BY <1>0, <2>5 DEF ShowPage
  <2> QED BY <1>2, <2>2, <2>3, <2>4, <2>5 DEF PageStep
<1> QED BY <1>0, <1>1, <1>2, PageSteps
-----------------------------------------------------------------------------
\* A service that got the id of a listed row since has only events after the page's
\* time, and the results that are under way for it are not older either.
NewcomersAreLater ==
  page.pc = "events" =>
    \A r \in page.rows, s \in services : s.id = r.id /\ s.key # r.key =>
      /\ \A e \in EventsOf(s) : e.at >= page.at
      /\ cycle.pc # "idle" => \A b \in cycle.batch : b.id = s.id => cycle.at >= page.at

SeenIsLater ==
  page.pc = "before" =>
    \A r \in page.rows, s \in page.seen : s.id = r.id /\ s.key # r.key =>
      \A e \in page.events : e.svc = r.id => e.at >= page.at

\* What a running process logs is a result of its cycle.
LEMMA OnlyResultsAreLogged ==
  ASSUME AggregatorInv, [Next]_vars, proc = "running"
  PROVE  \/ events' \subseteq events
         \/ /\ cycle.pc = "record"
            /\ \E b \in cycle.batch :
                 \A e \in events' \ events : e.svc = b.id /\ e.at = cycle.at
<1>1. CASE RecordResult
  <2> DEFINE b == FirstOf(cycle.batch)
  <2>1. b \in cycle.batch /\ cycle.pc = "record"
    <3>1. \A c \in cycle.batch : c.key \in Keys
      BY DEF AggregatorInv, AggregatorTypeOK
    <3> QED BY <1>1, <3>1, FirstIsListed DEF RecordResult
  <2>2. PICK status \in {"up", "down"} : RecordCheck(b.id, status, cycle.at, ReasonOf(status))
    BY <1>1 DEF RecordResult, Outcomes, RowOf
  <2> HIDE DEF b
  <2>3. \A e \in events' \ events : e.svc = b.id /\ e.at = cycle.at
    BY <2>2 DEF RecordCheck, Logged
  <2> QED BY <2>1, <2>3
<1>2. CASE Register
  BY <1>2 DEF Register, UpsertRegistration, Insert, Update
<1>3. CASE RemoveCommand \/ Prune
  BY <1>3 DEF RemoveCommand, Remove, Prune, PruneEvents
<1>4. CASE \/ Tick \/ Stop \/ BeginCycle \/ EndChecks \/ FinishCycle \/ CycleFails
           \/ UNCHANGED vars
  BY <1>4 DEF Tick, Stop, BeginCycle, EndChecks, FinishCycle, SetMeta, CycleFails, storeVars, vars
<1>5. ~(Start \/ MarkGap \/ Serve)
  BY DEF Start, MarkGap, Serve
<1> QED BY <1>1, <1>2, <1>3, <1>4, <1>5 DEF Next

\* A cycle that goes on has no results to store but its own, a new one is of now.
LEMMA CycleGoesOn ==
  ASSUME AggregatorInv, [Next]_vars, cycle'.pc # "idle"
  PROVE  \/ cycle.pc # "idle" /\ cycle'.at = cycle.at /\ cycle'.batch \subseteq cycle.batch
         \/ cycle'.at = now
<1>1. CASE BeginCycle
  BY <1>1 DEF BeginCycle
<1>2. CASE EndChecks \/ RecordResult
  <2>1. cycle = [pc |-> cycle.pc, at |-> cycle.at, batch |-> cycle.batch, stored |-> cycle.stored]
    BY DEF AggregatorInv, AggregatorTypeOK
  <2>2. cycle.pc # "idle" /\ cycle'.at = cycle.at
    BY <1>2, <2>1 DEF EndChecks, RecordResult
  <2>3. cycle'.batch \subseteq cycle.batch
    BY <1>2, <2>1 DEF EndChecks, RecordResult
  <2> QED BY <2>2, <2>3
<1>3. CASE FinishCycle \/ CycleFails \/ Stop
  BY <1>3 DEF FinishCycle, CycleFails, Stop, Sleep, NoCycle
<1>4. CASE ~(BeginCycle \/ EndChecks \/ RecordResult \/ FinishCycle \/ CycleFails \/ Stop)
  <2>1. cycle' = cycle
    BY <1>4 DEF Next, Tick, Start, MarkGap, Serve, Register, RemoveCommand, Prune, procVars, vars
  <2> QED BY <2>1
<1> QED BY <1>1, <1>2, <1>3, <1>4

LEMMA NewcomersStayLater ==
  ASSUME AggregatorInv, BatchIsListed, PageIsCurrent, NewcomersAreLater, page' = page,
         [Next]_vars
  PROVE  NewcomersAreLater'
<1> SUFFICES ASSUME page.pc = "events", NEW r \in page.rows, NEW s \in services',
                    s.id = r.id, s.key # r.key
             PROVE  /\ \A e \in EventsOf(s)' : e.at >= page.at
                    /\ cycle'.pc # "idle" =>
                         \A b \in cycle'.batch : b.id = s.id => cycle'.at >= page.at
  BY DEF NewcomersAreLater
<1>1. proc = "running" /\ page.at <= now
  BY DEF PageIsCurrent
<1>2. \A q \in services : q.id = s.id => q.key = s.key
  BY StepIsAStoreStep, StepsKeepKeys DEF AggregatorInv
<1>3. \A q \in services : q.id = s.id =>
        /\ \A e \in EventsOf(q) : e.at >= page.at
        /\ cycle.pc # "idle" => \A b \in cycle.batch : b.id = s.id => cycle.at >= page.at
  BY <1>2 DEF NewcomersAreLater
<1>4. \A e \in events : e.svc = s.id => e.at >= page.at
  BY <1>3 DEF EventsOf, AggregatorInv, StoreInv, HistoryHasItsService
<1>5. cycle.pc # "idle" => \A b \in cycle.batch : b.id = s.id => cycle.at >= page.at
  BY <1>3 DEF BatchIsListed
<1>6. ASSUME NEW e \in events', e.svc = s.id
      PROVE  e.at >= page.at
  BY <1>1, <1>4, <1>5, <1>6, OnlyResultsAreLogged
<1>7. ASSUME cycle'.pc # "idle", NEW b \in cycle'.batch, b.id = s.id
      PROVE  cycle'.at >= page.at
  <2>1. now \in Int /\ page.at \in Int
    BY TimeIsBounded DEF AggregatorInv, AggregatorTypeOK, PageIsCurrent, Time
  <2>2. CASE cycle'.at = now
    BY <1>1, <2>1, <2>2
  <2> QED BY <1>5, <1>7, <2>2, CycleGoesOn
<1> QED BY <1>6, <1>7 DEF EventsOf

LEMMA OwnHistoryIsKept ==
  ASSUME AggregatorInv, PostsAreSound, BatchIsListed, PageIsCurrent,
         NewcomersAreLater, SeenIsLater, [WebNext]_allVars
  PROVE  NewcomersAreLater' /\ SeenIsLater'
<1>1. CASE page' = NoPage
  BY <1>1 DEF NoPage, NewcomersAreLater, SeenIsLater
<1>2. CASE page' = page /\ [Next]_vars
  BY <1>2, NewcomersStayLater DEF SeenIsLater
<1>3. CASE PageStep
  <2>1. services' = services /\ events' = events /\ cycle' = cycle
    BY <1>3 DEF PageStep, vars, storeVars, procVars
  <2>2. CASE BeginPage
    BY <2>2 DEF BeginPage, NoPage, NewcomersAreLater, SeenIsLater
  <2>3. CASE ListRows
    <3>1. page'.pc = "events" /\ page'.rows = services
      BY <2>3 DEF ListRows, PageIsCurrent
    <3>2. \A r, t \in services : r.id = t.id => r.key = t.key
      BY DEF AggregatorInv, StoreInv, Keyed
    <3> QED BY <2>1, <3>1, <3>2 DEF NewcomersAreLater, SeenIsLater
  <2>4. CASE ReadEvents
    <3>1. /\ page.pc = "events" /\ page'.pc = "before" /\ page'.rows = page.rows
          /\ page'.seen = services /\ page'.events \subseteq events /\ page'.at = page.at
      BY <2>4 DEF ReadEvents, PageIsCurrent
    <3> QED BY <3>1 DEF NewcomersAreLater, SeenIsLater, EventsOf
  <2>5. CASE ShowPage
    BY <1>1, <2>5 DEF ShowPage
  <2> QED BY <1>3, <2>2, <2>3, <2>4, <2>5 DEF PageStep
<1> QED BY <1>1, <1>2, <1>3, PageSteps

\* A removed service's id may return between the reads of a page: its row never shows
\* the events of the service that has the id since, if nothing is removed while a cycle
\* is in flight.
THEOREM PagesShowTheirOwn ==
  ASSUME ~MayRemoveLive
  PROVE  WebSpec => PageShowsOwnHistory
<1> DEFINE Inv == /\ WebInv /\ AggregatorInv /\ BatchIsListed /\ PageIsCurrent
                  /\ NewcomersAreLater /\ SeenIsLater
<1>1. WebInit => Inv
  BY AggregatorInvInitially
  DEF WebInit, Init, StoreInit, NoCycle, NoPost, NoPage, WebInv, PostsAreSound, RowsWereVetted,
      BatchIsListed, PageIsCurrent, NewcomersAreLater, SeenIsLater
<1>2. Inv /\ [WebNext]_allVars => Inv'
  <2> SUFFICES ASSUME Inv, [WebNext]_allVars PROVE Inv'
    OBVIOUS
  <2>1. [Next]_vars
    BY WebStepIsAStep DEF WebInv
  <2>2. WebInv' /\ AggregatorInv'
    BY <2>1, AggregatorInvIsInductive, PostsStaySound, VettingIsKept DEF WebInv
  <2>3. BatchIsListed'
    BY <2>1, BatchStaysListed
  <2>4. PageIsCurrent' /\ NewcomersAreLater' /\ SeenIsLater'
    BY PageStaysCurrent, OwnHistoryIsKept DEF WebInv
  <2> QED BY <2>2, <2>3, <2>4
<1>3. Inv => [ShowPage => \A r \in page.rows :
                (\E s \in page.seen : s.id = r.id /\ s.key # r.key) => DrawnOf(r) = {}]_page
  <2> SUFFICES ASSUME Inv, ShowPage, NEW r \in page.rows, NEW s \in page.seen,
                      s.id = r.id, s.key # r.key, NEW e \in DrawnOf(r)
               PROVE  FALSE
    OBVIOUS
  <2>1. e \in page.events /\ e.svc = r.id /\ e.at < page.at
    BY DEF DrawnOf, Drawn
  <2>2. e.at >= page.at
    BY <2>1 DEF ShowPage, SeenIsLater
  <2>3. e.at \in Int /\ page.at \in Int
    BY <2>1, TimeIsBounded DEF ShowPage, PageIsCurrent, Event, Time
  <2> QED BY <2>1, <2>2, <2>3
<1> HIDE DEF Inv
<1> QED BY <1>1, <1>2, <1>3, PTL DEF WebSpec, PageShowsOwnHistory
-----------------------------------------------------------------------------
\* Of evs, e is the last by time and then by id.
IsLastOf(e, evs) == \A d \in evs : d.at < e.at \/ (d.at = e.at /\ d.id <= e.id)

ReadOf(id) == {e \in page.events : e.svc = id}

\* What was read of the log agrees with the rows of that moment: nothing of a row that
\* never changed, and of any other row whose entry into its status no prune has reached
\* that entry last, or nothing because all of it lies before the window.
ReadIsSound ==
  page.pc = "before" =>
    /\ \A d, e \in page.events : d.id = e.id => d = e
    /\ \A s \in page.seen :
         IF s.change = None THEN ReadOf(s.id) = {}
         ELSE s.change >= horizon =>
                \/ \E e \in ReadOf(s.id) :
                     e.at = s.change /\ e.to = s.status /\ IsLastOf(e, ReadOf(s.id))
                \/ s.change < WindowStart /\ ReadOf(s.id) = {}

\* The newest event by id is the last one in time.
LEMMA NewestIsLast ==
  ASSUME AggregatorInv, EventsInOrder, NEW s, NEW e \in EventsOf(s),
         \A d \in EventsOf(s) : d.id <= e.id
  PROVE  IsLastOf(e, EventsOf(s))
<1> SUFFICES ASSUME NEW d \in EventsOf(s)
             PROVE  d.at < e.at \/ (d.at = e.at /\ d.id <= e.id)
  BY DEF IsLastOf
<1>1. /\ d \in events /\ e \in events /\ d.svc = e.svc
      /\ d.id \in Nat /\ e.id \in Nat /\ d.at \in Nat /\ e.at \in Nat
  BY Types DEF EventsOf
<1>2. d.id = e.id => d = e
  BY <1>1 DEF AggregatorInv, StoreInv, Keyed
<1>3. d.id < e.id => d.at <= e.at
  BY <1>1 DEF EventsInOrder
<1> QED BY <1>1, <1>2, <1>3

\* A row that never changed has no events.
LEMMA UnchangedHasNone ==
  ASSUME AggregatorInv, NEW s \in services, s.change = None
  PROVE  EventsOf(s) = {}
<1>1. \A e \in events : e.at \in Nat
  BY Types
<1>2. None \notin Nat
  BY NoneIsNoValue
<1>3. RowIsLogged(s)
  BY DEF AggregatorInv, StoreInv, StateIsLogged
<1> QED BY <1>1, <1>2, <1>3 DEF RowIsLogged, EventsOf

\* What ReadEvents takes of a row.
LEMMA ReadIsSoundAtFirst ==
  ASSUME AggregatorInv, EventsInOrder, RecentChangesAreLogged, PageIsCurrent, ReadEvents
  PROVE  ReadIsSound'
<1>1. /\ page'.seen = services /\ page'.at = page.at
      /\ page'.events = {e \in events : e.at >= WindowStart}
      /\ services' = services /\ events' = events /\ horizon' = horizon
  BY DEF ReadEvents, PageIsCurrent, vars, storeVars, historyVars
<1>2. WindowStart' = WindowStart /\ WindowStart \in Int
  <2>1. page.at \in Int
    BY TimeIsBounded DEF PageIsCurrent, ReadEvents, Time
  <2> QED BY <1>1, <2>1, PageIsKept DEF WindowStart
<1>3. \A d, e \in page'.events : d.id = e.id => d = e
  BY <1>1 DEF AggregatorInv, StoreInv, Keyed
<1>4. ASSUME NEW s \in services, s.change = None
      PROVE  ReadOf(s.id)' = {}
  BY <1>1, <1>4, UnchangedHasNone DEF ReadOf, EventsOf
<1>5. ASSUME NEW s \in services, s.change # None, s.change >= horizon
      PROVE  \/ \E e \in ReadOf(s.id)' :
                  e.at = s.change /\ e.to = s.status /\ IsLastOf(e, ReadOf(s.id)')
             \/ s.change < WindowStart /\ ReadOf(s.id)' = {}
  <2>1. PICK e \in EventsOf(s) : /\ e.at = s.change /\ e.to = s.status
                                 /\ \A d \in EventsOf(s) : d.id <= e.id
    BY <1>5 DEF RecentChangesAreLogged, IsOnRecord
  <2>2. IsLastOf(e, EventsOf(s))
    BY <2>1, NewestIsLast
  <2>3. \A d \in EventsOf(s) : d.at \in Int
    BY Types DEF EventsOf
  <2>4. ReadOf(s.id)' = {d \in EventsOf(s) : d.at >= WindowStart}
    BY <1>1 DEF ReadOf, EventsOf
  <2>5. CASE e.at >= WindowStart
    <3>1. e \in ReadOf(s.id)' /\ ReadOf(s.id)' \subseteq EventsOf(s)
      BY <2>4, <2>5
    <3> QED BY <2>1, <2>2, <3>1 DEF IsLastOf
  <2>6. CASE e.at < WindowStart
    <3>1. \A d \in EventsOf(s) : d.at <= e.at
      BY <2>2, <2>3 DEF IsLastOf
    <3>2. ReadOf(s.id)' = {}
      BY <1>2, <2>3, <2>4, <2>6, <3>1
    <3> QED BY <2>1, <2>6, <3>2
  <2> QED BY <1>2, <2>3, <2>5, <2>6
<1> QED BY <1>1, <1>2, <1>3, <1>4, <1>5 DEF ReadIsSound

LEMMA ReadStaysSound ==
  ASSUME AggregatorInv, EventsInOrder, RecentChangesAreLogged, PostsAreSound, PageIsCurrent,
         ReadIsSound, [WebNext]_allVars
  PROVE  ReadIsSound'
<1>1. CASE page' = NoPage
  BY <1>1 DEF NoPage, ReadIsSound
<1>2. CASE page' = page /\ [Next]_vars
  <2> SUFFICES ASSUME page.pc = "before"
               PROVE  ReadIsSound'
    BY <1>2 DEF ReadIsSound
  <2>1. horizon' >= horizon /\ horizon' \in Int /\ horizon \in Int
    BY <1>2, TimeGoesOn
  <2>2. \A s \in page.seen : s.change # None => s.change \in Int
    BY TimeIsBounded DEF PageIsCurrent, Row, Time
  <2>3. \A s \in page.seen : s.change # None /\ s.change >= horizon' => s.change >= horizon
    BY <2>1, <2>2
  <2>4. WindowStart' = WindowStart /\ \A id : ReadOf(id)' = ReadOf(id)
    BY <1>2 DEF WindowStart, ReadOf
  <2> QED BY <1>2, <2>3, <2>4 DEF ReadIsSound
<1>3. CASE PageStep
  <2>1. CASE BeginPage \/ ListRows
    BY <2>1 DEF BeginPage, ListRows, NoPage, PageIsCurrent, ReadIsSound
  <2>2. CASE ReadEvents
    BY <2>2, ReadIsSoundAtFirst
  <2>3. CASE ShowPage
    BY <1>1, <2>3 DEF ShowPage
  <2> QED BY <1>3, <2>1, <2>2, <2>3 DEF PageStep
<1> QED BY <1>1, <1>2, <1>3, PageSteps

\* A row that came through the reads unchanged has a strip that ends with its status.
LEMMA SettledStripEnds ==
  ASSUME AggregatorInv, EventsInOrder, RecentChangesAreLogged, PageIsCurrent, ReadIsSound,
         page.pc = "before", NEW r \in page.rows, Settled(r)
  PROVE  StripEnd(r) = r.status
<1>1. PICK s \in page.seen : s.id = r.id /\ s.status = r.status /\ s.change = r.change
  BY DEF Settled
<1>2. PICK q \in services : q.id = r.id /\ q.status = r.status /\ q.change = r.change
  BY DEF Settled
<1>3. EventsOf(q) = {e \in events : e.svc = r.id}
  BY <1>2 DEF EventsOf
<1>4. CASE r.change = None
  <2>1. DrawnOf(r) = {}
    BY <1>1, <1>4 DEF ReadIsSound, ReadOf, DrawnOf
  <2>2. Before(r.id) = {}
    BY <1>2, <1>3, <1>4, UnchangedHasNone DEF Before
  <2>3. r.status = "unknown"
    BY <1>2, <1>4 DEF AggregatorInv, StoreInv, RowIsCoherent
  <2> QED BY <2>1, <2>2, <2>3 DEF StripEnd
<1>5. CASE r.change # None
  <2>1. r.change < page.at /\ r.change >= horizon
    BY <1>5 DEF Settled
  <2>2. CASE \E e \in ReadOf(r.id) :
               e.at = r.change /\ e.to = r.status /\ IsLastOf(e, ReadOf(r.id))
    <3>1. PICK e \in ReadOf(r.id) :
            e.at = r.change /\ e.to = r.status /\ IsLastOf(e, ReadOf(r.id))
      BY <2>2
    <3>2. e \in DrawnOf(r) /\ DrawnOf(r) \subseteq ReadOf(r.id)
      BY <2>1, <3>1 DEF DrawnOf, ReadOf, Drawn
    <3>3. IsLastOf(e, DrawnOf(r))
      BY <3>1, <3>2 DEF IsLastOf
    <3>4. ASSUME NEW d \in DrawnOf(r), IsLastOf(d, DrawnOf(r))
          PROVE  d = e
      <4>1. d \in page.events /\ e \in page.events
        BY <3>2 DEF DrawnOf
      <4>2. d.at \in Int /\ e.at \in Int /\ d.id \in Int /\ e.id \in Int
        BY <4>1, TimeIsBounded, IdsAreBounded DEF PageIsCurrent, Event, Time
      <4>3. d.id = e.id
        BY <3>2, <3>3, <3>4, <4>2 DEF IsLastOf
      <4> QED BY <4>1, <4>3 DEF ReadIsSound
    <3>5. (CHOOSE d \in DrawnOf(r) : IsLastOf(d, DrawnOf(r))) = e
      BY <3>2, <3>3, <3>4
    <3>6. (CHOOSE d \in DrawnOf(r) :
             \A c \in DrawnOf(r) : c.at < d.at \/ (c.at = d.at /\ c.id <= d.id)) = e
      BY <3>5 DEF IsLastOf
    <3> QED BY <3>1, <3>2, <3>6 DEF StripEnd
  <2>3. CASE r.change < WindowStart /\ ReadOf(r.id) = {}
    <3>1. DrawnOf(r) = {}
      BY <2>3 DEF DrawnOf, ReadOf
    <3>2. PICK e \in EventsOf(q) : /\ e.at = r.change /\ e.to = r.status
                                   /\ \A d \in EventsOf(q) : d.id <= e.id
      BY <1>2, <1>5, <2>1 DEF RecentChangesAreLogged, IsOnRecord
    <3>3. \A d \in EventsOf(q) : d \in events /\ d.id \in Nat
      BY Types DEF EventsOf
    <3>4. ASSUME NEW d \in Before(r.id)
          PROVE  d = e
      <4>1. d \in EventsOf(q) /\ e.id <= d.id
        BY <1>3, <2>3, <3>2 DEF Before
      <4>2. d.id = e.id
        BY <3>2, <3>3, <4>1
      <4> QED BY <3>2, <3>3, <4>1, <4>2 DEF AggregatorInv, StoreInv, Keyed
    <3>5. e \in Before(r.id)
      BY <1>3, <2>3, <3>2 DEF Before
    <3>6. Before(r.id) = {e}
      BY <3>4, <3>5
    <3> QED BY <3>1, <3>2, <3>6 DEF StripEnd
  <2> QED BY <1>1, <1>5, <2>1, <2>2, <2>3 DEF ReadIsSound
<1> QED BY <1>4, <1>5

\* Banner and strips of a page are made of different reads, and agree on every row that
\* came through them unchanged, provided that no cycle is cut after its first result.
THEOREM BannersMatchTheirStrips ==
  ASSUME ~MayCutShort
  PROVE  WebSpec => BannerMatchesStrips
<1> DEFINE Base == /\ WebInv /\ AggregatorInv /\ EventsInOrder /\ RecentChangesAreLogged
           Inv == PageIsCurrent /\ ReadIsSound
           Ends == {StripEnd(r) : r \in {s \in page.rows : Settled(s)}}
<1>1. WebInit => Inv
  BY DEF WebInit, NoPage, PageIsCurrent, ReadIsSound
<1>2. Base /\ Inv /\ [WebNext]_allVars => Inv'
  BY PageStaysCurrent, ReadStaysSound DEF WebInv
<1>3. WebSpec => []Base
  <2>1. Init => RecentChangesAreLogged
    BY DEF Init, StoreInit, RecentChangesAreLogged
  <2>2. AggregatorInv /\ RecentChangesAreLogged /\ [Next]_vars => RecentChangesAreLogged'
    BY RecordIsKept
  <2>3. Spec => []RecentChangesAreLogged
    BY <2>1, <2>2, AggregatorInvariant, PTL DEF Spec
  <2> QED BY <2>3, WebInvariant, WebRunsTheAggregator, EventsStayInOrder, PTL
<1>4. Base /\ Inv /\ ShowPage =>
        /\ BannerShown = "ok" => Ends \subseteq {"up"}
        /\ "down" \in Ends => BannerShown = "bad"
        /\ "unknown" \in Ends => BannerShown \in {"warn", "bad"}
  <2> SUFFICES ASSUME Base, Inv, ShowPage
               PROVE  /\ BannerShown = "ok" => Ends \subseteq {"up"}
                      /\ "down" \in Ends => BannerShown = "bad"
                      /\ "unknown" \in Ends => BannerShown \in {"warn", "bad"}
    OBVIOUS
  <2> DEFINE states == {Live(r) : r \in page.rows}
  <2>1. \A end \in Ends : \E r \in page.rows : end = r.status
    BY SettledStripEnds DEF ShowPage
  <2>2. \A r \in page.rows : r.status \in Statuses
    BY DEF PageIsCurrent, Row
  <2>3. \A r \in page.rows : r.status # "up" => r.status \in states
    BY DEF Live
  <2>4. BannerShown = Banner(states)
    BY DEF BannerShown
  <2> HIDE DEF Ends, states
  <2>5. \A end \in Ends : end = "up" \/ (end \in states /\ end \in {"down", "unknown"})
    BY <2>1, <2>2, <2>3 DEF Statuses
  <2>6. "down" \in states => Banner(states) = "bad"
    BY DEF Banner
  <2>7. "unknown" \in states => Banner(states) \in {"warn", "bad"}
    BY DEF Banner
  <2> QED BY <2>4, <2>5, <2>6, <2>7
<1>5. Base /\ Inv =>
        [ShowPage =>
           LET ends == {StripEnd(r) : r \in {s \in page.rows : Settled(s)}}
           IN  /\ BannerShown = "ok" => ends \subseteq {"up"}
               /\ "down" \in ends => BannerShown = "bad"
               /\ "unknown" \in ends => BannerShown \in {"warn", "bad"}]_page
  BY <1>4
<1> HIDE DEF Base, Inv
<1> QED BY <1>1, <1>2, <1>3, <1>5, PTL DEF WebSpec, BannerMatchesStrips
=============================================================================
