----------------------------- MODULE Aggregator -----------------------------
(***************************************************************************)
(* The aggregator process over its store: start-up with the detection of a *)
(* monitoring gap (runtime.py), the poll cycle (poller.py), registrations  *)
(* (web/app.py), the janitor, the remove command of another process, and   *)
(* the process stopping and starting again at any point, all against one   *)
(* clock.  Every step on the tables is an operation of StatusStore.        *)
(*                                                                         *)
(* Abstractions.  The checks of a cycle start together at the cycle's      *)
(* checked_at and their outcomes are chosen when they are recorded: no     *)
(* outcome is stored before every check has ended (module PollCycle has    *)
(* the checks one by one).  The janitor's hour and the self-registration   *)
(* interval are any time while the process runs.                           *)
(***************************************************************************)
EXTENDS StatusStore

CONSTANTS Interval,      \* polling.interval_seconds
          Retention,     \* history.retention_days
          SelfKey,       \* the aggregator's own (name, host), None: register_self off
          RegisterUntil, \* bound: no registration arrives later
          MayCutShort,   \* may a cycle end after its first result but before its last step
          MayRemoveLive  \* may the remove command run while a cycle is in flight

ASSUME IntervalIsPositive == Interval \in Nat \ {0}
ASSUME SourcesAreKnown == {"register", "self"} \subseteq Sources
ASSUME RetentionIsNatural == Retention \in Nat
ASSUME SelfIsAKey == SelfKey \in Keys \cup {None}
ASSUME ChoicesAreBoolean == MayCutShort \in BOOLEAN /\ MayRemoveLive \in BOOLEAN

VARIABLES now,      \* utcnow()
          proc,     \* "stopped", "starting" (detect_monitoring_gap) or "running"
          gap,      \* the marking under way: its time and the rows not yet marked
          cycle,    \* the poll cycle under way
          nextAt,   \* when the poll loop wakes up
          horizon,  \* history: the latest cutoff of a prune
          outages,  \* history: the outages long enough to be marked
          stopped   \* history: when the process stopped, while it is stopped

procVars == <<proc, gap, cycle, nextAt>>
historyVars == <<horizon, outages, stopped>>
vars == <<storeVars, now, procVars, historyVars>>

NoGap == [at |-> None, todo |-> {}]
NoCycle == [pc |-> "idle", at |-> None, batch |-> {}, stored |-> FALSE]

\* What list_services hands over: the rows as they were, in ORDER BY name, host.
Listed == {[id |-> r.id, key |-> r.key] : r \in services}
FirstOf(list) == CHOOSE b \in list : \A c \in list : b.key <= c.key
MaxOf(m, n) == IF m < n THEN n ELSE m
-----------------------------------------------------------------------------
Init ==
  /\ StoreInit
  /\ now = 0
  /\ proc = "stopped"
  /\ gap = NoGap
  /\ cycle = NoCycle
  /\ nextAt = 0
  /\ horizon = 0
  /\ outages = {}
  /\ stopped = 0

\* The loop is on time: it wakes up in the second its delay ends.
PollIsDue == proc = "running" /\ cycle.pc = "idle" /\ now >= nextAt

Tick ==
  /\ now < MaxTime
  /\ ~PollIsDue
  /\ now' = now + 1
  /\ UNCHANGED <<storeVars, procVars, historyVars>>

\* detect_monitoring_gap: is the last completed cycle too old, when would the
\* next one have been, and has the loop over the services come to its end?
\* Fault: no tolerance for a short outage.
GapIsLong_Any == meta # None
GapIsLong == meta # None /\ now - meta > 3 * Interval

\* Faults: the gap begins with the restart, or before the last cycle.
GapStart_Restart == now
GapStart_Before == meta - Interval
GapStart == meta + Interval

\* Fault: serving does not wait for the marking to end.
MarkingIsDone_Never == TRUE
MarkingIsDone == gap.todo = {}

Start ==
  /\ proc = "stopped"
  /\ proc' = "starting"
  /\ gap' = IF GapIsLong THEN [at |-> GapStart, todo |-> Listed] ELSE NoGap
  /\ outages' = IF GapIsLong
                  THEN outages \cup {[from |-> MaxOf(stopped, meta + Interval), to |-> now]}
                  ELSE outages
  /\ stopped' = 0
  /\ UNCHANGED <<storeVars, now, cycle, nextAt, horizon>>

\* Fault: the loop ends after the first service.
LeftToMark_None(svc) == {}
LeftToMark(svc) == gap.todo \ {svc}

\* One turn of the loop over list_services, a transaction of its own.
MarkGap ==
  /\ proc = "starting"
  /\ gap.todo # {}
  /\ LET svc == FirstOf(gap.todo)
     IN  /\ MarkUnknown(svc.id, gap.at, "gap")
         /\ gap' = [gap EXCEPT !.todo = LeftToMark(svc)]
  /\ UNCHANGED <<now, proc, cycle, nextAt, historyVars>>

\* The rest of serve: the own row, then the tasks start and the poller is due.
Serve ==
  /\ proc = "starting"
  /\ MarkingIsDone
  /\ IF SelfKey = None
       THEN UNCHANGED storeVars
       ELSE \E info \in Infos : UpsertRegistration(SelfKey, info, "self", now)
  /\ proc' = "running"
  /\ gap' = NoGap
  /\ nextAt' = now
  /\ UNCHANGED <<now, cycle, historyVars>>

\* POST /register, and the periodic registration of the own row.
Register ==
  /\ proc = "running"
  /\ now <= RegisterUntil
  /\ \E key \in Keys, info \in Infos :
       \/ UpsertRegistration(key, info, "register", now)
       \/ key = SelfKey /\ UpsertRegistration(key, info, "self", now)
  /\ UNCHANGED <<now, procVars, historyVars>>

\* run_cycle lists the services and starts every check.
BeginCycle ==
  /\ PollIsDue
  /\ cycle' = [pc |-> "check", at |-> now, batch |-> Listed, stored |-> FALSE]
  /\ UNCHANGED <<storeVars, now, proc, gap, nextAt, historyVars>>

\* gather returns when the slowest check has ended, at any later time.
EndChecks ==
  /\ cycle.pc = "check"
  /\ cycle' = [cycle EXCEPT !.pc = "record"]
  /\ UNCHANGED <<storeVars, now, proc, gap, nextAt, historyVars>>

\* Only a 200 in time is up, everything else is down.
Outcomes == {"up", "down"}

\* The row a result belongs to, by the id of the list.
\* Fault: results and services are paired in different orders.
RowOf_Other(b) == (CHOOSE c \in cycle.batch : c # b \/ cycle.batch = {b}).id
RowOf(b) == b.id

\* One turn of the loop that stores the results.
RecordResult ==
  /\ cycle.pc = "record"
  /\ cycle.batch # {}
  /\ LET svc == FirstOf(cycle.batch)
     IN  /\ \E status \in Outcomes :
              RecordCheck(RowOf(svc), status, cycle.at, ReasonOf(status))
         /\ cycle' = [cycle EXCEPT !.batch = @ \ {svc}, !.stored = TRUE]
  /\ UNCHANGED <<now, proc, gap, nextAt, historyVars>>

\* delay = max(0, interval - elapsed), counted from the start of the cycle.
Sleep ==
  /\ cycle' = NoCycle
  /\ nextAt' = MaxOf(now, cycle.at + Interval)

\* What set_meta stores as the time of the last completed cycle.
\* Fault: the time the next cycle is due.
Finished_Due == cycle.at + Interval
Finished == now

FinishCycle ==
  /\ cycle.pc = "record"
  /\ cycle.batch = {}
  /\ SetMeta(Finished)
  /\ Sleep
  /\ UNCHANGED <<now, proc, gap, historyVars>>

\* Stop between the first stored result of a cycle and set_meta?
CutAllowed == MayCutShort \/ ~cycle.stored

\* An exception leaves run_cycle (a check or a write raised); the loop goes on.
CycleFails ==
  /\ cycle.pc # "idle"
  /\ CutAllowed
  /\ Sleep
  /\ UNCHANGED <<storeVars, now, proc, gap, historyVars>>

\* janitor_task.
Prune ==
  /\ proc = "running"
  /\ now >= Retention
  /\ PruneEvents(now - Retention)
  /\ horizon' = MaxOf(horizon, now - Retention)
  /\ UNCHANGED <<now, procVars, outages, stopped>>

\* A crash, a kill or an orderly stop: what was in memory is gone.
Stop ==
  /\ proc # "stopped"
  /\ CutAllowed
  /\ proc' = "stopped"
  /\ gap' = NoGap
  /\ cycle' = NoCycle
  /\ nextAt' = 0
  /\ stopped' = now
  /\ UNCHANGED <<storeVars, now, horizon, outages>>

\* cmd_remove, from a process of its own.
RemoveCommand ==
  /\ MayRemoveLive \/ cycle.pc = "idle"
  /\ \E r \in services : Remove(r.key)
  /\ UNCHANGED <<now, procVars, historyVars>>

Next ==
  \/ Tick
  \/ Start \/ MarkGap \/ Serve \/ Stop
  \/ Register \/ RemoveCommand \/ Prune
  \/ BeginCycle \/ EndChecks \/ RecordResult \/ FinishCycle \/ CycleFails

Spec == Init /\ [][Next]_vars
-----------------------------------------------------------------------------
\* The process, its cycle, the marking and the times keep to their kinds, and no
\* time that the poller or the gap detection stores is beyond the clock.
AggregatorTypeOK ==
  LET Lists == SUBSET [id : 1..MaxServiceId, key : Keys]
  IN  /\ TypeOK
      /\ now \in Time /\ nextAt \in Nat /\ horizon \in Time /\ stopped \in Time
      /\ proc \in {"stopped", "starting", "running"}
      /\ gap \in [at : Time \cup {None}, todo : Lists]
      /\ cycle \in [pc : {"idle", "check", "record"}, at : Time \cup {None},
                    batch : Lists, stored : BOOLEAN]
      /\ outages \subseteq [from : Time, to : Time]

\* Fault: of two events in one second the first one wins.
Strip_FirstWins(r, t) ==
  LET past == {e \in EventsOf(r) : e.at <= t}
  IN  IF past = {} THEN "unknown"
      ELSE (CHOOSE e \in past :
              \A d \in past : d.at < e.at \/ (d.at = e.at /\ e.id <= d.id)).to

\* The status the history shows for row r at time t: the last event up to t, by
\* time and then by id, as events_since orders them for build_history.
Strip(r, t) ==
  LET past == {e \in EventsOf(r) : e.at <= t}
  IN  IF past = {} THEN "unknown"
      ELSE (CHOOSE e \in past :
              \A d \in past : d.at < e.at \/ (d.at = e.at /\ d.id <= e.id)).to

\* README "Honest gaps": once the page is served, a time in which the aggregator
\* was not running for longer than it tolerates is drawn as unknown for every
\* service, whatever was registered, removed, pruned or interrupted around it.
HonestGaps ==
  proc = "running" =>
  \A o \in outages, r \in services, t \in Time :
    o.from <= t /\ t < o.to => Strip(r, t) = "unknown"

\* The events of a service are stored in the order of their times: what the
\* history takes as the last event is the last one written.
EventsInOrder ==
  \A d, e \in events : d.svc = e.svc /\ d.id < e.id => d.at <= e.at

\* The live status of a service and the right end of its strip agree as long
\* as the event that began the status has not been pruned.
LiveMatchesStrip ==
  \A r \in services :
    r.change # None /\ r.change >= horizon => Strip(r, now) = r.status

\* The strip knows the present status of every service that is up or down, also
\* of one that has not changed for longer than prune_events keeps events.
PruningKeepsTheColour ==
  \A r \in services : r.status # "unknown" => Strip(r, now) = r.status

\* No event lies in the future, also not the one that marks a gap.
NothingFromTheFuture ==
  \A e \in events : e.at <= now

\* When the page is served again after a long outage no service is shown up or
\* down: the marking covers every row, also when a start was interrupted in it.
NobodyIsLiveAfterAGap ==
  [][proc = "starting" /\ proc' = "running" /\ gap.at # None
       => \A r \in services' : r.status = "unknown"]_vars

\* A result is stored on the service that was polled (run_cycle pairs results
\* with the ids of a list that may be old by then).
ResultsLandOnTheirService ==
  [][\A r \in services, s \in services' :
       r.id = s.id /\ (r.checked # s.checked \/ (r.status # s.status /\ s.status # "unknown"))
         => FirstOf(cycle.batch).key = s.key]_vars
=============================================================================
