---------------------------- MODULE StatusStore ----------------------------
(***************************************************************************)
(* The SQLite store of the aggregator (storage.py) as its callers see it:  *)
(* the tables services, status_events and meta, and one action per         *)
(* operation of class Storage.  Every operation runs under the connection  *)
(* lock inside BEGIN IMMEDIATE ... COMMIT, so here it is one step; module  *)
(* StoreTx models the lock and the transactions and implements this one.   *)
(*                                                                         *)
(* Abstractions.  A (name, host) pair is a number, its place in            *)
(* ORDER BY name, host.  The columns a registration carries (port,         *)
(* health_url, log_path, config_page_url) are one value of Infos.          *)
(* last_response_ms only decorates the page and is left out.               *)
(* A timestamp is a whole number: utcnow() truncates to seconds.           *)
(***************************************************************************)
EXTENDS Integers

CONSTANTS Keys,       \* (name, host) pairs, numbered in ORDER BY name, host
          Infos,      \* the data columns of a registration
          Sources,    \* who registers: "register" (HTTP), "self" (the aggregator)
          None,       \* SQL NULL
          MaxTime,    \* bound: the clock stops here
          MaxCount,   \* bound: registration_count is not counted further
          MaxServiceId,   \* bound: the largest id in services
          MaxEventId      \* bound: the largest id in status_events

ASSUME KeysAreRanks == Keys \subseteq Nat
ASSUME TimeIsBounded == MaxTime \in Nat
ASSUME CountIsBounded == MaxCount \in Nat \ {0}
ASSUME IdsAreBounded == MaxServiceId \in Nat \ {0} /\ MaxEventId \in Nat \ {0}
ASSUME NoneIsNoValue == None \notin Nat \cup {"up", "down", "unknown", "failed", "gap"}

VARIABLES services,   \* the rows of table services
          events,     \* the rows of table status_events
          meta        \* the meta row last_cycle_at, None when absent

storeVars == <<services, events, meta>>

Time == 0..MaxTime
Statuses == {"up", "down", "unknown"}
Reasons == {"failed", "gap"}

Row == [id : 1..MaxServiceId, key : Keys, info : Infos, source : Sources,
        first : Time, last : Time, count : 1..MaxCount,
        status : Statuses, checked : Time \cup {None},
        reason : Reasons \cup {None}, change : Time \cup {None}]

Event == [id : 1..MaxEventId, svc : 1..MaxServiceId, at : Time,
          from : Statuses, to : Statuses, reason : Reasons \cup {None}]

(***************************************************************************)
(* INTEGER PRIMARY KEY without AUTOINCREMENT: the next rowid is one more   *)
(* than the largest in the table, so the id of a deleted last row returns. *)
(***************************************************************************)
Ids(table) == {r.id : r \in table}
LargestId(table) == CHOOSE m \in Ids(table) : \A n \in Ids(table) : n <= m
NextId(table) == IF table = {} THEN 1 ELSE LargestId(table) + 1

\* Fault: an event for every result.
Logged_EveryTime(id, to, at, reason) ==
  {[id |-> NextId(events), svc |-> id, at |-> at,
    from |-> r.status, to |-> to, reason |-> reason]
     : r \in {s \in services : s.id = id}}

\* The event INSERT: one row for service id when its status is not already to.
Logged(id, to, at, reason) ==
  {[id |-> NextId(events), svc |-> id, at |-> at,
    from |-> r.status, to |-> to, reason |-> reason]
     : r \in {s \in services : s.id = id /\ s.status # to}}

HasRoom == \A e \in events' : e.id <= MaxEventId
-----------------------------------------------------------------------------
StoreInit ==
  /\ services = {}
  /\ events = {}
  /\ meta = None

\* upsert_registration: the INSERT and the UPDATE branch.
Insert(key, info, source, now) ==
  /\ \A r \in services : r.key # key
  /\ NextId(services) <= MaxServiceId
  /\ services' = services \cup
       {[id |-> NextId(services), key |-> key, info |-> info, source |-> source,
         first |-> now, last |-> now, count |-> 1, status |-> "unknown",
         checked |-> None, reason |-> None, change |-> None]}
  /\ UNCHANGED <<events, meta>>

Renewed(r, info, source, now) ==
  [r EXCEPT !.info = info, !.source = source, !.last = now,
            !.count = IF @ < MaxCount THEN @ + 1 ELSE @]

Update(key, info, source, now) ==
  /\ \E r \in services : r.key = key
  /\ services' = {IF r.key = key THEN Renewed(r, info, source, now) ELSE r : r \in services}
  /\ UNCHANGED <<events, meta>>

UpsertRegistration(key, info, source, now) ==
  Insert(key, info, source, now) \/ Update(key, info, source, now)

\* Fault: the connection does not enforce foreign keys.
Remove_NoCascade(key) ==
  /\ services' = {r \in services : r.key # key}
  /\ UNCHANGED <<events, meta>>

\* remove: the foreign key deletes the events of the row with it.
Remove(key) ==
  /\ services' = {r \in services : r.key # key}
  /\ events' = {e \in events : \A r \in services : r.key = key => r.id # e.svc}
  /\ UNCHANGED meta

\* Fault: the reason of the last failure stays after a recovery.
Checked_KeepsReason(r, status, at, reason) ==
  [r EXCEPT !.status = status, !.checked = at,
            !.reason = IF reason = None THEN @ ELSE reason,
            !.change = IF r.status # status THEN at ELSE @]

\* Fault: every result moves the time of the last change.
Checked_AlwaysChange(r, status, at, reason) ==
  [r EXCEPT !.status = status, !.checked = at, !.reason = reason, !.change = at]

Checked(r, status, at, reason) ==
  [r EXCEPT !.status = status, !.checked = at, !.reason = reason,
            !.change = IF r.status # status THEN at ELSE @]

\* record_check: a row that has gone is skipped, an event needs a change.
RecordCheck(id, status, at, reason) ==
  /\ services' = {IF r.id = id THEN Checked(r, status, at, reason) ELSE r : r \in services}
  /\ events' = events \cup Logged(id, status, at, reason)
  /\ HasRoom
  /\ UNCHANGED meta

\* mark_unknown: last_checked_at stays, a row that is unknown already is skipped.
MarkUnknown(id, at, reason) ==
  /\ services' = {IF r.id = id /\ r.status # "unknown"
                    THEN [r EXCEPT !.status = "unknown", !.reason = reason, !.change = at]
                    ELSE r : r \in services}
  /\ events' = events \cup Logged(id, "unknown", at, reason)
  /\ HasRoom
  /\ UNCHANGED meta

PruneEvents(cutoff) ==
  /\ events' = {e \in events : e.at >= cutoff}
  /\ UNCHANGED <<services, meta>>

SetMeta(at) ==
  /\ meta' = at
  /\ UNCHANGED <<services, events>>

\* What a poll result can be: up without a reason, down with one.
ReasonOf(status) == IF status = "up" THEN None ELSE "failed"

StoreNext ==
  \/ \E key \in Keys, info \in Infos, source \in Sources, now \in Time :
       UpsertRegistration(key, info, source, now)
  \/ \E key \in Keys : Remove(key)
  \/ \E r \in services, status \in {"up", "down"}, at \in Time :
       RecordCheck(r.id, status, at, ReasonOf(status))
  \/ \E r \in services, at \in Time : MarkUnknown(r.id, at, "gap")
  \/ \E cutoff \in Time : PruneEvents(cutoff)
  \/ \E at \in Time : SetMeta(at)

StoreSpec == StoreInit /\ [][StoreNext]_storeVars
-----------------------------------------------------------------------------
\* Every row and every value is of its column's kind (schema, storage.py:24-61).
TypeOK ==
  /\ services \subseteq Row
  /\ events \subseteq Event
  /\ meta \in Time \cup {None}

\* No event outlives its row: the next service to get the row's id would
\* inherit the history of the one removed.
HistoryHasItsService == \A e \in events : \E r \in services : r.id = e.svc

\* The columns of a row tell one story: it was polled iff its status ever
\* changed, an up service has no failure reason and a down one has one, and a
\* polled service is unknown only because of a monitoring gap (record_check and
\* mark_unknown set the columns one statement each, from different callers).
RowIsCoherent ==
  \A r \in services :
    /\ r.change = None <=> r.checked = None
    /\ r.status = "unknown" => r.reason = (IF r.change = None THEN None ELSE "gap")
    /\ r.status # "unknown" => r.change # None /\ r.reason = ReasonOf(r.status)

EventsOf(r) == {e \in events : e.svc = r.id}

\* The newest event of r is the entry into its status, or it is pruned and all
\* that is left lies after it.
RowIsLogged(r) ==
  \/ \E e \in EventsOf(r) :
       /\ e.at = r.change /\ e.to = r.status
       /\ \A d \in EventsOf(r) : d.id <= e.id
  \/ \A e \in EventsOf(r) : r.change # None /\ r.change < e.at

\* The live state and the history agree: the newest event of a row is the entry
\* into the row's current status, unless a prune took that event, and then
\* everything that is left lies after it.
StateIsLogged == \A r \in services : RowIsLogged(r)

\* A row that appears starts unknown and with an empty history, also when its
\* id belonged to a service removed before.
FreshRowHasNoPast ==
  [][\A r \in services' :
       (\A s \in services : s.id # r.id) =>
          /\ r.status = "unknown"
          /\ \A e \in events' : e.svc # r.id]_storeVars

\* Two statements of one operation write the row and the event (storage.py:317-332,
\* 343-354).  A change of status is logged by one event and no second one, with the
\* old status, the new one, and the time and the reason the row shows; whatever leaves
\* the status as it is (a repeated result, a renewed registration, a prune) logs
\* nothing about the service, and nothing is logged about services there are not.
ChangeIsLoggedOnce ==
  [][/\ \A e \in events' \ events : \E r \in services : r.id = e.svc
     /\ \A r \in services, s \in services' :
          r.id = s.id =>
            LET new == {e \in events' \ events : e.svc = r.id}
            IN  IF r.status = s.status
                  THEN new = {}
                  ELSE \E e \in new :
                         /\ new = {e}
                         /\ e.from = r.status /\ e.to = s.status
                         /\ e.at = s.change /\ e.reason = s.reason]_storeVars
=============================================================================
