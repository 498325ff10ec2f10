------------------------------ MODULE StoreTx ------------------------------
(***************************************************************************)
(* The operations of class Storage statement by statement (storage.py):    *)
(* the worker threads of the aggregator share one connection under one     *)
(* lock; the remove command is a process of its own with its own           *)
(* connection to the same file.  services, events and meta are the         *)
(* committed database; a transaction works on a draft of its connection.   *)
(* Statements fail, commits fail, processes die.  The committed database   *)
(* behaves like StatusStore.                                               *)
(*                                                                         *)
(* SQLite is external: a connection that has begun immediate is the only   *)
(* writer, readers of another connection see what is committed, readers of *)
(* the same connection see its draft, a process that dies loses its draft. *)
(***************************************************************************)
EXTENDS StatusStore, FiniteSets

CONSTANTS CommitFailures  \* what a COMMIT that raises leaves behind: a subset
                          \* of {"rolledback", "open"}

ASSUME CommitFailuresAreKnown == CommitFailures \subseteq {"rolledback", "open"}

Threads == {"poller", "web", "janitor"}
Actors == Threads \cup {"admin"}
Connections == {"shared", "own"}
ConnOf(a) == IF a = "admin" THEN "own" ELSE "shared"
Rival(c) == IF c = "own" THEN "shared" ELSE "own"

VARIABLES lock,   \* the RLock of each process: its holder or None
          draft,  \* the open transaction of each connection or None
          pc,     \* how far each actor's operation is
          op,     \* the operation each actor is in
          seen,   \* what its SELECT found: a status, "row" or None
          view    \* the rows the last list_services returned

txVars == <<lock, draft, pc, op, seen, view>>
vars == <<storeVars, txVars>>

NoOp == [kind |-> "none"]

\* What a transaction has made of the tables.
Draft == [services : SUBSET Row, events : SUBSET Event, meta : Time \cup {None}]

ASSUME NoneIsNobody == None \notin Actors \cup {"row"} /\ None \notin Draft

\* A registration: POST /register, a client's repetition of it, or the own row.
Upserts == [kind : {"upsert"}, key : Keys, info : Infos, source : Sources, at : Time]

\* Who calls what: the poller's thread (also at start), a thread of the handlers, a
\* second one that also runs the janitor, and the remove command.
OpsOf(a) ==
  CASE a = "poller" ->
         [kind : {"record"}, id : 1..MaxServiceId, status : {"up", "down"}, at : Time]
           \cup [kind : {"mark"}, id : 1..MaxServiceId, at : Time]
           \cup [kind : {"meta"}, at : Time]
    [] a = "web" -> Upserts \cup [kind : {"list"}]
    [] a = "janitor" -> Upserts \cup [kind : {"prune"}, at : Time]
    [] a = "admin" -> [kind : {"remove"}, key : Keys]
-----------------------------------------------------------------------------
Init ==
  /\ StoreInit
  /\ lock = [c \in Connections |-> None]
  /\ draft = [c \in Connections |-> None]
  /\ pc = [a \in Actors |-> "idle"]
  /\ op = [a \in Actors |-> NoOp]
  /\ seen = [a \in Actors |-> None]
  /\ view = {}

Call(a) ==
  /\ pc[a] = "idle"
  /\ \E o \in OpsOf(a) : op' = [op EXCEPT ![a] = o]
  /\ pc' = [pc EXCEPT ![a] = "called"]
  /\ UNCHANGED <<storeVars, lock, draft, seen, view>>

\* Fault: the operations do not take the lock.
LockIsFree_Always(c) == TRUE
LockIsFree(c) == lock[c] = None

TakeLock(a) ==
  /\ pc[a] = "called"
  /\ LockIsFree(ConnOf(a))
  /\ lock' = [lock EXCEPT ![ConnOf(a)] = a]
  /\ pc' = [pc EXCEPT ![a] = "locked"]
  /\ UNCHANGED <<storeVars, draft, op, seen, view>>

\* The operation is over, normally or by an exception to its caller.
Return(a) ==
  /\ lock' = [lock EXCEPT ![ConnOf(a)] = None]
  /\ pc' = [pc EXCEPT ![a] = "idle"]
  /\ op' = [op EXCEPT ![a] = NoOp]
  /\ seen' = [seen EXCEPT ![a] = None]

\* list_services: a read on the connection, without a transaction.
List(a) ==
  /\ pc[a] = "locked"
  /\ op[a].kind = "list"
  /\ view' = IF draft[ConnOf(a)] = None THEN services ELSE draft[ConnOf(a)].services
  /\ Return(a)
  /\ UNCHANGED <<storeVars, draft>>

\* Fault: BEGIN without IMMEDIATE does not wait for the other writer.
MayWrite_Deferred(c) == draft[c] = None
MayWrite(c) == draft[c] = None /\ draft[Rival(c)] = None

Begin(a) ==
  /\ pc[a] = "locked"
  /\ op[a].kind # "list"
  /\ MayWrite(ConnOf(a))
  /\ draft' = [draft EXCEPT ![ConnOf(a)] =
                 [services |-> services, events |-> events, meta |-> meta]]
  /\ pc' = [pc EXCEPT ![a] = "begun"]
  /\ UNCHANGED <<storeVars, lock, op, seen, view>>

\* busy_timeout is over, or the connection is in a transaction already.
BeginFails(a) ==
  /\ pc[a] = "locked"
  /\ op[a].kind # "list"
  /\ ~MayWrite(ConnOf(a))
  /\ Return(a)
  /\ UNCHANGED <<storeVars, draft, view>>

\* The SELECT of upsert, record and mark in draft d; the others go on at once.
Found(a, d) ==
  LET o == op[a]
  IN  CASE o.kind = "upsert" ->
             IF \E r \in d.services : r.key = o.key THEN "row" ELSE None
        [] o.kind \in {"record", "mark"} ->
             IF \E r \in d.services : r.id = o.id
               THEN (CHOOSE r \in d.services : r.id = o.id).status ELSE None
        [] OTHER -> "row"

\* A row that has gone, or is unknown already, ends the operation early.
NothingToDo(a, found) ==
  \/ op[a].kind \in {"record", "mark"} /\ found = None
  \/ op[a].kind = "mark" /\ found = "unknown"

Select(a) ==
  LET found == Found(a, draft[ConnOf(a)])
  IN  /\ pc[a] = "begun"
      /\ seen' = [seen EXCEPT ![a] = found]
      /\ pc' = [pc EXCEPT ![a] = IF NothingToDo(a, found) THEN "done" ELSE "selected"]
      /\ UNCHANGED <<storeVars, lock, draft, op, view>>

\* The row an INSERT adds to draft d.
NewRow(o, d) ==
  [id |-> NextId(d.services), key |-> o.key, info |-> o.info, source |-> o.source,
   first |-> o.at, last |-> o.at, count |-> 1,
   status |-> "unknown", checked |-> None, reason |-> None, change |-> None]

\* Draft d after the statement that changes a table, except the INSERT of an event.
Written(a, d) ==
  LET o == op[a]
      checked(r) == Checked(r, o.status, o.at, ReasonOf(o.status))
      unknown(r) == [r EXCEPT !.status = "unknown", !.reason = "gap", !.change = o.at]
  IN  CASE o.kind = "upsert" /\ seen[a] = None ->
             [d EXCEPT !.services = @ \cup {NewRow(o, d)}]
        [] o.kind = "upsert" /\ seen[a] # None ->
             [d EXCEPT !.services =
               {IF r.key = o.key THEN Renewed(r, o.info, o.source, o.at) ELSE r : r \in @}]
        [] o.kind = "record" ->
             [d EXCEPT !.services = {IF r.id = o.id THEN checked(r) ELSE r : r \in @}]
        [] o.kind = "mark" ->
             [d EXCEPT !.services = {IF r.id = o.id THEN unknown(r) ELSE r : r \in @}]
        [] o.kind = "meta" -> [d EXCEPT !.meta = o.at]
        [] o.kind = "prune" -> [d EXCEPT !.events = {e \in @ : e.at >= o.at}]
        [] o.kind = "remove" ->
             [d EXCEPT !.services = {r \in @ : r.key # o.key},
                       !.events = {e \in @ : \A r \in d.services :
                                               r.key = o.key => r.id # e.svc}]

Target(a) == CASE op[a].kind = "record" -> op[a].status
               [] op[a].kind = "mark" -> "unknown"
               [] OTHER -> seen[a]

\* Does the status change, so that an event is due?
IsChange(a) == op[a].kind \in {"record", "mark"} /\ seen[a] # Target(a)

Write(a) ==
  LET written == Written(a, draft[ConnOf(a)])
  IN  /\ pc[a] = "selected"
      /\ \A r \in written.services : r.id <= MaxServiceId
      /\ draft' = [draft EXCEPT ![ConnOf(a)] = written]
      /\ pc' = [pc EXCEPT ![a] = IF IsChange(a) THEN "changed" ELSE "done"]
      /\ UNCHANGED <<storeVars, lock, op, seen, view>>

Change(a, id) ==
  [id |-> id, svc |-> op[a].id, at |-> op[a].at, from |-> seen[a], to |-> Target(a),
   reason |-> IF op[a].kind = "mark" THEN "gap" ELSE ReasonOf(Target(a))]

\* The INSERT of the event into a log, with the status the SELECT found.
\* Fault: the number of events as the id of the next.
Inserted_Counted(a, log) == log \cup {Change(a, Cardinality(log))}
Inserted(a, log) == log \cup {Change(a, NextId(log))}

LogChange(a) ==
  LET log == draft[ConnOf(a)].events
  IN  /\ pc[a] = "changed"
      /\ NextId(log) <= MaxEventId
      /\ draft' = [draft EXCEPT ![ConnOf(a)].events = Inserted(a, log)]
      /\ pc' = [pc EXCEPT ![a] = "done"]
      /\ UNCHANGED <<storeVars, lock, op, seen, view>>

\* Fault: an error does not roll back, and the next COMMIT takes its changes along.
DraftAfterError_Kept(a) == draft[ConnOf(a)]
DraftAfterError(a) == None

\* A statement raises inside the try of _tx: ROLLBACK.
StatementFails(a) ==
  /\ pc[a] \in {"begun", "selected", "changed"}
  /\ draft' = [draft EXCEPT ![ConnOf(a)] = DraftAfterError(a)]
  /\ Return(a)
  /\ UNCHANGED <<storeVars, view>>

Commit(a) ==
  /\ pc[a] = "done"
  /\ services' = draft[ConnOf(a)].services
  /\ events' = draft[ConnOf(a)].events
  /\ meta' = draft[ConnOf(a)].meta
  /\ draft' = [draft EXCEPT ![ConnOf(a)] = None]
  /\ Return(a)
  /\ UNCHANGED view

\* COMMIT is outside the try: what it leaves is SQLite's choice.
CommitFails(a) ==
  /\ pc[a] = "done"
  /\ \E left \in CommitFailures :
       draft' = [draft EXCEPT ![ConnOf(a)] = IF left = "open" THEN @ ELSE None]
  /\ Return(a)
  /\ UNCHANGED <<storeVars, view>>

\* The process of connection c dies with all that is not committed.
Crash(c) ==
  /\ lock' = [lock EXCEPT ![c] = None]
  /\ draft' = [draft EXCEPT ![c] = None]
  /\ pc' = [a \in Actors |-> IF ConnOf(a) = c THEN "idle" ELSE pc[a]]
  /\ op' = [a \in Actors |-> IF ConnOf(a) = c THEN NoOp ELSE op[a]]
  /\ seen' = [a \in Actors |-> IF ConnOf(a) = c THEN None ELSE seen[a]]
  /\ UNCHANGED <<storeVars, view>>

Step(a) ==
  \/ TakeLock(a) \/ List(a) \/ Begin(a) \/ BeginFails(a) \/ Select(a) \/ Write(a)
  \/ LogChange(a) \/ Commit(a)

Next ==
  \/ \E a \in Actors : Call(a) \/ Step(a) \/ StatementFails(a) \/ CommitFails(a)
  \/ \E c \in Connections : Crash(c)

Spec == Init /\ [][Next]_vars
-----------------------------------------------------------------------------
\* Drafts and committed tables hold rows and events of their columns' kinds.
TxTypeOK ==
  /\ TypeOK
  /\ lock \in [Connections -> Actors \cup {None}]
  /\ pc \in [Actors -> {"idle", "called", "locked", "begun", "selected", "changed", "done"}]
  /\ seen \in [Actors -> Statuses \cup {"row", None}]
  /\ \A a \in Actors : op[a] = NoOp \/ op[a] \in OpsOf(a)
  /\ \A c \in Connections : draft[c] # None =>
       draft[c].services \subseteq Row /\ draft[c].events \subseteq Event
  /\ view \subseteq Row

\* A transaction belongs to the actor that holds the lock of its connection:
\* none is open when the lock is free, so none is open for ever.
NoOrphanTransaction ==
  \A c \in Connections : lock[c] = None => draft[c] = None

\* What list_services returns is committed, never the half-done work of
\* another thread on the same connection.
ReadsAreCommitted == [][view' # view => view' = services]_vars

\* POST /register answers 201 when its SELECT found no row, which is long before its
\* COMMIT.  Of two registrations of one service that run at once, by two threads or
\* by a client that repeats itself, one is told that it created the row and the other
\* is not, also beside a removal by the other process; and a row whose creation was
\* told, or whose renewal was, is in the table.
CreatedIsToldOnce ==
  [][/\ \A k \in Keys :
          (\A r \in services : r.key # k) /\ (\E r \in services' : r.key = k)
            <=> \E a \in Actors : /\ op[a].kind = "upsert" /\ op[a].key = k
                                 /\ seen[a] = None
                                 /\ Commit(a)
     /\ \A a \in Actors :
          op[a].kind = "upsert" /\ Commit(a) => \E r \in services' : r.key = op[a].key]_vars
=============================================================================
