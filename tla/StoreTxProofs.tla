--------------------------- MODULE StoreTxProofs ---------------------------
(***************************************************************************)
(* Statement by statement, with failing statements and commits and dying   *)
(* processes, the committed database goes through the steps of StatusStore *)
(* only, for any number of services and events.  The inductive invariant   *)
(* says who holds a lock, that one connection at most has a draft, and     *)
(* what each statement has made of the committed tables.                   *)
(***************************************************************************)
EXTENDS StoreTx, StatusStoreProofs

Committed == [services |-> services, events |-> events, meta |-> meta]

InTransaction(a) == pc[a] \in {"begun", "selected", "changed", "done"}

\* An actor holds its lock from the moment it takes it to the end of its operation.
LockIsHeld ==
  \A a \in Actors : pc[a] = "locked" \/ InTransaction(a) <=> lock[ConnOf(a)] = a

\* BEGIN IMMEDIATE: at most one connection is in a transaction.
OneWriter == \A c \in Connections : draft[c] = None \/ draft[Rival(c)] = None

\* An actor at work is in one of its operations, and in a transaction not in a read.
OperationsAreKnown ==
  \A a \in Actors :
    /\ pc[a] # "idle" => op[a] \in OpsOf(a)
    /\ InTransaction(a) => op[a].kind # "list" /\ draft[ConnOf(a)] # None

HasRowIds(d) == \A r \in d.services : r.id <= MaxServiceId
Result(a) == Written(a, Committed)

\* What is done of a's operation, and to which tables: those that are committed still.
WorkIsKept(a) ==
  LET d == draft[ConnOf(a)]
  IN  /\ pc[a] \in {"begun", "selected"} => d = Committed
      /\ pc[a] \in {"selected", "changed", "done"} => seen[a] = Found(a, Committed)
      /\ pc[a] \in {"selected", "changed"} => ~NothingToDo(a, seen[a])
      /\ pc[a] = "changed" => d = Result(a) /\ IsChange(a) /\ HasRowIds(d)
      /\ pc[a] = "done" =>
           \/ d = Committed /\ NothingToDo(a, seen[a])
           \/ /\ ~NothingToDo(a, seen[a]) /\ ~IsChange(a)
              /\ d = Result(a) /\ HasRowIds(d)
           \/ /\ ~NothingToDo(a, seen[a]) /\ IsChange(a)
              /\ d = [Result(a) EXCEPT !.events = Inserted(a, events)]
              /\ NextId(events) <= MaxEventId

\* Locks, drafts and operations, without the committed tables.
WorkInv ==
  /\ lock \in [Connections -> Actors \cup {None}]
  /\ pc \in [Actors -> {"idle", "called", "locked", "begun", "selected", "changed", "done"}]
  /\ seen \in [Actors -> Statuses \cup {"row", None}]
  /\ \A a \in Actors : op[a] = NoOp \/ op[a] \in OpsOf(a)
  /\ op = [a \in Actors |-> op[a]]
  /\ draft \in [Connections -> Draft \cup {None}]
  /\ view \subseteq Row
  /\ LockIsHeld
  /\ OneWriter
  /\ OperationsAreKnown
  /\ \A a \in Actors : WorkIsKept(a)

TxInv == StoreInv /\ WorkInv
-----------------------------------------------------------------------------
\* What an operation carries.
LEMMA OperationFields ==
  ASSUME NEW a \in Actors, NEW o \in OpsOf(a)
  PROVE  /\ o.kind \in {"record", "mark", "meta", "upsert", "list", "prune", "remove"}
         /\ o.kind = "record" =>
              o.id \in 1..MaxServiceId /\ o.status \in {"up", "down"} /\ o.at \in Time
         /\ o.kind = "mark" => o.id \in 1..MaxServiceId /\ o.at \in Time
         /\ o.kind \in {"meta", "prune"} => o.at \in Time
         /\ o.kind = "upsert" =>
              o.key \in Keys /\ o.info \in Infos /\ o.source \in Sources /\ o.at \in Time
         /\ o.kind = "remove" => o.key \in Keys
<1>1. CASE a = "poller"
  BY <1>1 DEF OpsOf
<1>2. CASE a = "web"
  BY <1>2 DEF OpsOf, Upserts
<1>3. CASE a = "janitor"
  BY <1>3 DEF OpsOf, Upserts
<1>4. CASE a = "admin"
  BY <1>4 DEF OpsOf
<1> QED BY <1>1, <1>2, <1>3, <1>4 DEF Actors, Threads

\* What each kind of operation writes.
LEMMA WrittenByKind ==
  ASSUME NEW a \in Actors, NEW d \in Draft
  PROVE  LET o == op[a]
             w == Written(a, d)
         IN  /\ o.kind = "upsert" /\ seen[a] = None =>
                  w = [d EXCEPT !.services = d.services \cup {NewRow(o, d)}]
             /\ o.kind = "upsert" /\ seen[a] # None =>
                  w = [d EXCEPT !.services =
                        {IF r.key = o.key THEN Renewed(r, o.info, o.source, o.at) ELSE r
                           : r \in d.services}]
             /\ o.kind = "record" =>
                  w = [d EXCEPT !.services =
                        {IF r.id = o.id THEN Checked(r, o.status, o.at, ReasonOf(o.status))
                           ELSE r : r \in d.services}]
             /\ o.kind = "mark" =>
                  w = [d EXCEPT !.services =
                        {IF r.id = o.id
                           THEN [r EXCEPT !.status = "unknown", !.reason = "gap",
                                          !.change = o.at]
                           ELSE r : r \in d.services}]
             /\ o.kind = "meta" => w = [d EXCEPT !.meta = o.at]
             /\ o.kind = "prune" => w = [d EXCEPT !.events = {e \in d.events : e.at >= o.at}]
             /\ o.kind = "remove" =>
                  w = [d EXCEPT !.services = {r \in d.services : r.key # o.key},
                                !.events = {e \in d.events : \A r \in d.services :
                                              r.key = o.key => r.id # e.svc}]
<1>1. ASSUME op[a].kind = "upsert", seen[a] = None
      PROVE  Written(a, d) = [d EXCEPT !.services = d.services \cup {NewRow(op[a], d)}]
  BY <1>1 DEF Written, Draft
<1>2. ASSUME op[a].kind = "upsert", seen[a] # None
      PROVE  Written(a, d) = [d EXCEPT !.services =
               {IF r.key = op[a].key THEN Renewed(r, op[a].info, op[a].source, op[a].at)
                  ELSE r : r \in d.services}]
  BY <1>2 DEF Written, Draft
<1>3. ASSUME op[a].kind = "record"
      PROVE  Written(a, d) = [d EXCEPT !.services =
               {IF r.id = op[a].id
                  THEN Checked(r, op[a].status, op[a].at, ReasonOf(op[a].status))
                  ELSE r : r \in d.services}]
  BY <1>3 DEF Written, Draft
<1>4. ASSUME op[a].kind = "mark"
      PROVE  Written(a, d) = [d EXCEPT !.services =
               {IF r.id = op[a].id
                  THEN [r EXCEPT !.status = "unknown", !.reason = "gap", !.change = op[a].at]
                  ELSE r : r \in d.services}]
  BY <1>4 DEF Written, Draft
<1>5. ASSUME op[a].kind = "meta"
      PROVE  Written(a, d) = [d EXCEPT !.meta = op[a].at]
  BY <1>5 DEF Written, Draft
<1>6. ASSUME op[a].kind = "prune"
      PROVE  Written(a, d) = [d EXCEPT !.events = {e \in d.events : e.at >= op[a].at}]
  BY <1>6 DEF Written, Draft
<1>7. ASSUME op[a].kind = "remove"
      PROVE  Written(a, d) = [d EXCEPT !.services = {r \in d.services : r.key # op[a].key},
                                       !.events = {e \in d.events : \A r \in d.services :
                                                     r.key = op[a].key => r.id # e.svc}]
  BY <1>7 DEF Written, Draft
<1> QED BY <1>1, <1>2, <1>3, <1>4, <1>5, <1>6, <1>7

\* Every statement makes a draft of a draft, provided that the new row has an id.
LEMMA WritesAreTyped ==
  ASSUME NEW a \in Actors, NEW d \in Draft, op[a] \in OpsOf(a), op[a].kind # "list",
         HasRowIds(Written(a, d))
  PROVE  Written(a, d) \in Draft
<1> DEFINE o == op[a]
           w == Written(a, d)
<1>1. d.services \subseteq Row /\ d.events \subseteq Event /\ d.meta \in Time \cup {None}
  BY DEF Draft
<1>2. d = [services |-> d.services, events |-> d.events, meta |-> d.meta]
  BY DEF Draft
<1>3. o \in OpsOf(a)
  OBVIOUS
<1> HIDE DEF o
<1>4. /\ o.kind \in {"record", "mark", "meta", "upsert", "list", "prune", "remove"}
      /\ o.kind = "record" => o.status \in {"up", "down"} /\ o.at \in Time
      /\ o.kind \in {"mark", "meta"} => o.at \in Time
      /\ o.kind = "upsert" =>
           o.key \in Keys /\ o.info \in Infos /\ o.source \in Sources /\ o.at \in Time
  BY <1>3, OperationFields
<1>5. ASSUME NEW S, S \subseteq Row
      PROVE  [d EXCEPT !.services = S] \in Draft
  BY <1>1, <1>2, <1>5 DEF Draft
<1>6. ASSUME o.kind = "upsert", seen[a] = None
      PROVE  w \in Draft
  <2>1. w = [d EXCEPT !.services = d.services \cup {NewRow(o, d)}]
    BY <1>6, WrittenByKind DEF o
  <2>2. NewRow(o, d) \in w.services /\ NewRow(o, d).id = NextId(d.services)
    BY <1>2, <2>1 DEF NewRow
  <2>3. NextId(d.services) <= MaxServiceId
    BY <2>2 DEF HasRowIds
  <2>4. NextId(d.services) \in 1..MaxServiceId
    <3>1. \A r \in d.services : r.id \in 1..MaxServiceId
      BY <1>1 DEF Row
    <3> HIDE DEF w
    <3>2. NextId(d.services) \in Nat \ {0}
      BY <3>1, NextIdIsFresh, IdsAreBounded
    <3> QED BY <2>3, <3>2, IdsAreBounded
  <2>5. NewRow(o, d) \in Row
    BY <1>4, <1>6, <2>4, CountIsBounded DEF NewRow, Row, Statuses
  <2> QED BY <1>1, <1>5, <2>1, <2>5
<1>7. ASSUME o.kind = "upsert", seen[a] # None
      PROVE  w \in Draft
  <2> DEFINE S == {IF r.key = o.key THEN Renewed(r, o.info, o.source, o.at) ELSE r
                     : r \in d.services}
  <2>1. w = [d EXCEPT !.services = S]
    BY <1>7, WrittenByKind DEF o
  <2>2. ASSUME NEW r \in Row
        PROVE  Renewed(r, o.info, o.source, o.at) \in Row
    <3> DEFINE more == IF r.count < MaxCount THEN r.count + 1 ELSE r.count
    <3>1. more \in 1..MaxCount
      BY CountIsBounded DEF Row
    <3>2. Renewed(r, o.info, o.source, o.at) =
            [r EXCEPT !.info = o.info, !.source = o.source, !.last = o.at, !.count = more]
      BY DEF Renewed
    <3> HIDE DEF more
    <3> QED BY <1>4, <1>7, <3>1, <3>2 DEF Row
  <2>3. S \subseteq Row
    BY <1>1, <2>2
  <2> QED BY <1>5, <2>1, <2>3
<1>8. ASSUME o.kind = "record"
      PROVE  w \in Draft
  <2> DEFINE S == {IF r.id = o.id THEN Checked(r, o.status, o.at, ReasonOf(o.status)) ELSE r
                     : r \in d.services}
  <2>1. w = [d EXCEPT !.services = S]
    BY <1>8, WrittenByKind DEF o
  <2>2. ReasonOf(o.status) \in Reasons \cup {None} /\ o.status \in Statuses
    BY <1>4, <1>8 DEF ReasonOf, Reasons, Statuses
  <2>3. ASSUME NEW r \in Row
        PROVE  Checked(r, o.status, o.at, ReasonOf(o.status)) \in Row
    BY <1>4, <1>8, <2>2 DEF Checked, Row
  <2>4. S \subseteq Row
    BY <1>1, <2>3
  <2> QED BY <1>5, <2>1, <2>4
<1>9. ASSUME o.kind = "mark"
      PROVE  w \in Draft
  <2> DEFINE N(r) == [r EXCEPT !.status = "unknown", !.reason = "gap", !.change = o.at]
             S == {IF r.id = o.id THEN N(r) ELSE r : r \in d.services}
  <2>1. w = [d EXCEPT !.services = S]
    BY <1>9, WrittenByKind DEF o
  <2>2. \A r \in Row : N(r) \in Row
    BY <1>4, <1>9 DEF Row, Statuses, Reasons
  <2>3. S \subseteq Row
    <3> HIDE DEF N
    <3> QED BY <1>1, <2>2
  <2> QED BY <1>5, <2>1, <2>3
<1>10. ASSUME o.kind = "meta"
       PROVE  w \in Draft
  <2>1. w = [d EXCEPT !.meta = o.at]
    BY <1>10, WrittenByKind DEF o
  <2> QED BY <1>1, <1>2, <1>4, <1>10, <2>1 DEF Draft
<1>11. ASSUME o.kind = "prune"
       PROVE  w \in Draft
  <2> DEFINE E == {e \in d.events : e.at >= o.at}
  <2>1. w = [d EXCEPT !.events = E]
    BY <1>11, WrittenByKind DEF o
  <2>2. E \subseteq Event
    BY <1>1
  <2> HIDE DEF E
  <2> QED BY <1>1, <1>2, <2>1, <2>2 DEF Draft
<1>12. ASSUME o.kind = "remove"
       PROVE  w \in Draft
  <2> DEFINE S == {r \in d.services : r.key # o.key}
             E == {e \in d.events : \A r \in d.services : r.key = o.key => r.id # e.svc}
  <2>1. w = [d EXCEPT !.services = S, !.events = E]
    BY <1>12, WrittenByKind DEF o
  <2>2. S \subseteq Row /\ E \subseteq Event
    BY <1>1
  <2> HIDE DEF S, E
  <2> QED BY <1>1, <1>2, <2>1, <2>2 DEF Draft
<1> QED BY <1>4, <1>6, <1>7, <1>8, <1>9, <1>10, <1>11, <1>12 DEF o
-----------------------------------------------------------------------------
Becomes(d) == services' = d.services /\ events' = d.events /\ meta' = d.meta

LEMMA CommittedIsADraft ==
  ASSUME TypeOK
  PROVE  Committed \in Draft
BY DEF TypeOK, Committed, Draft

\* The row of the service that a poll or a mark is about.
LEMMA FoundRow ==
  ASSUME StoreInv, NEW a \in Actors, op[a].kind \in {"record", "mark"},
         Found(a, Committed) # None
  PROVE  \E r \in services :
           /\ r.id = op[a].id /\ r.status = Found(a, Committed) /\ r.status \in Statuses
           /\ \A s \in services : s.id = op[a].id => s = r
<1> DEFINE R == {r \in services : r.id = op[a].id}
<1>1. Found(a, Committed) = IF \E r \in services : r.id = op[a].id
                              THEN (CHOOSE r \in services : r.id = op[a].id).status ELSE None
  BY DEF Found, Committed
<1>2. \E r \in services : r.id = op[a].id
  BY <1>1
<1>3. PICK r \in services : r = CHOOSE s \in services : s.id = op[a].id
  BY <1>2
<1>4. r.id = op[a].id
  BY <1>2, <1>3
<1>5. r.status = Found(a, Committed)
  BY <1>1, <1>2, <1>3
<1>6. r.status \in Statuses
  BY DEF StoreInv, TypeOK, Row
<1>7. \A s \in services : s.id = op[a].id => s = r
  BY <1>4 DEF StoreInv, Keyed
<1> QED BY <1>4, <1>5, <1>6, <1>7

\* An operation that logs no event is a step of the store.
LEMMA ResultIsAStoreStep ==
  ASSUME StoreInv, NEW a \in Actors, op[a] \in OpsOf(a), op[a].kind # "list",
         seen[a] = Found(a, Committed), ~NothingToDo(a, seen[a]), ~IsChange(a),
         HasRowIds(Result(a)), Becomes(Result(a))
  PROVE  StoreNext
<1> DEFINE o == op[a]
           d == Committed
<1>0. d \in Draft /\ d.services = services /\ d.events = events /\ d.meta = meta
  BY CommittedIsADraft DEF StoreInv, Committed
<1>1. d = [services |-> services, events |-> events, meta |-> meta]
  BY DEF Committed
<1> HIDE DEF d
<1>2. /\ o.kind \in {"record", "mark", "meta", "upsert", "list", "prune", "remove"}
      /\ o.kind = "record" => o.status \in {"up", "down"} /\ o.at \in Time
      /\ o.kind \in {"mark", "meta", "prune"} => o.at \in Time
      /\ o.kind = "upsert" =>
           o.key \in Keys /\ o.info \in Infos /\ o.source \in Sources /\ o.at \in Time
      /\ o.kind = "remove" => o.key \in Keys
  <2> HIDE DEF o
  <2>1. o \in OpsOf(a)
    BY DEF o
  <2> QED BY <2>1, OperationFields
<1>3. ASSUME o.kind = "upsert", seen[a] = None
      PROVE  StoreNext
  <2>1. \A r \in services : r.key # o.key
    <3>1. Found(a, Committed) = IF \E r \in services : r.key = o.key THEN "row" ELSE None
      BY <1>3, <1>0 DEF Found, d
    <3> QED BY <1>3, <3>1, NoneIsNobody
  <2>2. Result(a) = [d EXCEPT !.services = services \cup {NewRow(o, d)}]
    BY <1>0, <1>3, WrittenByKind DEF Result, d
  <2>3. services' = services \cup {NewRow(o, d)} /\ events' = events /\ meta' = meta
    BY <1>1, <2>2 DEF Becomes
  <2>4. NewRow(o, d) =
          [id |-> NextId(services), key |-> o.key, info |-> o.info, source |-> o.source,
           first |-> o.at, last |-> o.at, count |-> 1,
           status |-> "unknown", checked |-> None, reason |-> None, change |-> None]
    BY <1>0 DEF NewRow
  <2>5. NextId(services) <= MaxServiceId
    <3>1. NewRow(o, d) \in Result(a).services
      BY <2>3 DEF Becomes
    <3> QED BY <2>4, <3>1 DEF HasRowIds
  <2> HIDE DEF o
  <2>6. Insert(o.key, o.info, o.source, o.at)
    BY <2>1, <2>3, <2>4, <2>5 DEF Insert
  <2> QED BY <1>2, <1>3, <2>6 DEF StoreNext, UpsertRegistration
<1>4. ASSUME o.kind = "upsert", seen[a] # None
      PROVE  StoreNext
  <2>1. \E r \in services : r.key = o.key
    <3>1. Found(a, Committed) = IF \E r \in services : r.key = o.key THEN "row" ELSE None
      BY <1>4, <1>0 DEF Found, d
    <3> QED BY <1>4, <3>1
  <2>2. Result(a) = [d EXCEPT !.services =
           {IF r.key = o.key THEN Renewed(r, o.info, o.source, o.at) ELSE r : r \in services}]
    BY <1>0, <1>4, WrittenByKind DEF Result, d
  <2>3. /\ services' = {IF r.key = o.key THEN Renewed(r, o.info, o.source, o.at) ELSE r
                          : r \in services}
        /\ events' = events /\ meta' = meta
    BY <1>1, <2>2 DEF Becomes
  <2> HIDE DEF o
  <2>4. Update(o.key, o.info, o.source, o.at)
    BY <2>1, <2>3 DEF Update
  <2> QED BY <1>2, <1>4, <2>4 DEF StoreNext, UpsertRegistration
<1>5. ASSUME o.kind = "record"
      PROVE  StoreNext
  <2>1. Found(a, Committed) # None /\ Found(a, Committed) = o.status
    BY <1>5 DEF NothingToDo, IsChange, Target
  <2>2. PICK r \in services :
          /\ r.id = o.id /\ r.status = o.status
          /\ \A s \in services : s.id = o.id => s = r
    BY <1>5, <2>1, FoundRow
  <2>3. Result(a) = [d EXCEPT !.services =
           {IF s.id = o.id THEN Checked(s, o.status, o.at, ReasonOf(o.status)) ELSE s
              : s \in services}]
    BY <1>0, <1>5, WrittenByKind DEF Result, d
  <2>4. /\ services' = {IF s.id = o.id THEN Checked(s, o.status, o.at, ReasonOf(o.status))
                          ELSE s : s \in services}
        /\ events' = events /\ meta' = meta
    BY <1>1, <2>3 DEF Becomes
  <2> HIDE DEF o
  <2>5. Logged(r.id, o.status, o.at, ReasonOf(o.status)) = {}
    BY <2>2 DEF Logged
  <2>6. HasRoom
    BY <2>4, IdsAreBounded DEF HasRoom, StoreInv, TypeOK, Event
  <2>7. RecordCheck(r.id, o.status, o.at, ReasonOf(o.status))
    BY <2>2, <2>4, <2>5, <2>6 DEF RecordCheck
  <2> QED BY <1>2, <1>5, <2>7 DEF StoreNext
<1>6. o.kind # "mark"
  BY DEF NothingToDo, IsChange, Target
<1>7. ASSUME o.kind = "meta"
      PROVE  StoreNext
  <2>1. Result(a) = [d EXCEPT !.meta = o.at]
    BY <1>0, <1>7, WrittenByKind DEF Result, d
  <2>2. meta' = o.at /\ services' = services /\ events' = events
    BY <1>1, <2>1 DEF Becomes
  <2> QED BY <1>2, <1>7, <2>2 DEF StoreNext, SetMeta
<1>8. ASSUME o.kind = "prune"
      PROVE  StoreNext
  <2>1. Result(a) = [d EXCEPT !.events = {e \in events : e.at >= o.at}]
    BY <1>0, <1>8, WrittenByKind DEF Result, d
  <2>2. events' = {e \in events : e.at >= o.at} /\ services' = services /\ meta' = meta
    BY <1>1, <2>1 DEF Becomes
  <2> QED BY <1>2, <1>8, <2>2 DEF StoreNext, PruneEvents
<1>9. ASSUME o.kind = "remove"
      PROVE  StoreNext
  <2>1. Result(a) = [d EXCEPT !.services = {r \in services : r.key # o.key},
                              !.events = {e \in events : \A r \in services :
                                            r.key = o.key => r.id # e.svc}]
    <3>1. Written(a, d) =
            [d EXCEPT !.services = {r \in d.services : r.key # o.key},
                      !.events = {e \in d.events : \A r \in d.services :
                                    r.key = o.key => r.id # e.svc}]
      BY <1>0, <1>9, WrittenByKind
    <3>2. Result(a) = Written(a, d)
      BY DEF Result, d
    <3> HIDE DEF o
    <3> QED BY <1>0, <3>1, <3>2, Zenon
  <2>2. /\ services' = {r \in services : r.key # o.key}
        /\ events' = {e \in events : \A r \in services : r.key = o.key => r.id # e.svc}
        /\ meta' = meta
    BY <1>1, <2>1 DEF Becomes
  <2> HIDE DEF o
  <2>3. Remove(o.key)
    BY <2>2 DEF Remove
  <2> QED BY <1>2, <1>9, <2>3 DEF StoreNext
<1> QED BY <1>2, <1>3, <1>4, <1>5, <1>6, <1>7, <1>8, <1>9

\* A change of status and its event are one step of the store.
LEMMA ChangeIsAStoreStep ==
  ASSUME StoreInv, NEW a \in Actors, op[a] \in OpsOf(a), seen[a] = Found(a, Committed),
         ~NothingToDo(a, seen[a]), IsChange(a), NextId(events) <= MaxEventId,
         Becomes([Result(a) EXCEPT !.events = Inserted(a, events)])
  PROVE  StoreNext
<1> DEFINE o == op[a]
           d == Committed
           to == Target(a)
           why == IF o.kind = "mark" THEN "gap" ELSE ReasonOf(to)
           e == Change(a, NextId(events))
<1>0. d \in Draft /\ d.services = services /\ d.events = events /\ d.meta = meta
  BY CommittedIsADraft DEF StoreInv, Committed
<1>1. d = [services |-> services, events |-> events, meta |-> meta]
  BY DEF Committed
<1> HIDE DEF d
<1>2. /\ o.kind \in {"record", "mark"} /\ o.at \in Time
      /\ o.kind = "record" => o.status \in {"up", "down"}
  BY OperationFields DEF IsChange
<1>3. Found(a, Committed) # None
  BY <1>2 DEF NothingToDo
<1>4. PICK r \in services :
        /\ r.id = o.id /\ r.status = seen[a] /\ r.status \in Statuses
        /\ \A s \in services : s.id = o.id => s = r
  BY <1>2, <1>3, FoundRow
<1>5. r.status # to
  BY <1>4 DEF IsChange
<1>6. e = [id |-> NextId(events), svc |-> r.id, at |-> o.at, from |-> r.status, to |-> to,
           reason |-> why]
  BY <1>4 DEF Change
<1>7. Logged(r.id, to, o.at, why) = {e}
  <2> HIDE DEF o, to, why, e
  <2>1. {s \in services : s.id = r.id /\ s.status # to} = {r}
    BY <1>4, <1>5
  <2> QED BY <1>6, <2>1 DEF Logged
<1>8. /\ services' = Result(a).services /\ events' = events \cup {e}
      /\ Result(a).meta = meta => meta' = meta
  <2>1. \E S, M : Result(a) = [services |-> S, events |-> events, meta |-> M]
    <3>1. o.kind = "record" => Result(a) =
            [d EXCEPT !.services =
               {IF s.id = o.id THEN Checked(s, o.status, o.at, ReasonOf(o.status)) ELSE s
                  : s \in services}]
      BY <1>0, WrittenByKind DEF Result, d
    <3>2. o.kind = "mark" => Result(a) =
            [d EXCEPT !.services =
               {IF s.id = o.id
                  THEN [s EXCEPT !.status = "unknown", !.reason = "gap", !.change = o.at]
                  ELSE s : s \in services}]
      BY <1>0, WrittenByKind DEF Result, d
    <3> QED BY <1>1, <1>2, <3>1, <3>2
  <2>2. Inserted(a, events) = events \cup {e}
    BY DEF Inserted
  <2> HIDE DEF e
  <2> QED BY <2>1, <2>2 DEF Becomes
<1>9. HasRoom
  <2>1. e.id <= MaxEventId
    BY <1>6
  <2>2. \A c \in events : c.id <= MaxEventId
    BY IdsAreBounded DEF StoreInv, TypeOK, Event
  <2> HIDE DEF e
  <2> QED BY <1>8, <2>1, <2>2 DEF HasRoom
<1>10. ASSUME o.kind = "record"
       PROVE  StoreNext
  <2>1. to = o.status /\ why = ReasonOf(o.status)
    BY <1>10 DEF Target
  <2>2. Result(a) = [d EXCEPT !.services =
           {IF s.id = o.id THEN Checked(s, o.status, o.at, ReasonOf(o.status)) ELSE s
              : s \in services}]
    BY <1>0, <1>10, WrittenByKind DEF Result, d
  <2>3. /\ services' = {IF s.id = o.id THEN Checked(s, o.status, o.at, ReasonOf(o.status))
                          ELSE s : s \in services}
        /\ meta' = meta
    BY <1>1, <1>8, <2>2
  <2> HIDE DEF o, to, why, e
  <2>4. RecordCheck(r.id, o.status, o.at, ReasonOf(o.status))
    BY <1>4, <1>7, <1>8, <1>9, <2>1, <2>3 DEF RecordCheck
  <2> QED BY <1>2, <1>10, <2>4 DEF StoreNext
<1>11. ASSUME o.kind = "mark"
       PROVE  StoreNext
  <2>1. to = "unknown" /\ why = "gap"
    BY <1>11 DEF Target
  <2>2. Result(a) = [d EXCEPT !.services =
           {IF s.id = o.id
              THEN [s EXCEPT !.status = "unknown", !.reason = "gap", !.change = o.at]
              ELSE s : s \in services}]
    BY <1>0, <1>11, WrittenByKind DEF Result, d
  <2>3. /\ services' = {IF s.id = o.id
                          THEN [s EXCEPT !.status = "unknown", !.reason = "gap",
                                         !.change = o.at]
                          ELSE s : s \in services}
        /\ meta' = meta
    BY <1>1, <1>8, <2>2
  <2> HIDE DEF o, to, why, e
  <2>4. \A s \in services : s.id = o.id <=> s.id = r.id /\ s.status # "unknown"
    BY <1>4, <1>5, <2>1
  <2>5. services' = {IF s.id = r.id /\ s.status # "unknown"
                       THEN [s EXCEPT !.status = "unknown", !.reason = "gap", !.change = o.at]
                       ELSE s : s \in services}
    BY <2>3, <2>4
  <2>6. MarkUnknown(r.id, o.at, "gap")
    BY <1>7, <1>8, <1>9, <2>1, <2>3, <2>5 DEF MarkUnknown
  <2> QED BY <1>2, <2>6 DEF StoreNext
<1> QED BY <1>2, <1>10, <1>11
-----------------------------------------------------------------------------
LEMMA TwoConnections ==
  ASSUME NEW a \in Actors
  PROVE  /\ ConnOf(a) \in Connections
         /\ \A c \in Connections : c = ConnOf(a) \/ c = Rival(ConnOf(a))
BY DEF ConnOf, Connections, Rival

\* Two actors are never in a transaction at once: those of one process share
\* its lock, and of two processes one has begun immediate.
LEMMA OneTransaction ==
  ASSUME TxInv, NEW a \in Actors, NEW b \in Actors, b # a, draft[ConnOf(a)] # None,
         pc[a] = "locked" \/ InTransaction(a)
  PROVE  ~InTransaction(b)
<1>1. lock[ConnOf(a)] = a
  BY DEF TxInv, WorkInv, LockIsHeld
<1>2. CASE ConnOf(b) = ConnOf(a)
  BY <1>1, <1>2 DEF TxInv, WorkInv, LockIsHeld
<1>3. CASE ConnOf(b) # ConnOf(a)
  <2>1. ConnOf(a) \in Connections /\ ConnOf(b) = Rival(ConnOf(a))
    BY <1>3, TwoConnections
  <2>2. draft[ConnOf(b)] = None
    BY <2>1 DEF TxInv, WorkInv, OneWriter
  <2> QED BY <2>2 DEF TxInv, WorkInv, OperationsAreKnown
<1> QED BY <1>2, <1>3

\* While no connection of an actor and its rival has a draft nobody is in a transaction.
LEMMA NoTransaction ==
  ASSUME TxInv, NEW a \in Actors, draft[ConnOf(a)] = None, draft[Rival(ConnOf(a))] = None,
         NEW b \in Actors
  PROVE  ~InTransaction(b)
<1>1. draft[ConnOf(b)] = None
  BY TwoConnections
<1> QED BY <1>1 DEF TxInv, WorkInv, OperationsAreKnown

\* What an actor has done stays done while the others leave its draft alone.
LEMMA WorkStays ==
  ASSUME NEW b \in Actors, WorkIsKept(b), pc'[b] = pc[b], op'[b] = op[b], seen'[b] = seen[b],
         draft'[ConnOf(b)] = draft[ConnOf(b)], UNCHANGED storeVars
  PROVE  WorkIsKept(b)'
<1>1. Committed' = Committed /\ events' = events
  BY DEF Committed, storeVars
<1>2. Found(b, Committed)' = Found(b, Committed)
  BY <1>1 DEF Found
<1>3. Result(b)' = Result(b)
  BY <1>1 DEF Result, Written
<1>4. /\ NothingToDo(b, seen[b])' = NothingToDo(b, seen[b])
      /\ IsChange(b)' = IsChange(b)
      /\ Inserted(b, events)' = Inserted(b, events)
  BY <1>1 DEF NothingToDo, IsChange, Target, Inserted, Change
<1>5. HasRowIds(draft[ConnOf(b)])' = HasRowIds(draft[ConnOf(b)])
  BY DEF HasRowIds
<1>6. NextId(events)' = NextId(events)
  BY <1>1
<1> HIDE DEF Committed, Result, Found, NothingToDo, IsChange, Inserted, NextId
<1> QED BY <1>1, <1>2, <1>3, <1>4, <1>5, <1>6 DEF WorkIsKept

\* Of an actor outside a transaction there is nothing to keep.
LEMMA NoWork ==
  ASSUME NEW b \in Actors, ~InTransaction(b)'
  PROVE  WorkIsKept(b)'
BY DEF WorkIsKept, InTransaction

\* A step of a leaves the others where they are.
LEMMA OthersWork ==
  ASSUME TxInv, NEW a \in Actors, NEW b \in Actors, b # a,
         pc'[b] = pc[b], op'[b] = op[b], seen'[b] = seen[b],
         \/ UNCHANGED <<storeVars, draft>>
         \/ draft[ConnOf(a)] # None /\ InTransaction(a)
         \/ draft[ConnOf(a)] = None /\ draft[Rival(ConnOf(a))] = None
  PROVE  WorkIsKept(b)'
<1>1. CASE UNCHANGED <<storeVars, draft>>
  BY <1>1, WorkStays DEF TxInv, WorkInv
<1>2. CASE ~InTransaction(b)
  <2>1. ~InTransaction(b)'
    BY <1>2 DEF InTransaction
  <2> QED BY <2>1, NoWork
<1> QED BY <1>1, <1>2, OneTransaction, NoTransaction
-----------------------------------------------------------------------------
\* COMMIT, and nothing else, is a step of the store.
LEMMA CommitIsAStoreStep ==
  ASSUME TxInv, NEW a \in Actors, Commit(a)
  PROVE  [StoreNext]_storeVars
<1>1. InTransaction(a) /\ pc[a] = "done"
  BY DEF Commit, InTransaction
<1>2. op[a] \in OpsOf(a) /\ op[a].kind # "list" /\ WorkIsKept(a) /\ StoreInv
  BY <1>1 DEF TxInv, WorkInv, OperationsAreKnown
<1>3. Becomes(draft[ConnOf(a)]) /\ seen[a] = Found(a, Committed)
  BY <1>1, <1>2 DEF Commit, Becomes, WorkIsKept
<1>4. CASE draft[ConnOf(a)] = Committed
  BY <1>3, <1>4 DEF Becomes, Committed, storeVars
<1>5. ASSUME ~NothingToDo(a, seen[a]), ~IsChange(a), draft[ConnOf(a)] = Result(a),
             HasRowIds(draft[ConnOf(a)])
      PROVE  StoreNext
  BY <1>2, <1>3, <1>5, ResultIsAStoreStep
<1>6. ASSUME ~NothingToDo(a, seen[a]), IsChange(a), NextId(events) <= MaxEventId,
             draft[ConnOf(a)] = [Result(a) EXCEPT !.events = Inserted(a, events)]
      PROVE  StoreNext
  BY <1>2, <1>3, <1>6, ChangeIsAStoreStep
<1> QED BY <1>1, <1>2, <1>4, <1>5, <1>6 DEF WorkIsKept

LEMMA StepIsAStoreStep ==
  ASSUME TxInv, [Next]_vars
  PROVE  [StoreNext]_storeVars
<1>1. ASSUME NEW a \in Actors, Commit(a)
      PROVE  [StoreNext]_storeVars
  BY <1>1, CommitIsAStoreStep
<1>2. CASE \/ \E a \in Actors : \/ Call(a) \/ TakeLock(a) \/ List(a) \/ Begin(a)
                                \/ BeginFails(a) \/ Select(a) \/ Write(a) \/ LogChange(a)
                                \/ StatementFails(a) \/ CommitFails(a)
           \/ \E c \in Connections : Crash(c)
           \/ UNCHANGED vars
  BY <1>2 DEF Call, TakeLock, List, Begin, BeginFails, Select, Write, LogChange,
              StatementFails, CommitFails, Crash, vars
<1> QED BY <1>1, <1>2 DEF Next, Step
-----------------------------------------------------------------------------
LEMMA WorkIsTyped ==
  ASSUME TxInv
  PROVE  TxTypeOK
<1>1. \A c \in Connections : draft[c] \in Draft \cup {None}
  BY DEF TxInv, WorkInv
<1>2. \A d \in Draft : d.services \subseteq Row /\ d.events \subseteq Event
  BY DEF Draft
<1>3. \A c \in Connections : draft[c] # None =>
        draft[c].services \subseteq Row /\ draft[c].events \subseteq Event
  BY <1>1, <1>2
<1> QED BY <1>3 DEF TxInv, WorkInv, TxTypeOK, StoreInv

\* An operation ends: its lock is free and its connection has no draft, or the
\* one that a failed COMMIT has left.
LEMMA ReturnKeepsInv ==
  ASSUME TxInv, NEW a \in Actors, pc[a] = "locked" \/ InTransaction(a), Return(a),
         view' \subseteq Row,
         \/ draft' = draft /\ UNCHANGED storeVars
         \/ InTransaction(a) /\ draft' = [draft EXCEPT ![ConnOf(a)] = None]
  PROVE  WorkInv'
<1>1. WorkInv
  BY DEF TxInv
<1>2. \A b \in Actors : b # a =>
        pc'[b] = pc[b] /\ op'[b] = op[b] /\ seen'[b] = seen[b]
  BY DEF Return
<1>3. pc'[a] = "idle" /\ op'[a] = NoOp /\ seen'[a] = None
  BY <1>1 DEF Return, WorkInv
<1>4. lock'[ConnOf(a)] = None /\ \A c \in Connections : c # ConnOf(a) => lock'[c] = lock[c]
  BY <1>1, TwoConnections DEF Return, WorkInv
<1>5. /\ lock' \in [Connections -> Actors \cup {None}]
      /\ pc' \in [Actors -> {"idle", "called", "locked", "begun", "selected", "changed",
                             "done"}]
      /\ seen' \in [Actors -> Statuses \cup {"row", None}]
      /\ op' = [b \in Actors |-> op'[b]]
  BY <1>1 DEF WorkInv, Return
<1>6. \A b \in Actors : op'[b] = NoOp \/ op'[b] \in OpsOf(b)
  BY <1>1, <1>2, <1>3 DEF WorkInv
<1>7. draft' \in [Connections -> Draft \cup {None}]
  BY <1>1 DEF WorkInv
<1>8. LockIsHeld'
  <2>1. lock[ConnOf(a)] = a
    BY DEF TxInv, WorkInv, LockIsHeld
  <2> SUFFICES ASSUME NEW b \in Actors
               PROVE  (pc[b] = "locked" \/ InTransaction(b) <=> lock[ConnOf(b)] = b)'
    BY DEF LockIsHeld
  <2>2. CASE b = a
    BY <1>3, <1>4, <2>2, NoneIsNobody DEF InTransaction
  <2>3. CASE b # a /\ ConnOf(b) = ConnOf(a)
    BY <1>1, <1>2, <1>4, <2>1, <2>3, NoneIsNobody DEF InTransaction, WorkInv, LockIsHeld
  <2>4. CASE b # a /\ ConnOf(b) # ConnOf(a)
    BY <1>1, <1>2, <1>4, <2>4, TwoConnections DEF InTransaction, WorkInv, LockIsHeld
  <2> QED BY <2>2, <2>3, <2>4
<1>9. OneWriter'
  <2>1. \A c \in Connections : Rival(c) \in Connections
    BY DEF Rival, Connections
  <2>2. \A c \in Connections : draft'[c] = draft[c] \/ draft'[c] = None
    BY <1>1, TwoConnections DEF WorkInv
  <2> QED BY <1>1, <2>1, <2>2 DEF OneWriter, WorkInv
<1>10. OperationsAreKnown'
  <2> SUFFICES ASSUME NEW b \in Actors
               PROVE  (/\ pc[b] # "idle" => op[b] \in OpsOf(b)
                       /\ InTransaction(b) => op[b].kind # "list" /\ draft[ConnOf(b)] # None)'
    BY DEF OperationsAreKnown
  <2>1. CASE b = a
    BY <1>3, <2>1 DEF InTransaction
  <2>2. CASE b # a
    <3>1. op'[b] = op[b] /\ (pc[b] # "idle" => op[b] \in OpsOf(b))
      BY <1>1, <1>2, <2>2 DEF WorkInv, OperationsAreKnown
    <3>2. InTransaction(b) => op[b].kind # "list" /\ draft[ConnOf(b)] # None
      BY <1>1 DEF WorkInv, OperationsAreKnown
    <3>3. InTransaction(b)' <=> InTransaction(b)
      BY <1>2, <2>2 DEF InTransaction
    <3>4. draft' = draft \/ ~InTransaction(b)
      <4>1. CASE InTransaction(a)
        <5>1. draft[ConnOf(a)] # None
          BY <1>1, <4>1 DEF WorkInv, OperationsAreKnown
        <5> QED BY <2>2, <4>1, <5>1, OneTransaction
      <4> QED BY <4>1
    <3> QED BY <1>2, <2>2, <3>1, <3>2, <3>3, <3>4
  <2> QED BY <2>1, <2>2
<1>11. ASSUME NEW b \in Actors
       PROVE  WorkIsKept(b)'
  <2>1. CASE b = a
    BY <1>3, <2>1, NoWork DEF InTransaction
  <2>2. CASE b # a /\ ~InTransaction(b)
    BY <1>2, <2>2, NoWork DEF InTransaction
  <2>3. CASE b # a /\ InTransaction(b)
    <3>1. UNCHANGED <<storeVars, draft>>
      <4>1. CASE InTransaction(a)
        <5>1. draft[ConnOf(a)] # None
          BY <1>1, <4>1 DEF WorkInv, OperationsAreKnown
        <5> QED BY <2>3, <4>1, <5>1, OneTransaction
      <4> QED BY <4>1
    <3> QED BY <1>2, <2>3, <3>1, OthersWork
  <2> QED BY <2>1, <2>2, <2>3
<1> QED BY <1>5, <1>6, <1>7, <1>8, <1>9, <1>10, <1>11 DEF WorkInv

\* A statement: the actor keeps its lock and makes the next draft of its connection.
LEMMA AdvanceKeepsInv ==
  ASSUME TxInv, NEW a \in Actors, op[a].kind # "list",
         \/ InTransaction(a)
         \/ pc[a] = "locked" /\ draft[ConnOf(a)] = None /\ draft[Rival(ConnOf(a))] = None,
         NEW q \in {"begun", "selected", "changed", "done"}, pc' = [pc EXCEPT ![a] = q],
         NEW d \in Draft, draft' = [draft EXCEPT ![ConnOf(a)] = d],
         NEW f \in Statuses \cup {"row", None}, seen' = [seen EXCEPT ![a] = f],
         UNCHANGED <<storeVars, lock, op, view>>, WorkIsKept(a)'
  PROVE  WorkInv'
<1>1. WorkInv
  BY DEF TxInv
<1>2. \A b \in Actors : b # a => pc'[b] = pc[b] /\ op'[b] = op[b] /\ seen'[b] = seen[b]
  OBVIOUS
<1>3. pc'[a] = q /\ InTransaction(a)'
  BY <1>1 DEF WorkInv, InTransaction
<1>4. ConnOf(a) \in Connections /\ d # None /\ draft'[ConnOf(a)] = d
  BY <1>1, TwoConnections, NoneIsNobody DEF WorkInv
<1>5. /\ lock' \in [Connections -> Actors \cup {None}]
      /\ pc' \in [Actors -> {"idle", "called", "locked", "begun", "selected", "changed",
                             "done"}]
      /\ seen' \in [Actors -> Statuses \cup {"row", None}]
      /\ op' = [b \in Actors |-> op'[b]]
      /\ \A b \in Actors : op'[b] = NoOp \/ op'[b] \in OpsOf(b)
      /\ view' \subseteq Row
  BY <1>1 DEF WorkInv
<1>6. draft' \in [Connections -> Draft \cup {None}]
  BY <1>1, <1>4 DEF WorkInv
<1>7. LockIsHeld'
  BY <1>1, <1>2, <1>3 DEF WorkInv, LockIsHeld, InTransaction
<1>8. OneWriter'
  <2>1. draft[Rival(ConnOf(a))] = None
    <3>1. CASE InTransaction(a)
      BY <1>1, <1>4, <3>1 DEF WorkInv, OperationsAreKnown, OneWriter
    <3> QED BY <3>1
  <2>2. Rival(ConnOf(a)) # ConnOf(a)
    BY DEF Rival
  <2>3. draft'[Rival(ConnOf(a))] = None
    BY <1>1, <2>1, <2>2 DEF WorkInv, Rival, Connections
  <2> QED BY <2>3, TwoConnections DEF OneWriter, Rival, Connections
<1>9. OperationsAreKnown'
  <2> SUFFICES ASSUME NEW b \in Actors
               PROVE  (/\ pc[b] # "idle" => op[b] \in OpsOf(b)
                       /\ InTransaction(b) => op[b].kind # "list" /\ draft[ConnOf(b)] # None)'
    BY DEF OperationsAreKnown
  <2>1. CASE b = a
    <3>1. pc[a] # "idle"
      BY DEF InTransaction
    <3> QED BY <1>1, <1>4, <2>1, <3>1 DEF WorkInv, OperationsAreKnown
  <2>2. CASE b # a
    <3>1. draft'[ConnOf(b)] = draft[ConnOf(b)] \/ draft'[ConnOf(b)] # None
      BY <1>1, <1>4, TwoConnections DEF WorkInv
    <3>2. InTransaction(b)' <=> InTransaction(b)
      BY <1>2, <2>2 DEF InTransaction
    <3> QED BY <1>1, <1>2, <2>2, <3>1, <3>2 DEF WorkInv, OperationsAreKnown
  <2> QED BY <2>1, <2>2
<1>10. ASSUME NEW b \in Actors, b # a
       PROVE  WorkIsKept(b)'
  <2>1. InTransaction(a) => draft[ConnOf(a)] # None
    BY <1>1 DEF WorkInv, OperationsAreKnown
  <2> QED BY <1>2, <1>10, <2>1, OthersWork
<1> QED BY <1>5, <1>6, <1>7, <1>8, <1>9, <1>10 DEF WorkInv

LEMMA BeginKeepsInv ==
  ASSUME TxInv, NEW a \in Actors, Begin(a)
  PROVE  WorkInv'
<1>1. Committed \in Draft /\ draft' = [draft EXCEPT ![ConnOf(a)] = Committed]
  BY CommittedIsADraft DEF TxInv, StoreInv, Begin, Committed
<1>2. /\ pc[a] = "locked" /\ op[a].kind # "list" /\ pc' = [pc EXCEPT ![a] = "begun"]
      /\ draft[ConnOf(a)] = None /\ draft[Rival(ConnOf(a))] = None
      /\ UNCHANGED <<storeVars, lock, op, seen, view>>
  BY DEF Begin, MayWrite
<1>3. seen[a] \in Statuses \cup {"row", None} /\ seen' = [seen EXCEPT ![a] = seen[a]]
  BY <1>2 DEF TxInv, WorkInv
<1>4. WorkIsKept(a)'
  <2>1. pc'[a] = "begun" /\ draft'[ConnOf(a)] = Committed
    BY <1>1, <1>2, TwoConnections DEF TxInv, WorkInv
  <2>2. Committed' = Committed
    BY <1>2 DEF Committed, storeVars
  <2> QED BY <2>1, <2>2 DEF WorkIsKept
<1> QED BY <1>1, <1>2, <1>3, <1>4, AdvanceKeepsInv

\* The status a SELECT finds is one, or there is no row.
LEMMA FoundIsTyped ==
  ASSUME StoreInv, NEW a \in Actors
  PROVE  Found(a, Committed) \in Statuses \cup {"row", None}
<1>1. CASE op[a].kind \in {"record", "mark"}
  BY <1>1, FoundRow
<1>2. CASE op[a].kind \notin {"record", "mark"}
  BY <1>2 DEF Found
<1> QED BY <1>1, <1>2

LEMMA SelectKeepsInv ==
  ASSUME TxInv, NEW a \in Actors, Select(a)
  PROVE  WorkInv'
<1> DEFINE f == Found(a, Committed)
           q == IF NothingToDo(a, f) THEN "done" ELSE "selected"
<1>1. pc[a] = "begun" /\ InTransaction(a)
  BY DEF Select, InTransaction
<1>2. draft[ConnOf(a)] = Committed /\ op[a].kind # "list"
  BY <1>1 DEF TxInv, WorkInv, WorkIsKept, OperationsAreKnown
<1>3. /\ seen' = [seen EXCEPT ![a] = f] /\ pc' = [pc EXCEPT ![a] = q]
      /\ UNCHANGED <<storeVars, lock, draft, op, view>>
  BY <1>2 DEF Select
<1>4. Committed \in Draft /\ draft' = [draft EXCEPT ![ConnOf(a)] = Committed]
  BY <1>2, <1>3, CommittedIsADraft DEF TxInv, WorkInv, StoreInv
<1>5. f \in Statuses \cup {"row", None}
  BY FoundIsTyped DEF TxInv
<1>6. WorkIsKept(a)'
  <2>1. pc'[a] = q /\ seen'[a] = f /\ draft'[ConnOf(a)] = Committed
    BY <1>2, <1>3 DEF TxInv, WorkInv
  <2>2. Committed' = Committed
    BY <1>3 DEF Committed, storeVars
  <2>3. Found(a, Committed)' = f
    BY <1>3, <2>2 DEF Found
  <2>4. NothingToDo(a, seen[a])' <=> NothingToDo(a, f)
    BY <1>3, <2>1 DEF NothingToDo
  <2> HIDE DEF f
  <2>5. q \in {"done", "selected"} /\ (q = "selected" => ~NothingToDo(a, f))
    OBVIOUS
  <2> QED BY <2>1, <2>2, <2>3, <2>4, <2>5 DEF WorkIsKept
<1>7. q \in {"begun", "selected", "changed", "done"}
  OBVIOUS
<1> HIDE DEF f, q
<1> QED BY <1>1, <1>2, <1>3, <1>4, <1>5, <1>6, <1>7, AdvanceKeepsInv

LEMMA WriteKeepsInv ==
  ASSUME TxInv, NEW a \in Actors, Write(a)
  PROVE  WorkInv'
<1> DEFINE q == IF IsChange(a) THEN "changed" ELSE "done"
<1>1. pc[a] = "selected" /\ InTransaction(a)
  BY DEF Write, InTransaction
<1>2. /\ draft[ConnOf(a)] = Committed /\ op[a].kind # "list" /\ op[a] \in OpsOf(a)
      /\ seen[a] = Found(a, Committed) /\ ~NothingToDo(a, seen[a])
  BY <1>1 DEF TxInv, WorkInv, WorkIsKept, OperationsAreKnown
<1>3. /\ draft' = [draft EXCEPT ![ConnOf(a)] = Result(a)] /\ HasRowIds(Result(a))
      /\ pc' = [pc EXCEPT ![a] = q] /\ UNCHANGED <<storeVars, lock, op, seen, view>>
  BY <1>2 DEF Write, Result, HasRowIds
<1>4. Result(a) \in Draft
  <2>1. Committed \in Draft
    BY CommittedIsADraft DEF TxInv, StoreInv
  <2> QED BY <1>2, <1>3, <2>1, WritesAreTyped DEF Result
<1>5. seen[a] \in Statuses \cup {"row", None} /\ seen' = [seen EXCEPT ![a] = seen[a]]
  BY <1>3 DEF TxInv, WorkInv
<1>6. WorkIsKept(a)'
  <2>1. pc'[a] = q /\ draft'[ConnOf(a)] = Result(a)
    BY <1>3, TwoConnections DEF TxInv, WorkInv
  <2>2. Committed' = Committed /\ seen' = seen /\ op' = op
    BY <1>3 DEF Committed, storeVars
  <2>3. Found(a, Committed)' = Found(a, Committed)
    BY <2>2 DEF Found
  <2>4. NothingToDo(a, seen[a])' <=> NothingToDo(a, seen[a])
    BY <2>2 DEF NothingToDo
  <2>5. IsChange(a)' <=> IsChange(a)
    BY <2>2 DEF IsChange, Target
  <2>6. Result(a)' = Result(a)
    BY <2>2 DEF Result, Written
  <2>7. HasRowIds(draft[ConnOf(a)])'
    BY <1>3, <2>1 DEF HasRowIds
  <2>8. q \in {"changed", "done"} /\ (q = "changed" <=> IsChange(a))
    OBVIOUS
  <2> HIDE DEF q
  <2> QED BY <1>2, <2>1, <2>2, <2>3, <2>4, <2>5, <2>6, <2>7, <2>8 DEF WorkIsKept
<1>7. q \in {"begun", "selected", "changed", "done"}
  OBVIOUS
<1> HIDE DEF q
<1> QED BY <1>1, <1>2, <1>3, <1>4, <1>5, <1>6, <1>7, AdvanceKeepsInv

\* The statement that changes a status leaves the log to the one after it.
LEMMA ChangeKeepsEvents ==
  ASSUME StoreInv, NEW a \in Actors, IsChange(a)
  PROVE  /\ Result(a).events = events
         /\ Result(a) = [services |-> Result(a).services, events |-> events, meta |-> meta]
<1>1. Committed \in Draft
  BY CommittedIsADraft DEF StoreInv
<1>2. PICK S : Result(a) = [Committed EXCEPT !.services = S]
  <2>1. CASE op[a].kind = "record"
    <3> DEFINE S == {IF r.id = op[a].id
                       THEN Checked(r, op[a].status, op[a].at, ReasonOf(op[a].status))
                       ELSE r : r \in Committed.services}
    <3>1. Result(a) = [Committed EXCEPT !.services = S]
      BY <1>1, <2>1, WrittenByKind DEF Result
    <3> HIDE DEF S
    <3> QED BY <3>1
  <2>2. CASE op[a].kind = "mark"
    <3> DEFINE S == {IF r.id = op[a].id
                       THEN [r EXCEPT !.status = "unknown", !.reason = "gap",
                                      !.change = op[a].at]
                       ELSE r : r \in Committed.services}
    <3>1. Result(a) = [Committed EXCEPT !.services = S]
      BY <1>1, <2>2, WrittenByKind DEF Result
    <3> HIDE DEF S
    <3> QED BY <3>1
  <2> QED BY <2>1, <2>2 DEF IsChange
<1> QED BY <1>2 DEF Committed

LEMMA LogChangeKeepsInv ==
  ASSUME TxInv, NEW a \in Actors, LogChange(a)
  PROVE  WorkInv'
<1> DEFINE d == [Result(a) EXCEPT !.events = Inserted(a, events)]
<1>1. pc[a] = "changed" /\ InTransaction(a)
  BY DEF LogChange, InTransaction
<1>2. /\ draft[ConnOf(a)] = Result(a) /\ op[a].kind # "list" /\ op[a] \in OpsOf(a)
      /\ seen[a] = Found(a, Committed) /\ ~NothingToDo(a, seen[a]) /\ IsChange(a)
  BY <1>1 DEF TxInv, WorkInv, WorkIsKept, OperationsAreKnown
<1>3. Result(a) = [services |-> Result(a).services, events |-> events, meta |-> meta]
  BY <1>2, ChangeKeepsEvents DEF TxInv
<1>4. NextId(events) <= MaxEventId
  BY <1>2, <1>3 DEF LogChange
<1>5. draft' = [draft EXCEPT ![ConnOf(a)] = d]
  <2>1. Result(a).events = events
    BY <1>2, ChangeKeepsEvents DEF TxInv
  <2>2. draft' = [draft EXCEPT ![ConnOf(a)].events = Inserted(a, events)]
    BY <1>2, <2>1 DEF LogChange
  <2> QED BY <1>2, <2>2
<1>6. pc' = [pc EXCEPT ![a] = "done"] /\ UNCHANGED <<storeVars, lock, op, seen, view>>
  BY DEF LogChange
<1>7. d \in Draft
  <2>1. Result(a).services \subseteq Row
    <3>1. draft[ConnOf(a)] \in Draft
      BY <1>1, TwoConnections DEF TxInv, WorkInv, OperationsAreKnown
    <3> QED BY <1>2, <3>1 DEF Draft
  <2>2. events \subseteq Event /\ meta \in Time \cup {None}
    BY DEF TxInv, StoreInv, TypeOK
  <2>3. Change(a, NextId(events)) \in Event
    <3> DEFINE o == op[a]
    <3>1. NextId(events) \in 1..MaxEventId
      BY <1>4, FreshIds, IdsAreBounded DEF TxInv, StoreInv
    <3>2. o.id \in 1..MaxServiceId /\ o.at \in Time /\ o.kind \in {"record", "mark"}
      BY <1>2, OperationFields DEF IsChange
    <3>3. seen[a] # None
      BY <1>2, <3>2 DEF NothingToDo
    <3>4. seen[a] \in Statuses
      BY <1>2, <3>2, <3>3, FoundRow DEF TxInv
    <3>5. Target(a) \in Statuses
      BY <1>2, <3>2, OperationFields DEF Target, Statuses
    <3>6. (IF o.kind = "mark" THEN "gap" ELSE ReasonOf(Target(a))) \in Reasons \cup {None}
      BY DEF ReasonOf, Reasons
    <3> HIDE DEF o
    <3>7. Change(a, NextId(events)) =
            [id |-> NextId(events), svc |-> o.id, at |-> o.at, from |-> seen[a],
             to |-> Target(a),
             reason |-> IF o.kind = "mark" THEN "gap" ELSE ReasonOf(Target(a))]
      BY DEF Change, o
    <3> QED BY <3>1, <3>2, <3>4, <3>5, <3>6, <3>7 DEF Event
  <2>4. Inserted(a, events) \subseteq Event
    BY <2>2, <2>3 DEF Inserted
  <2>5. d = [services |-> Result(a).services, events |-> Inserted(a, events),
             meta |-> meta]
    BY <1>3
  <2> HIDE DEF d
  <2> QED BY <2>1, <2>2, <2>4, <2>5 DEF Draft
<1>8. seen[a] \in Statuses \cup {"row", None} /\ seen' = [seen EXCEPT ![a] = seen[a]]
  BY <1>6 DEF TxInv, WorkInv
<1>9. WorkIsKept(a)'
  <2>1. pc'[a] = "done" /\ draft'[ConnOf(a)] = d
    BY <1>5, <1>6, TwoConnections DEF TxInv, WorkInv
  <2>2. Committed' = Committed /\ seen' = seen /\ op' = op /\ events' = events
    BY <1>6 DEF Committed, storeVars
  <2>3. Found(a, Committed)' = Found(a, Committed)
    BY <2>2 DEF Found
  <2>4. NothingToDo(a, seen[a])' <=> NothingToDo(a, seen[a])
    BY <2>2 DEF NothingToDo
  <2>5. IsChange(a)' <=> IsChange(a)
    BY <2>2 DEF IsChange, Target
  <2>6. Result(a)' = Result(a)
    BY <2>2 DEF Result, Written
  <2>7. Inserted(a, events)' = Inserted(a, events)
    BY <2>2 DEF Inserted, Change, Target
  <2>8. (NextId(events) <= MaxEventId)'
    BY <1>4, <2>2
  <2>9. draft'[ConnOf(a)] = [Result(a)' EXCEPT !.events = Inserted(a, events)']
    BY <2>1, <2>6, <2>7
  <2> HIDE DEF d
  <2> QED BY <1>2, <2>1, <2>2, <2>3, <2>4, <2>5, <2>8, <2>9 DEF WorkIsKept
<1> HIDE DEF d
<1> QED BY <1>1, <1>2, <1>5, <1>6, <1>7, <1>8, <1>9, AdvanceKeepsInv

LEMMA CallKeepsInv ==
  ASSUME TxInv, NEW a \in Actors, Call(a)
  PROVE  WorkInv'
<1>1. WorkInv
  BY DEF TxInv
<1>2. PICK o \in OpsOf(a) : op' = [op EXCEPT ![a] = o]
  BY DEF Call
<1>3. pc[a] = "idle" /\ pc' = [pc EXCEPT ![a] = "called"]
      /\ UNCHANGED <<storeVars, lock, draft, seen, view>>
  BY DEF Call
<1>4. /\ \A b \in Actors : b # a => pc'[b] = pc[b] /\ op'[b] = op[b]
      /\ pc'[a] = "called" /\ op'[a] = o
  BY <1>1, <1>2, <1>3 DEF WorkInv
<1>5. /\ pc' \in [Actors -> {"idle", "called", "locked", "begun", "selected", "changed",
                             "done"}]
      /\ op' = [b \in Actors |-> op'[b]]
      /\ \A b \in Actors : op'[b] = NoOp \/ op'[b] \in OpsOf(b)
  BY <1>1, <1>2, <1>3, <1>4 DEF WorkInv
<1>6. LockIsHeld'
  BY <1>1, <1>3, <1>4 DEF WorkInv, LockIsHeld, InTransaction
<1>7. OneWriter'
  BY <1>1, <1>3 DEF WorkInv, OneWriter
<1>8. OperationsAreKnown'
  BY <1>1, <1>3, <1>4 DEF WorkInv, OperationsAreKnown, InTransaction
<1>9. ASSUME NEW b \in Actors
      PROVE  WorkIsKept(b)'
  <2>1. CASE b = a
    BY <1>4, <2>1, NoWork DEF InTransaction
  <2>2. CASE b # a
    BY <1>3, <1>4, <2>2, OthersWork
  <2> QED BY <2>1, <2>2
<1> QED BY <1>1, <1>3, <1>5, <1>6, <1>7, <1>8, <1>9 DEF WorkInv

LEMMA TakeLockKeepsInv ==
  ASSUME TxInv, NEW a \in Actors, TakeLock(a)
  PROVE  WorkInv'
<1>1. WorkInv
  BY DEF TxInv
<1>2. /\ pc[a] = "called" /\ pc' = [pc EXCEPT ![a] = "locked"]
      /\ lock[ConnOf(a)] = None /\ lock' = [lock EXCEPT ![ConnOf(a)] = a]
      /\ UNCHANGED <<storeVars, draft, op, seen, view>>
  BY DEF TakeLock, LockIsFree
<1>3. /\ \A b \in Actors : b # a => pc'[b] = pc[b]
      /\ pc'[a] = "locked" /\ lock'[ConnOf(a)] = a
      /\ \A c \in Connections : c # ConnOf(a) => lock'[c] = lock[c]
  BY <1>1, <1>2, TwoConnections DEF WorkInv
<1>4. /\ pc' \in [Actors -> {"idle", "called", "locked", "begun", "selected", "changed",
                             "done"}]
      /\ lock' \in [Connections -> Actors \cup {None}]
  BY <1>1, <1>2 DEF WorkInv
<1>5. LockIsHeld'
  <2> SUFFICES ASSUME NEW b \in Actors
               PROVE  (pc[b] = "locked" \/ InTransaction(b) <=> lock[ConnOf(b)] = b)'
    BY DEF LockIsHeld
  <2>1. CASE b = a
    BY <1>3, <2>1
  <2>2. CASE b # a /\ ConnOf(b) = ConnOf(a)
    BY <1>1, <1>2, <1>3, <2>2, NoneIsNobody DEF WorkInv, LockIsHeld, InTransaction
  <2>3. CASE b # a /\ ConnOf(b) # ConnOf(a)
    BY <1>1, <1>3, <2>3, TwoConnections DEF WorkInv, LockIsHeld, InTransaction
  <2> QED BY <2>1, <2>2, <2>3
<1>6. OneWriter'
  BY <1>1, <1>2 DEF WorkInv, OneWriter
<1>7. OperationsAreKnown'
  BY <1>1, <1>2, <1>3 DEF WorkInv, OperationsAreKnown, InTransaction
<1>8. ASSUME NEW b \in Actors
      PROVE  WorkIsKept(b)'
  <2>1. CASE b = a
    BY <1>3, <2>1, NoWork DEF InTransaction
  <2>2. CASE b # a
    BY <1>2, <1>3, <2>2, OthersWork
  <2> QED BY <2>1, <2>2
<1>9. op' = op /\ seen' = seen /\ draft' = draft /\ view' = view
  BY <1>2
<1> QED BY <1>1, <1>4, <1>5, <1>6, <1>7, <1>8, <1>9 DEF WorkInv

\* A process that dies takes its lock, its draft and its operations with it.
LEMMA CrashKeepsInv ==
  ASSUME TxInv, NEW c \in Connections, Crash(c)
  PROVE  WorkInv'
<1>1. WorkInv
  BY DEF TxInv
<1>2. \A b \in Actors :
        IF ConnOf(b) = c
          THEN pc'[b] = "idle" /\ op'[b] = NoOp /\ seen'[b] = None
          ELSE pc'[b] = pc[b] /\ op'[b] = op[b] /\ seen'[b] = seen[b]
  BY DEF Crash
<1>3. /\ lock' = [lock EXCEPT ![c] = None] /\ draft' = [draft EXCEPT ![c] = None]
      /\ UNCHANGED <<storeVars, view>>
  BY DEF Crash
<1>4. /\ lock'[c] = None /\ draft'[c] = None
      /\ \A k \in Connections : k # c => lock'[k] = lock[k] /\ draft'[k] = draft[k]
  BY <1>1, <1>3 DEF WorkInv
<1>5. /\ lock' \in [Connections -> Actors \cup {None}]
      /\ draft' \in [Connections -> Draft \cup {None}]
  BY <1>1, <1>3 DEF WorkInv
<1>6. /\ pc' \in [Actors -> {"idle", "called", "locked", "begun", "selected", "changed",
                             "done"}]
      /\ seen' \in [Actors -> Statuses \cup {"row", None}]
      /\ op' = [b \in Actors |-> op'[b]]
  BY <1>1 DEF WorkInv, Crash
<1>7. \A b \in Actors : op'[b] = NoOp \/ op'[b] \in OpsOf(b)
  BY <1>1, <1>2 DEF WorkInv
<1>8. LockIsHeld'
  BY <1>1, <1>2, <1>4, TwoConnections, NoneIsNobody DEF WorkInv, LockIsHeld, InTransaction
<1>9. OneWriter'
  <2>1. \A k \in Connections : draft'[k] = draft[k] \/ draft'[k] = None
    BY <1>4
  <2>2. \A k \in Connections : Rival(k) \in Connections
    BY DEF Rival, Connections
  <2> QED BY <1>1, <2>1, <2>2 DEF WorkInv, OneWriter
<1>10. OperationsAreKnown'
  BY <1>1, <1>2, <1>4, TwoConnections DEF WorkInv, OperationsAreKnown, InTransaction
<1>11. ASSUME NEW b \in Actors
       PROVE  WorkIsKept(b)'
  <2>1. CASE ConnOf(b) = c
    BY <1>2, <2>1, NoWork DEF InTransaction
  <2>2. CASE ConnOf(b) # c
    BY <1>1, <1>2, <1>3, <1>4, <2>2, TwoConnections, WorkStays DEF WorkInv
  <2> QED BY <2>1, <2>2
<1> QED BY <1>1, <1>3, <1>5, <1>6, <1>7, <1>8, <1>9, <1>10, <1>11 DEF WorkInv
-----------------------------------------------------------------------------
LEMMA WorkInvIsKept ==
  ASSUME TxInv, [Next]_vars
  PROVE  WorkInv'
<1>1. WorkInv
  BY DEF TxInv
<1>2. ASSUME NEW a \in Actors, Call(a)
      PROVE  WorkInv'
  BY <1>2, CallKeepsInv
<1>3. ASSUME NEW a \in Actors, TakeLock(a)
      PROVE  WorkInv'
  BY <1>3, TakeLockKeepsInv
<1>4. ASSUME NEW a \in Actors, List(a)
      PROVE  WorkInv'
  <2>1. view' \subseteq Row
    <3>1. draft[ConnOf(a)] # None => draft[ConnOf(a)].services \subseteq Row
      BY TwoConnections, WorkIsTyped DEF TxTypeOK
    <3> QED BY <1>4, <3>1 DEF List, TxInv, WorkInv, StoreInv, TypeOK
  <2> QED BY <1>4, <2>1, ReturnKeepsInv DEF List
<1>5. ASSUME NEW a \in Actors, Begin(a)
      PROVE  WorkInv'
  BY <1>5, BeginKeepsInv
<1>6. ASSUME NEW a \in Actors, BeginFails(a)
      PROVE  WorkInv'
  BY <1>1, <1>6, ReturnKeepsInv DEF BeginFails, WorkInv
<1>7. ASSUME NEW a \in Actors, Select(a)
      PROVE  WorkInv'
  BY <1>7, SelectKeepsInv
<1>8. ASSUME NEW a \in Actors, Write(a)
      PROVE  WorkInv'
  BY <1>8, WriteKeepsInv
<1>9. ASSUME NEW a \in Actors, LogChange(a)
      PROVE  WorkInv'
  BY <1>9, LogChangeKeepsInv
<1>10. ASSUME NEW a \in Actors, StatementFails(a)
       PROVE  WorkInv'
  <2>1. InTransaction(a) /\ draft' = [draft EXCEPT ![ConnOf(a)] = None]
        /\ view' \subseteq Row /\ Return(a)
    BY <1>1, <1>10 DEF StatementFails, DraftAfterError, InTransaction, WorkInv
  <2> QED BY <2>1, ReturnKeepsInv
<1>11. ASSUME NEW a \in Actors, Commit(a)
       PROVE  WorkInv'
  <2>1. InTransaction(a) /\ draft' = [draft EXCEPT ![ConnOf(a)] = None]
        /\ view' \subseteq Row /\ Return(a)
    BY <1>1, <1>11 DEF Commit, InTransaction, WorkInv
  <2> QED BY <2>1, ReturnKeepsInv
<1>12. ASSUME NEW a \in Actors, CommitFails(a)
       PROVE  WorkInv'
  <2>1. InTransaction(a) /\ view' \subseteq Row /\ Return(a) /\ UNCHANGED storeVars
    BY <1>1, <1>12 DEF CommitFails, InTransaction, WorkInv
  <2>2. draft' = [draft EXCEPT ![ConnOf(a)] = None] \/ draft' = draft
    <3>1. PICK left \in CommitFailures :
            draft' = [draft EXCEPT ![ConnOf(a)] = IF left = "open" THEN @ ELSE None]
      BY <1>12 DEF CommitFails
    <3> QED BY <1>1, <3>1 DEF WorkInv
  <2> QED BY <2>1, <2>2, ReturnKeepsInv
<1>13. ASSUME NEW c \in Connections, Crash(c)
       PROVE  WorkInv'
  BY <1>13, CrashKeepsInv
<1>14. CASE UNCHANGED vars
  <2>1. /\ lock' = lock /\ draft' = draft /\ pc' = pc /\ op' = op /\ seen' = seen
        /\ view' = view /\ UNCHANGED storeVars
    BY <1>14 DEF vars, txVars
  <2>2. \A b \in Actors : WorkIsKept(b)'
    BY <1>1, <2>1, WorkStays DEF WorkInv
  <2> QED BY <1>1, <2>1, <2>2 DEF WorkInv, LockIsHeld, OneWriter, OperationsAreKnown,
                                  InTransaction
<1> QED BY <1>2, <1>3, <1>4, <1>5, <1>6, <1>7, <1>8, <1>9, <1>10, <1>11, <1>12, <1>13, <1>14
        DEF Next, Step

LEMMA TxInvIsInductive ==
  ASSUME TxInv, [Next]_vars
  PROVE  TxInv'
<1>1. StoreInv'
  BY StepIsAStoreStep, StoreInvIsInductive DEF TxInv, WorkInv
<1>2. WorkInv'
  BY WorkInvIsKept
<1> QED BY <1>1, <1>2 DEF TxInv

LEMMA TxInvInitially == Init => TxInv
<1> SUFFICES ASSUME Init
             PROVE  TxInv
  OBVIOUS
<1>1. StoreInv
  BY StoreInvInitially DEF Init
<1>2. WorkInv
  <2>1. \A b \in Actors : pc[b] = "idle" /\ op[b] = NoOp /\ seen[b] = None
    BY DEF Init
  <2>2. \A c \in Connections : lock[c] = None /\ draft[c] = None
    BY DEF Init
  <2>3. LockIsHeld
    BY <2>1, <2>2, TwoConnections, NoneIsNobody DEF LockIsHeld, InTransaction
  <2>4. OneWriter /\ OperationsAreKnown /\ \A b \in Actors : WorkIsKept(b)
    BY <2>1, <2>2 DEF OneWriter, OperationsAreKnown, WorkIsKept, InTransaction
  <2>5. /\ lock \in [Connections -> Actors \cup {None}]
        /\ draft \in [Connections -> Draft \cup {None}]
        /\ pc \in [Actors -> {"idle", "called", "locked", "begun", "selected", "changed",
                              "done"}]
        /\ seen \in [Actors -> Statuses \cup {"row", None}]
        /\ op = [a \in Actors |-> op[a]]
        /\ view \subseteq Row
    BY DEF Init
  <2> QED BY <2>1, <2>3, <2>4, <2>5 DEF WorkInv
<1> QED BY <1>1, <1>2 DEF TxInv

\* The inductive invariant: who holds a lock and what its transaction has done so far.
THEOREM TxInvariant == Spec => []TxInv
<1>1. TxInv /\ [Next]_vars => TxInv'
  BY TxInvIsInductive
<1> QED BY <1>1, TxInvInitially, PTL DEF Spec

\* Drafts and tables keep to their columns' kinds at every statement.
THEOREM TransactionsAreTyped == Spec => []TxTypeOK
<1>1. TxInv => TxTypeOK
  BY WorkIsTyped
<1> QED BY <1>1, TxInvariant, PTL

\* Refinement: whatever statement or commit fails and whoever dies, the committed
\* tables go through operations of StatusStore as a whole or not at all.
THEOREM TransactionsImplementTheStore == Spec => StoreSpec
<1>1. Init => StoreInit
  BY DEF Init
<1>2. TxInv /\ [Next]_vars => [StoreNext]_storeVars
  BY StepIsAStoreStep
<1> QED BY <1>1, <1>2, TxInvariant, PTL DEF Spec, StoreSpec
-----------------------------------------------------------------------------
\* A draft is the draft of an actor at work on it, if no failed COMMIT leaves one.
DraftIsOwned ==
  \A c \in Connections :
    draft[c] # None => \E a \in Actors : ConnOf(a) = c /\ InTransaction(a)

LEMMA OwnersStay ==
  ASSUME "open" \notin CommitFailures, TxInv, DraftIsOwned, [Next]_vars
  PROVE  DraftIsOwned'
<1> SUFFICES ASSUME NEW c \in Connections, draft'[c] # None
             PROVE  \E b \in Actors : ConnOf(b) = c /\ InTransaction(b)'
  BY DEF DraftIsOwned
<1>1. ASSUME draft[c] # None,
             \A b \in Actors : ConnOf(b) = c /\ InTransaction(b) => pc'[b] = pc[b]
      PROVE  \E b \in Actors : ConnOf(b) = c /\ InTransaction(b)'
  BY <1>1 DEF DraftIsOwned, InTransaction
<1>2. ASSUME NEW a \in Actors,
             Call(a) \/ TakeLock(a) \/ List(a) \/ BeginFails(a)
      PROVE  \E b \in Actors : ConnOf(b) = c /\ InTransaction(b)'
  <2>1. draft' = draft /\ ~InTransaction(a)
    BY <1>2 DEF Call, TakeLock, List, BeginFails, InTransaction
  <2>2. \A b \in Actors : b # a => pc'[b] = pc[b]
    BY <1>2 DEF Call, TakeLock, List, BeginFails, Return, TxInv, WorkInv
  <2> QED BY <1>1, <2>1, <2>2
<1>3. ASSUME NEW a \in Actors,
             Begin(a) \/ Select(a) \/ Write(a) \/ LogChange(a)
      PROVE  \E b \in Actors : ConnOf(b) = c /\ InTransaction(b)'
  <2>1. InTransaction(a)' /\ \A b \in Actors : b # a => pc'[b] = pc[b]
    <3>1. \E q \in {"begun", "selected", "changed", "done"} : pc' = [pc EXCEPT ![a] = q]
      BY <1>3 DEF Begin, Select, Write, LogChange
    <3> QED BY <3>1 DEF InTransaction, TxInv, WorkInv
  <2>2. c # ConnOf(a) => draft'[c] = draft[c]
    <3>1. draft' = draft \/ \E d : draft' = [draft EXCEPT ![ConnOf(a)] = d]
      BY <1>3 DEF Begin, Select, Write, LogChange
    <3> QED BY <3>1 DEF TxInv, WorkInv
  <2> QED BY <1>1, <2>1, <2>2
<1>4. ASSUME NEW a \in Actors,
             StatementFails(a) \/ Commit(a) \/ CommitFails(a)
      PROVE  \E b \in Actors : ConnOf(b) = c /\ InTransaction(b)'
  <2>1. draft' = [draft EXCEPT ![ConnOf(a)] = None]
    <3>1. \A left \in CommitFailures : left # "open"
      OBVIOUS
    <3> QED BY <1>4, <3>1 DEF StatementFails, DraftAfterError, Commit, CommitFails
  <2>2. \A b \in Actors : b # a => pc'[b] = pc[b]
    BY <1>4 DEF StatementFails, Commit, CommitFails, Return, TxInv, WorkInv
  <2>3. c # ConnOf(a) /\ draft'[c] = draft[c]
    BY <2>1 DEF TxInv, WorkInv
  <2> QED BY <1>1, <2>2, <2>3
<1>5. ASSUME NEW k \in Connections, Crash(k)
      PROVE  \E b \in Actors : ConnOf(b) = c /\ InTransaction(b)'
  <2>1. c # k /\ draft'[c] = draft[c]
    BY <1>5 DEF Crash, TxInv, WorkInv
  <2>2. \A b \in Actors : ConnOf(b) = c => pc'[b] = pc[b]
    BY <1>5, <2>1 DEF Crash
  <2> QED BY <1>1, <2>1, <2>2
<1>6. CASE UNCHANGED vars
  <2>1. draft' = draft /\ pc' = pc
    BY <1>6 DEF vars, txVars
  <2> QED BY <1>1, <2>1
<1> QED BY <1>2, <1>3, <1>4, <1>5, <1>6 DEF Next, Step

\* Every open transaction has an actor in the middle of its operation, provided
\* that a failed COMMIT does not leave it open.
THEOREM DraftsAreOwned ==
  ASSUME "open" \notin CommitFailures
  PROVE  Spec => [](TxInv /\ DraftIsOwned)
<1>1. Init => DraftIsOwned
  BY DEF Init, DraftIsOwned
<1>2. TxInv /\ DraftIsOwned /\ [Next]_vars => DraftIsOwned'
  BY OwnersStay
<1> QED BY <1>1, <1>2, TxInvariant, PTL DEF Spec

\* Provided that a failed COMMIT does not leave its transaction open, none is open
\* while the lock of its connection is free.
THEOREM NoTransactionIsOrphaned ==
  ASSUME "open" \notin CommitFailures
  PROVE  Spec => []NoOrphanTransaction
<1>1. TxInv /\ DraftIsOwned => NoOrphanTransaction
  BY NoneIsNobody DEF TxInv, WorkInv, LockIsHeld, DraftIsOwned, NoOrphanTransaction
<1> QED BY <1>1, DraftsAreOwned, PTL

\* Under the same proviso list_services returns committed rows only.
THEOREM OnlyCommittedRowsAreRead ==
  ASSUME "open" \notin CommitFailures
  PROVE  Spec => ReadsAreCommitted
<1>1. TxInv /\ DraftIsOwned /\ [Next]_vars => [view' # view => view' = services]_vars
  <2> SUFFICES ASSUME TxInv, DraftIsOwned, [Next]_vars, view' # view
               PROVE  view' = services
    OBVIOUS
  <2>1. PICK a \in Actors : List(a)
    BY DEF Next, Step, Call, TakeLock, Begin, BeginFails, Select, Write, LogChange,
           StatementFails, Commit, CommitFails, Crash, vars, txVars
  <2>2. pc[a] = "locked" /\ lock[ConnOf(a)] = a
    BY <2>1 DEF List, TxInv, WorkInv, LockIsHeld
  <2>3. \A b \in Actors : ConnOf(b) = ConnOf(a) => ~InTransaction(b)
    BY <2>2 DEF TxInv, WorkInv, LockIsHeld, InTransaction
  <2>4. draft[ConnOf(a)] = None
    BY <2>3, TwoConnections DEF DraftIsOwned
  <2> QED BY <2>1, <2>4 DEF List
<1> QED BY <1>1, DraftsAreOwned, PTL DEF Spec, ReadsAreCommitted
-----------------------------------------------------------------------------
HasKey(S, k) == \E r \in S : r.key = k

\* What an operation makes of the table services.
LEMMA RowsByKind ==
  ASSUME TypeOK, NEW a \in Actors, op[a] \in OpsOf(a), op[a].kind # "list"
  PROVE  LET o == op[a]
             w == Result(a)
         IN  /\ w = [services |-> w.services, events |-> w.events, meta |-> w.meta]
             /\ o.kind = "upsert" /\ seen[a] = None =>
                  w.services = services \cup {NewRow(o, Committed)}
             /\ o.kind = "upsert" /\ seen[a] # None =>
                  w.services = {IF r.key = o.key THEN Renewed(r, o.info, o.source, o.at) ELSE r
                                  : r \in services}
             /\ o.kind = "record" =>
                  w.services = {IF r.id = o.id
                                  THEN Checked(r, o.status, o.at, ReasonOf(o.status)) ELSE r
                                  : r \in services}
             /\ o.kind = "mark" =>
                  w.services = {IF r.id = o.id
                                  THEN [r EXCEPT !.status = "unknown", !.reason = "gap",
                                                 !.change = o.at]
                                  ELSE r : r \in services}
             /\ o.kind \in {"meta", "prune", "remove"} => w.services \subseteq services
<1> DEFINE o == op[a]
           d == Committed
           w == Result(a)
<1>0. d \in Draft /\ d.services = services /\ d.events = events /\ d.meta = meta
  BY CommittedIsADraft DEF Committed
<1>1. d = [services |-> services, events |-> events, meta |-> meta] /\ w = Written(a, d)
  BY DEF Committed, Result
<1>2. o \in OpsOf(a) /\ o = op[a] /\ o.kind # "list"
  OBVIOUS
<1>3. o.kind \in {"record", "mark", "meta", "upsert", "list", "prune", "remove"}
  <2> HIDE DEF o
  <2> QED BY <1>2, OperationFields
<1> HIDE DEF d
<1>4. ASSUME NEW T, w = [d EXCEPT !.services = T]
      PROVE  w = [services |-> w.services, events |-> w.events, meta |-> w.meta] /\ w.services = T
  BY <1>1, <1>4
<1>5. ASSUME o.kind = "upsert", seen[a] = None
      PROVE  w = [d EXCEPT !.services = services \cup {NewRow(o, d)}]
  BY <1>0, <1>5, WrittenByKind DEF Result, d
<1>6. ASSUME o.kind = "upsert", seen[a] # None
      PROVE  w = [d EXCEPT !.services =
               {IF r.key = o.key THEN Renewed(r, o.info, o.source, o.at) ELSE r : r \in services}]
  BY <1>0, <1>6, WrittenByKind DEF Result, d
<1>7. ASSUME o.kind = "record"
      PROVE  w = [d EXCEPT !.services =
               {IF r.id = o.id THEN Checked(r, o.status, o.at, ReasonOf(o.status)) ELSE r
                  : r \in services}]
  BY <1>0, <1>7, WrittenByKind DEF Result, d
<1>8. ASSUME o.kind = "mark"
      PROVE  w = [d EXCEPT !.services =
               {IF r.id = o.id
                  THEN [r EXCEPT !.status = "unknown", !.reason = "gap", !.change = o.at]
                  ELSE r : r \in services}]
  BY <1>0, <1>8, WrittenByKind DEF Result, d
<1>9. ASSUME o.kind \in {"meta", "prune", "remove"}
      PROVE  /\ w = [services |-> w.services, events |-> w.events, meta |-> w.meta]
             /\ w.services \subseteq services
  <2>1. CASE o.kind = "meta"
    <3>1. w = [d EXCEPT !.meta = o.at]
      BY <1>0, <2>1, WrittenByKind DEF Result, d
    <3> QED BY <1>1, <3>1
  <2>2. CASE o.kind = "prune"
    <3>1. w = [d EXCEPT !.events = {e \in events : e.at >= o.at}]
      BY <1>0, <2>2, WrittenByKind DEF Result, d
    <3> QED BY <1>1, <3>1
  <2>3. CASE o.kind = "remove"
    <3> DEFINE E == {e \in d.events : \A r \in d.services : r.key = o.key => r.id # e.svc}
    <3>1. w = [d EXCEPT !.services = {r \in d.services : r.key # o.key}, !.events = E]
      BY <1>0, <2>3, WrittenByKind DEF Result, d
    <3> HIDE DEF E
    <3> QED BY <1>0, <1>1, <3>1
  <2> QED BY <1>9, <2>1, <2>2, <2>3
<1>10. CASE o.kind = "upsert"
  BY <1>4, <1>5, <1>6, <1>10 DEF o, w, d
<1>11. CASE o.kind = "record"
  BY <1>4, <1>7, <1>11 DEF o, w
<1>12. CASE o.kind = "mark"
  BY <1>4, <1>8, <1>12 DEF o, w
<1>13. CASE o.kind \in {"meta", "prune", "remove"}
  BY <1>9, <1>13 DEF o, w
<1> QED BY <1>2, <1>3, <1>10, <1>11, <1>12, <1>13

\* A COMMIT adds a key iff it ends a registration whose SELECT found no row, and ends
\* no registration without its row.
LEMMA CommitCreates ==
  ASSUME TxInv, NEW a \in Actors, Commit(a)
  PROVE  /\ \A k : ~HasKey(services, k) /\ HasKey(services', k)
                   <=> op[a].kind = "upsert" /\ op[a].key = k /\ seen[a] = None
         /\ op[a].kind = "upsert" => HasKey(services', op[a].key)
<1> DEFINE o == op[a]
           S == Result(a).services
<1>1. pc[a] = "done" /\ InTransaction(a)
  BY DEF Commit, InTransaction
<1>2. o \in OpsOf(a) /\ o.kind # "list" /\ WorkIsKept(a) /\ TypeOK
  BY <1>1 DEF TxInv, WorkInv, OperationsAreKnown, StoreInv
<1>3. /\ seen[a] = Found(a, Committed)
      /\ \/ services' = services /\ NothingToDo(a, seen[a])
         \/ services' = S
  <2>1. services' = draft[ConnOf(a)].services
    BY DEF Commit
  <2>2. [Result(a) EXCEPT !.events = Inserted(a, events)].services = Result(a).services
    <3>1. \A w, log : w = [services |-> w.services, events |-> w.events, meta |-> w.meta] =>
                       [w EXCEPT !.events = log].services = w.services
      OBVIOUS
    <3>2. Result(a) = [services |-> Result(a).services, events |-> Result(a).events,
                       meta |-> Result(a).meta]
      BY <1>2, RowsByKind
    <3> QED BY <3>1, <3>2, Zenon
  <2>3. Committed.services = services
    BY DEF Committed
  <2> QED BY <1>1, <1>2, <2>1, <2>2, <2>3 DEF WorkIsKept
<1>4. Committed \in Draft /\ Committed.services = services
  BY <1>2, CommittedIsADraft DEF Committed
<1>5. CASE o.kind = "upsert"
  <2>1. seen[a] = IF HasKey(services, o.key) THEN "row" ELSE None
    BY <1>3, <1>4, <1>5 DEF Found, HasKey
  <2>2. services' = S
    BY <1>3, <1>5 DEF NothingToDo
  <2>3. CASE seen[a] = None
    <3>1. ~HasKey(services, o.key)
      BY <2>1, <2>3, NoneIsNobody
    <3>2. S = services \cup {NewRow(o, Committed)}
      BY <1>2, <1>5, <2>3, RowsByKind
    <3>3. NewRow(o, Committed).key = o.key
      BY DEF NewRow
    <3> HIDE DEF S
    <3> QED BY <1>5, <2>2, <2>3, <3>1, <3>2, <3>3 DEF HasKey
  <2>4. CASE seen[a] # None
    <3> DEFINE New(r) == IF r.key = o.key THEN Renewed(r, o.info, o.source, o.at) ELSE r
    <3>1. HasKey(services, o.key)
      BY <2>1, <2>4
    <3>2. S = {New(r) : r \in services}
      BY <1>2, <1>5, <2>4, RowsByKind
    <3>3. \A r \in services : New(r).key = r.key
      BY <1>2 DEF Renewed, TypeOK, Row
    <3>4. \A k : HasKey(services', k) <=> HasKey(services, k)
      <4> HIDE DEF S, New
      <4> QED BY <2>2, <3>2, <3>3 DEF HasKey
    <3> QED BY <2>4, <3>1, <3>4
  <2> QED BY <2>3, <2>4
<1>6. CASE o.kind # "upsert"
  <2>1. \A k : HasKey(S, k) => HasKey(services, k)
    <3>1. CASE o.kind = "record"
      <4> DEFINE New(r) == IF r.id = o.id
                             THEN Checked(r, o.status, o.at, ReasonOf(o.status)) ELSE r
      <4>1. S = {New(r) : r \in services}
        BY <1>2, <3>1, RowsByKind
      <4>2. \A r \in services : New(r).key = r.key
        BY <1>2 DEF Checked, TypeOK, Row
      <4> HIDE DEF S, New
      <4> QED BY <4>1, <4>2 DEF HasKey
    <3>2. CASE o.kind = "mark"
      <4> DEFINE New(r) == IF r.id = o.id
                             THEN [r EXCEPT !.status = "unknown", !.reason = "gap",
                                            !.change = o.at]
                             ELSE r
      <4>1. S = {New(r) : r \in services}
        BY <1>2, <3>2, RowsByKind
      <4>2. \A r \in services : New(r).key = r.key
        BY <1>2 DEF TypeOK, Row
      <4> HIDE DEF S, New
      <4> QED BY <4>1, <4>2 DEF HasKey
    <3>3. CASE o.kind \in {"meta", "prune", "remove"}
      <4>1. S \subseteq services
        BY <1>2, <3>3, RowsByKind
      <4> QED BY <4>1 DEF HasKey
    <3>4. o.kind \in {"record", "mark", "meta", "upsert", "list", "prune", "remove"}
      <4> HIDE DEF o
      <4> QED BY <1>2, OperationFields
    <3> QED BY <1>2, <1>6, <3>1, <3>2, <3>3, <3>4
  <2>2. \A k : HasKey(services', k) => HasKey(services, k)
    <3> HIDE DEF S, o
    <3> QED BY <1>3, <2>1 DEF HasKey
  <2> QED BY <1>6, <2>2
<1> QED BY <1>5, <1>6

\* Of any number of registrations of one service by two threads, beside removals by
\* another process, failing statements and commits and crashes, one is told that it
\* created the row, and it is told so iff the row appears.
THEOREM OneIsToldCreated == Spec => CreatedIsToldOnce
<1> DEFINE Created ==
             \A k \in Keys :
               (\A r \in services : r.key # k) /\ (\E r \in services' : r.key = k)
                 <=> \E a \in Actors : /\ op[a].kind = "upsert" /\ op[a].key = k
                                      /\ seen[a] = None
                                      /\ Commit(a)
           Present == \A a \in Actors : op[a].kind = "upsert" /\ Commit(a) =>
                        \E r \in services' : r.key = op[a].key
<1>1. ASSUME TxInv, [Next]_vars
      PROVE  Created /\ Present
  <2>1. \A a \in Actors : Commit(a) =>
          /\ \A k : ~HasKey(services, k) /\ HasKey(services', k)
                    <=> op[a].kind = "upsert" /\ op[a].key = k /\ seen[a] = None
          /\ op[a].kind = "upsert" => HasKey(services', op[a].key)
    BY <1>1, CommitCreates
  <2>2. services' = services \/ \E a \in Actors : Commit(a)
    BY <1>1 DEF Next, Step, Call, TakeLock, List, Begin, BeginFails, Select, Write, LogChange,
                StatementFails, CommitFails, Crash, vars, storeVars
  <2>3. \A k : ~HasKey(services, k) /\ HasKey(services', k)
               <=> \E a \in Actors : /\ op[a].kind = "upsert" /\ op[a].key = k
                                    /\ seen[a] = None
                                    /\ Commit(a)
    <3> HIDE DEF Commit
    <3> QED BY <2>1, <2>2
  <2>4. Present
    BY <2>1 DEF HasKey
  <2> QED BY <2>3, <2>4 DEF HasKey
<1>2. TxInv /\ [Next]_vars => [Created /\ Present]_vars
  <2> HIDE DEF Created, Present
  <2> QED BY <1>1
<1> QED BY <1>2, TxInvariant, PTL DEF Spec, CreatedIsToldOnce
=============================================================================
