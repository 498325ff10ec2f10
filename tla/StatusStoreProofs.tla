------------------------- MODULE StatusStoreProofs -------------------------
(***************************************************************************)
(* The invariants of StatusStore hold for any set of services, any clock   *)
(* and any number of rows and events, in every order of the operations.    *)
(***************************************************************************)
EXTENDS StatusStore, WellFoundedInduction, TLAPS

\* Ids are primary keys in both tables although a freed id is handed out again,
\* and the SELECT before the INSERT keeps (name, host) unique.
Keyed ==
  /\ \A r, s \in services : r.id = s.id \/ r.key = s.key => r = s
  /\ \A d, e \in events : d.id = e.id => d = e

\* Typing, keys, ownership and coherence of the rows, and the agreement of the
\* rows with their log: none is inductive without the ones before it.
StoreInv ==
  /\ TypeOK
  /\ Keyed
  /\ HistoryHasItsService
  /\ RowIsCoherent
  /\ StateIsLogged
-----------------------------------------------------------------------------
\* A non-empty set of naturals below a bound has a largest member.
LEMMA BoundedSetHasMaximum ==
  ASSUME NEW S, NEW b \in Nat, S \subseteq 0..b, S # {}
  PROVE  \E m \in S : \A n \in S : n <= m
<1> DEFINE D == {b - n : n \in S}
<1>1. D \subseteq Nat /\ D # {}
  <2>1. \A n \in S : n \in Nat /\ n <= b /\ b - n \in Nat
    OBVIOUS
  <2>2. PICK n \in S : TRUE
    OBVIOUS
  <2>3. b - n \in D
    BY <2>2
  <2>4. \A y \in D : y \in Nat
    BY <2>1
  <2> QED BY <2>3, <2>4
<1>2. PICK x \in D : \A y \in D : <<y, x>> \notin OpToRel(<, Nat)
  <2> HIDE DEF D
  <2> QED BY <1>1, WFMin, NatLessThanWellFounded
<1>3. \A y \in D : x <= y
  <2> HIDE DEF D
  <2> SUFFICES ASSUME NEW y \in D
               PROVE  x <= y
    OBVIOUS
  <2>1. x \in Nat /\ y \in Nat
    BY <1>1
  <2>2. ~(y < x)
    BY <1>2, <2>1, Zenon DEF OpToRel
  <2> QED BY <2>1, <2>2
<1>4. PICK m \in S : x = b - m
  OBVIOUS
<1>5. ASSUME NEW n \in S
      PROVE  n <= m
  <2>1. b - n \in D
    OBVIOUS
  <2>2. b - m <= b - n
    BY <1>3, <1>4, <2>1
  <2>3. m \in Int /\ n \in Int
    OBVIOUS
  <2> QED BY <2>2, <2>3
<1> QED BY <1>5

\* The next rowid is larger than every id in the table.
LEMMA NextIdIsFresh ==
  ASSUME NEW T, NEW b \in Nat, \A r \in T : r.id \in 1..b
  PROVE  /\ NextId(T) \in Nat \ {0}
         /\ \A r \in T : r.id < NextId(T)
<1>1. CASE T = {}
  BY <1>1 DEF NextId
<1>2. CASE T # {}
  <2>1. Ids(T) \subseteq 0..b /\ Ids(T) # {}
    BY <1>2 DEF Ids
  <2>2. PICK m \in Ids(T) : \A n \in Ids(T) : n <= m
    BY <2>1, BoundedSetHasMaximum
  <2>3. LargestId(T) \in Ids(T) /\ \A n \in Ids(T) : n <= LargestId(T)
    BY <2>2 DEF LargestId
  <2>4. LargestId(T) \in 0..b
    BY <2>1, <2>3
  <2>5. NextId(T) = LargestId(T) + 1
    BY <1>2 DEF NextId
  <2>6. \A r \in T : r.id \in Nat /\ r.id <= LargestId(T)
    BY <2>3 DEF Ids
  <2> QED BY <2>4, <2>5, <2>6
<1> QED BY <1>1, <1>2

\* The same for the two tables.
LEMMA FreshIds ==
  ASSUME TypeOK
  PROVE  /\ NextId(services) \in Nat \ {0}
         /\ \A r \in services : r.id < NextId(services)
         /\ NextId(events) \in Nat \ {0}
         /\ \A e \in events : e.id < NextId(events)
<1>1. \A r \in services : r.id \in 1..MaxServiceId
  BY DEF TypeOK, Row
<1>2. \A e \in events : e.id \in 1..MaxEventId
  BY DEF TypeOK, Event
<1>3. MaxServiceId \in Nat /\ MaxEventId \in Nat
  BY IdsAreBounded
<1> QED BY <1>1, <1>2, <1>3, NextIdIsFresh
-----------------------------------------------------------------------------
\* What the two operations that change a status have in common: the rows keep
\* their ids, and a row changes status and change time iff Logged has an event.
RowsFollow(id, to, at) ==
  /\ \A s \in services' : \E r \in services :
       /\ s.id = r.id
       /\ IF r.id = id /\ r.status # to
            THEN s.status = to /\ s.change = at
            ELSE s.status = r.status /\ s.change = r.change
  /\ \A r \in services : \E s \in services' : s.id = r.id

LEMMA LoggedChange ==
  ASSUME StoreInv, NEW id, NEW to, NEW at, NEW reason,
         events' = events \cup Logged(id, to, at, reason),
         RowsFollow(id, to, at)
  PROVE  /\ HistoryHasItsService'
         /\ StateIsLogged'
         /\ \A d, e \in events' : d.id = e.id => d = e
<1> USE DEF StoreInv
<1>1. \A e \in Logged(id, to, at, reason) :
        /\ e.id = NextId(events) /\ e.svc = id /\ e.at = at /\ e.to = to
        /\ \E r \in services : r.id = id /\ r.status # to
  BY DEF Logged
<1>2. NextId(events) \in Nat /\ \A e \in events : e.id \in Nat /\ e.id < NextId(events)
  <2>1. \A e \in events : e.id \in Nat
    BY IdsAreBounded DEF TypeOK, Event
  <2> QED BY <2>1, FreshIds
<1>3. HistoryHasItsService'
  BY <1>1 DEF HistoryHasItsService, RowsFollow
<1>4. \A d, e \in events' : d.id = e.id => d = e
  <2>1. \A d, e \in Logged(id, to, at, reason) : d = e
    BY DEF Logged, Keyed
  <2> QED BY <1>1, <1>2, <2>1 DEF Keyed
<1>5. StateIsLogged'
  <2> SUFFICES ASSUME NEW s \in services'
               PROVE  RowIsLogged(s)'
    BY DEF StateIsLogged
  <2>1. PICK r \in services :
          /\ s.id = r.id
          /\ IF r.id = id /\ r.status # to
               THEN s.status = to /\ s.change = at
               ELSE s.status = r.status /\ s.change = r.change
    BY DEF RowsFollow
  <2>2. CASE r.id = id /\ r.status # to
    <3>1. PICK e \in Logged(id, to, at, reason) : TRUE
      BY <2>2 DEF Logged
    <3>2. e \in EventsOf(s)' /\ e.at = s.change /\ e.to = s.status
      BY <1>1, <2>1, <2>2, <3>1 DEF EventsOf
    <3>3. \A d \in EventsOf(s)' : d.id <= e.id
      BY <1>1, <1>2, <3>1 DEF EventsOf
    <3> QED BY <3>2, <3>3 DEF RowIsLogged
  <2>3. CASE ~(r.id = id /\ r.status # to)
    <3>1. \A e \in Logged(id, to, at, reason) : e.svc # r.id
      BY <1>1, <2>3 DEF Keyed
    <3>2. EventsOf(s)' = EventsOf(r)
      BY <2>1, <3>1 DEF EventsOf
    <3>3. s.status = r.status /\ s.change = r.change
      BY <2>1, <2>3
    <3> QED BY <3>2, <3>3 DEF StateIsLogged, RowIsLogged
  <2> QED BY <2>2, <2>3
<1> QED BY <1>3, <1>4, <1>5
\* An event that fits below the bound is an event of the right type.
LEMMA LoggedIsTyped ==
  ASSUME StoreInv, NEW id, NEW to \in Statuses, NEW at \in Time,
         NEW reason \in Reasons \cup {None},
         events' = events \cup Logged(id, to, at, reason), HasRoom
  PROVE  Logged(id, to, at, reason) \subseteq Event
<1> USE DEF StoreInv
<1> SUFFICES ASSUME NEW r \in services, r.id = id, r.status # to
             PROVE  [id |-> NextId(events), svc |-> id, at |-> at, from |-> r.status,
                     to |-> to, reason |-> reason] \in Event
  BY DEF Logged
<1> DEFINE e == [id |-> NextId(events), svc |-> id, at |-> at, from |-> r.status,
                 to |-> to, reason |-> reason]
<1>1. e.id \in 1..MaxEventId
  <2>1. e \in Logged(id, to, at, reason) /\ e.id = NextId(events)
    BY DEF Logged
  <2>2. e.id <= MaxEventId
    BY <2>1 DEF HasRoom
  <2> QED BY <2>1, <2>2, FreshIds, IdsAreBounded
<1> QED BY <1>1 DEF TypeOK, Row, Event
-----------------------------------------------------------------------------
LEMMA InsertKeepsInv ==
  ASSUME StoreInv, NEW key \in Keys, NEW info \in Infos, NEW source \in Sources,
         NEW now \in Time, Insert(key, info, source, now)
  PROVE  StoreInv'
<1> DEFINE new == [id |-> NextId(services), key |-> key, info |-> info, source |-> source,
                   first |-> now, last |-> now, count |-> 1, status |-> "unknown",
                   checked |-> None, reason |-> None, change |-> None]
<1> USE DEF StoreInv
<1>1. services' = services \cup {new} /\ events' = events /\ meta' = meta
  BY DEF Insert
<1>2. new.id \in 1..MaxServiceId /\ \A r \in services : r.id \in Nat /\ r.id < new.id
  <2>1. \A r \in services : r.id \in Nat
    BY IdsAreBounded DEF TypeOK, Row
  <2> QED BY <2>1, FreshIds, IdsAreBounded DEF Insert
<1>3. TypeOK'
  <2>1. new \in Row
    BY <1>2, CountIsBounded DEF Row, Statuses
  <2> QED BY <1>1, <2>1 DEF TypeOK
<1>4. Keyed'
  BY <1>1, <1>2 DEF Keyed, Insert
<1>5. HistoryHasItsService'
  BY <1>1 DEF HistoryHasItsService
<1>6. RowIsCoherent'
  BY <1>1 DEF RowIsCoherent
<1>7. StateIsLogged'
  <2> SUFFICES ASSUME NEW s \in services'
               PROVE  RowIsLogged(s)'
    BY DEF StateIsLogged
  <2>1. CASE s \in services
    BY <1>1, <2>1 DEF StateIsLogged, RowIsLogged, EventsOf
  <2>2. CASE s = new
    <3>1. \A e \in events : e.svc # s.id
      BY <1>2, <2>2 DEF HistoryHasItsService
    <3> QED BY <1>1, <3>1 DEF RowIsLogged, EventsOf
  <2> QED BY <1>1, <2>1, <2>2
<1> QED BY <1>3, <1>4, <1>5, <1>6, <1>7

LEMMA UpdateKeepsInv ==
  ASSUME StoreInv, NEW key \in Keys, NEW info \in Infos, NEW source \in Sources,
         NEW now \in Time, Update(key, info, source, now)
  PROVE  StoreInv'
<1> DEFINE New(r) == IF r.key = key THEN Renewed(r, info, source, now) ELSE r
<1> USE DEF StoreInv
<1>1. services' = {New(r) : r \in services} /\ events' = events /\ meta' = meta
  BY DEF Update
<1>2. \A r \in services :
        /\ New(r) \in Row /\ New(r).id = r.id /\ New(r).key = r.key
        /\ New(r).status = r.status /\ New(r).checked = r.checked
        /\ New(r).reason = r.reason /\ New(r).change = r.change
  <2> SUFFICES ASSUME NEW r \in services
               PROVE  /\ New(r) \in Row /\ New(r).id = r.id /\ New(r).key = r.key
                      /\ New(r).status = r.status /\ New(r).checked = r.checked
                      /\ New(r).reason = r.reason /\ New(r).change = r.change
    OBVIOUS
  <2> DEFINE more == IF r.count < MaxCount THEN r.count + 1 ELSE r.count
  <2>1. more \in 1..MaxCount
    BY CountIsBounded DEF TypeOK, Row
  <2>2. Renewed(r, info, source, now) =
          [r EXCEPT !.info = info, !.source = source, !.last = now, !.count = more]
    BY DEF Renewed
  <2> HIDE DEF more
  <2> QED BY <2>1, <2>2 DEF TypeOK, Row
<1> HIDE DEF New
<1>3. TypeOK'
  BY <1>1, <1>2 DEF TypeOK
<1>4. Keyed'
  BY <1>1, <1>2 DEF Keyed
<1>5. HistoryHasItsService'
  BY <1>1, <1>2 DEF HistoryHasItsService
<1>6. RowIsCoherent'
  BY <1>1, <1>2 DEF RowIsCoherent
<1>7. StateIsLogged'
  <2> SUFFICES ASSUME NEW s \in services'
               PROVE  RowIsLogged(s)'
    BY DEF StateIsLogged
  <2>1. PICK r \in services : s.id = r.id /\ s.status = r.status /\ s.change = r.change
    BY <1>1, <1>2
  <2> QED BY <1>1, <2>1 DEF StateIsLogged, RowIsLogged, EventsOf
<1> QED BY <1>3, <1>4, <1>5, <1>6, <1>7

LEMMA RemoveKeepsInv ==
  ASSUME StoreInv, NEW key \in Keys, Remove(key)
  PROVE  StoreInv'
<1> USE DEF StoreInv
<1>1. services' = {r \in services : r.key # key} /\ meta' = meta
  BY DEF Remove
<1>2. events' = {e \in events : \A r \in services : r.key = key => r.id # e.svc}
  BY DEF Remove
<1>3. TypeOK'
  BY <1>1, <1>2 DEF TypeOK
<1>4. Keyed'
  BY <1>1, <1>2 DEF Keyed
<1>5. HistoryHasItsService'
  BY <1>1, <1>2 DEF HistoryHasItsService
<1>6. RowIsCoherent'
  BY <1>1 DEF RowIsCoherent
<1>7. StateIsLogged'
  <2> SUFFICES ASSUME NEW r \in services'
               PROVE  RowIsLogged(r)'
    BY DEF StateIsLogged
  <2>1. EventsOf(r)' = EventsOf(r)
    BY <1>1, <1>2 DEF EventsOf, Keyed
  <2> QED BY <1>1, <2>1 DEF StateIsLogged, RowIsLogged
<1> QED BY <1>3, <1>4, <1>5, <1>6, <1>7

LEMMA RecordCheckKeepsInv ==
  ASSUME StoreInv, NEW id, NEW status \in {"up", "down"}, NEW at \in Time,
         RecordCheck(id, status, at, ReasonOf(status))
  PROVE  StoreInv'
<1> DEFINE why == ReasonOf(status)
           New(r) == IF r.id = id THEN Checked(r, status, at, why) ELSE r
<1> USE DEF StoreInv
<1>1. /\ services' = {New(r) : r \in services} /\ meta' = meta
      /\ events' = events \cup Logged(id, status, at, why)
  BY DEF RecordCheck
<1>2. why \in Reasons \cup {None}
  BY DEF ReasonOf, Reasons
<1>3. \A r \in services :
        /\ New(r) \in Row /\ New(r).id = r.id /\ New(r).key = r.key
        /\ r.id = id => /\ New(r).status = status /\ New(r).checked = at
                        /\ New(r).reason = why
                        /\ New(r).change = IF r.status # status THEN at ELSE r.change
        /\ r.id # id => New(r) = r
  BY <1>2 DEF TypeOK, Row, Checked, Statuses
<1> HIDE DEF New
<1>4. HistoryHasItsService' /\ StateIsLogged'
        /\ \A d, e \in events' : d.id = e.id => d = e
  <2>1. RowsFollow(id, status, at)
    BY <1>1, <1>3 DEF RowsFollow
  <2> HIDE DEF StoreInv, why
  <2> QED BY <1>1, <2>1, LoggedChange
<1>5. TypeOK'
  <2>1. Logged(id, status, at, why) \subseteq Event
    <3> HIDE DEF StoreInv, why
    <3>1. status \in Statuses /\ HasRoom
      BY DEF Statuses, RecordCheck
    <3> QED BY <1>1, <1>2, <3>1, LoggedIsTyped
  <2> QED BY <1>1, <1>3, <2>1 DEF TypeOK
<1>6. Keyed'
  BY <1>1, <1>3, <1>4 DEF Keyed
<1>7. RowIsCoherent'
  <2> SUFFICES ASSUME NEW r \in services
               PROVE  LET s == New(r)
                      IN  /\ s.change = None <=> s.checked = None
                          /\ s.status = "unknown" =>
                                s.reason = (IF s.change = None THEN None ELSE "gap")
                          /\ s.status # "unknown" =>
                                s.change # None /\ s.reason = ReasonOf(s.status)
    BY <1>1 DEF RowIsCoherent
  <2>1. at # None
    BY TimeIsBounded, NoneIsNoValue DEF Time
  <2>2. CASE r.id = id
    BY <1>3, <2>1, <2>2 DEF RowIsCoherent
  <2>3. CASE r.id # id
    BY <1>3, <2>3 DEF RowIsCoherent
  <2> QED BY <2>2, <2>3
<1> QED BY <1>4, <1>5, <1>6, <1>7

LEMMA MarkUnknownKeepsInv ==
  ASSUME StoreInv, NEW id, NEW at \in Time, MarkUnknown(id, at, "gap")
  PROVE  StoreInv'
<1> DEFINE New(r) == IF r.id = id /\ r.status # "unknown"
                       THEN [r EXCEPT !.status = "unknown", !.reason = "gap", !.change = at]
                       ELSE r
<1> USE DEF StoreInv
<1>1. /\ services' = {New(r) : r \in services} /\ meta' = meta
      /\ events' = events \cup Logged(id, "unknown", at, "gap")
  BY DEF MarkUnknown
<1>2. \A r \in services :
        /\ New(r) \in Row /\ New(r).id = r.id /\ New(r).key = r.key
        /\ r.id = id /\ r.status # "unknown" =>
             /\ New(r).status = "unknown" /\ New(r).checked = r.checked
             /\ New(r).reason = "gap" /\ New(r).change = at
        /\ ~(r.id = id /\ r.status # "unknown") => New(r) = r
  BY DEF TypeOK, Row, Statuses, Reasons
<1> HIDE DEF New
<1>3. HistoryHasItsService' /\ StateIsLogged'
        /\ \A d, e \in events' : d.id = e.id => d = e
  <2>1. RowsFollow(id, "unknown", at)
    BY <1>1, <1>2 DEF RowsFollow
  <2> HIDE DEF StoreInv
  <2> QED BY <1>1, <2>1, LoggedChange
<1>4. TypeOK'
  <2>1. Logged(id, "unknown", at, "gap") \subseteq Event
    <3> HIDE DEF StoreInv
    <3>1. "unknown" \in Statuses /\ "gap" \in Reasons \cup {None} /\ HasRoom
      BY DEF Statuses, Reasons, MarkUnknown
    <3> QED BY <1>1, <3>1, LoggedIsTyped
  <2> QED BY <1>1, <1>2, <2>1 DEF TypeOK
<1>5. Keyed'
  BY <1>1, <1>2, <1>3 DEF Keyed
<1>6. RowIsCoherent'
  <2>1. at # None
    BY TimeIsBounded, NoneIsNoValue DEF Time
  <2>2. \A r \in services :
          /\ New(r).change = None <=> New(r).checked = None
          /\ New(r).status = "unknown" =>
                New(r).reason = (IF New(r).change = None THEN None ELSE "gap")
          /\ New(r).status # "unknown" =>
                New(r).change # None /\ New(r).reason = ReasonOf(New(r).status)
    BY <1>2, <2>1 DEF RowIsCoherent
  <2> QED BY <1>1, <2>2 DEF RowIsCoherent
<1> QED BY <1>3, <1>4, <1>5, <1>6

LEMMA PruneEventsKeepsInv ==
  ASSUME StoreInv, NEW cutoff \in Time, PruneEvents(cutoff)
  PROVE  StoreInv'
<1> USE DEF StoreInv
<1>1. services' = services /\ meta' = meta /\ events' = {e \in events : e.at >= cutoff}
  BY DEF PruneEvents
<1>2. TypeOK' /\ Keyed' /\ HistoryHasItsService' /\ RowIsCoherent'
  BY <1>1 DEF TypeOK, Keyed, HistoryHasItsService, RowIsCoherent
<1>3. StateIsLogged'
  <2> SUFFICES ASSUME NEW r \in services
               PROVE  RowIsLogged(r)'
    BY <1>1 DEF StateIsLogged
  <2>1. EventsOf(r)' = {e \in EventsOf(r) : e.at >= cutoff}
    BY <1>1 DEF EventsOf
  <2>2. \A e \in EventsOf(r) : e.at \in Nat
    BY TimeIsBounded DEF EventsOf, TypeOK, Event, Time
  <2>3. CASE \E e \in EventsOf(r) : /\ e.at = r.change /\ e.to = r.status
                                    /\ \A d \in EventsOf(r) : d.id <= e.id
    <3>1. PICK e \in EventsOf(r) : /\ e.at = r.change /\ e.to = r.status
                                   /\ \A d \in EventsOf(r) : d.id <= e.id
      BY <2>3
    <3>2. CASE e.at >= cutoff
      BY <2>1, <3>1, <3>2 DEF RowIsLogged
    <3>3. CASE ~(e.at >= cutoff)
      <4>1. \A d \in EventsOf(r)' : r.change < d.at
        BY <2>1, <2>2, <3>1, <3>3, TimeIsBounded DEF Time
      <4>2. r.change # None
        BY <2>2, <3>1, NoneIsNoValue
      <4> QED BY <4>1, <4>2 DEF RowIsLogged
    <3> QED BY <3>2, <3>3
  <2>4. CASE \A e \in EventsOf(r) : r.change # None /\ r.change < e.at
    BY <2>1, <2>4 DEF RowIsLogged
  <2> QED BY <2>3, <2>4 DEF StateIsLogged, RowIsLogged
<1> QED BY <1>2, <1>3

LEMMA SetMetaKeepsInv ==
  ASSUME StoreInv, NEW at \in Time, SetMeta(at)
  PROVE  StoreInv'
BY DEF StoreInv, SetMeta, TypeOK, Keyed, HistoryHasItsService, RowIsCoherent, StateIsLogged,
       RowIsLogged, EventsOf
-----------------------------------------------------------------------------
LEMMA StoreInvIsInductive ==
  ASSUME StoreInv, [StoreNext]_storeVars
  PROVE  StoreInv'
<1>1. ASSUME NEW key \in Keys, NEW info \in Infos, NEW source \in Sources, NEW now \in Time,
             UpsertRegistration(key, info, source, now)
      PROVE  StoreInv'
  BY <1>1, InsertKeepsInv, UpdateKeepsInv DEF UpsertRegistration
<1>2. ASSUME NEW key \in Keys, Remove(key)
      PROVE  StoreInv'
  BY <1>2, RemoveKeepsInv
<1>3. ASSUME NEW r \in services, NEW status \in {"up", "down"}, NEW at \in Time,
             RecordCheck(r.id, status, at, ReasonOf(status))
      PROVE  StoreInv'
  BY <1>3, RecordCheckKeepsInv
<1>4. ASSUME NEW r \in services, NEW at \in Time, MarkUnknown(r.id, at, "gap")
      PROVE  StoreInv'
  BY <1>4, MarkUnknownKeepsInv
<1>5. ASSUME NEW cutoff \in Time, PruneEvents(cutoff)
      PROVE  StoreInv'
  BY <1>5, PruneEventsKeepsInv
<1>6. ASSUME NEW at \in Time, SetMeta(at)
      PROVE  StoreInv'
  BY <1>6, SetMetaKeepsInv
<1>7. CASE UNCHANGED storeVars
  BY <1>7 DEF storeVars, StoreInv, TypeOK, Keyed, HistoryHasItsService, RowIsCoherent,
              StateIsLogged, RowIsLogged, EventsOf
<1> QED BY <1>1, <1>2, <1>3, <1>4, <1>5, <1>6, <1>7 DEF StoreNext

LEMMA StoreInvInitially == StoreInit => StoreInv
BY DEF StoreInit, StoreInv, TypeOK, Keyed, HistoryHasItsService, RowIsCoherent, StateIsLogged

\* The inductive invariant of the store.
THEOREM StoreInvariant == StoreSpec => []StoreInv
<1>1. StoreInv /\ [StoreNext]_storeVars => StoreInv'
  BY StoreInvIsInductive
<1> QED BY <1>1, StoreInvInitially, PTL DEF StoreSpec

\* Every row and every value is of its column's kind, whatever the operations.
THEOREM StoreIsTyped == StoreSpec => []TypeOK
<1>1. StoreInv => TypeOK
  BY DEF StoreInv
<1> QED BY <1>1, StoreInvariant, PTL

\* No event outlives the row it belongs to.
THEOREM StoreOwnsItsEvents == StoreSpec => []HistoryHasItsService
<1>1. StoreInv => HistoryHasItsService
  BY DEF StoreInv
<1> QED BY <1>1, StoreInvariant, PTL

\* The live status of a service and the newest event of its log agree.
THEOREM StoreLogsItsState == StoreSpec => []StateIsLogged
<1>1. StoreInv => StateIsLogged
  BY DEF StoreInv
<1> QED BY <1>1, StoreInvariant, PTL

\* The columns of a row tell one story after any sequence of operations.
THEOREM StoreRowsAreCoherent == StoreSpec => []RowIsCoherent
<1>1. StoreInv => RowIsCoherent
  BY DEF StoreInv
<1> QED BY <1>1, StoreInvariant, PTL
-----------------------------------------------------------------------------
\* Every operation but the INSERT keeps to the ids that are there.
LEMMA OnlyInsertAddsIds ==
  ASSUME [StoreNext]_storeVars,
         ~\E key \in Keys, info \in Infos, source \in Sources, now \in Time :
            Insert(key, info, source, now)
  PROVE  \A r \in services' : \E s \in services : s.id = r.id
<1>1. ASSUME NEW key \in Keys, NEW info \in Infos, NEW source \in Sources, NEW now \in Time,
             Update(key, info, source, now)
      PROVE  \A r \in services' : \E s \in services : s.id = r.id
  <2>1. \A s \in services : Renewed(s, info, source, now).id = s.id
    BY DEF Renewed
  <2> QED BY <1>1, <2>1 DEF Update
<1>2. ASSUME NEW key \in Keys, Remove(key)
      PROVE  \A r \in services' : \E s \in services : s.id = r.id
  BY <1>2 DEF Remove
<1>3. ASSUME NEW t \in services, NEW status \in {"up", "down"}, NEW at \in Time,
             RecordCheck(t.id, status, at, ReasonOf(status))
      PROVE  \A r \in services' : \E s \in services : s.id = r.id
  <2>1. \A s \in services : Checked(s, status, at, ReasonOf(status)).id = s.id
    BY DEF Checked
  <2> QED BY <1>3, <2>1 DEF RecordCheck
<1>4. ASSUME NEW t \in services, NEW at \in Time, MarkUnknown(t.id, at, "gap")
      PROVE  \A r \in services' : \E s \in services : s.id = r.id
  <2> DEFINE New(s) == IF s.id = t.id /\ s.status # "unknown"
                         THEN [s EXCEPT !.status = "unknown", !.reason = "gap", !.change = at]
                         ELSE s
  <2>1. services' = {New(s) : s \in services}
    BY <1>4 DEF MarkUnknown
  <2>2. \A s \in services : New(s).id = s.id
    OBVIOUS
  <2> HIDE DEF New
  <2> QED BY <2>1, <2>2
<1>5. CASE UNCHANGED services
  BY <1>5
<1> QED BY <1>1, <1>2, <1>3, <1>4, <1>5
        DEF StoreNext, UpsertRegistration, PruneEvents, SetMeta, storeVars

\* A service that appears, also under the id of one that was removed, starts
\* unknown and without a history.
THEOREM FreshRowsHaveNoPast == StoreSpec => FreshRowHasNoPast
<1>1. ASSUME StoreInv, [StoreNext]_storeVars
      PROVE  \A r \in services' :
               (\A s \in services : s.id # r.id) =>
                  /\ r.status = "unknown"
                  /\ \A e \in events' : e.svc # r.id
  <2>1. CASE \E key \in Keys, info \in Infos, source \in Sources, now \in Time :
               Insert(key, info, source, now)
    <3> SUFFICES ASSUME NEW r \in services', \A s \in services : s.id # r.id
                 PROVE  r.status = "unknown" /\ \A e \in events' : e.svc # r.id
      OBVIOUS
    <3>1. r.status = "unknown" /\ events' = events
      BY <2>1 DEF Insert
    <3>2. \A e \in events : e.svc # r.id
      BY <1>1 DEF StoreInv, HistoryHasItsService
    <3> QED BY <3>1, <3>2
  <2>2. CASE ~\E key \in Keys, info \in Infos, source \in Sources, now \in Time :
                Insert(key, info, source, now)
    BY <1>1, <2>2, OnlyInsertAddsIds
  <2> QED BY <2>1, <2>2
<1> QED BY <1>1, StoreInvariant, PTL DEF StoreSpec, FreshRowHasNoPast

\* The events a step writes about row r.
NewOf(r) == {e \in events' \ events : e.svc = r.id}

\* What ChangeIsLoggedOnce says of row r and what becomes of it.
IsLoggedOnce(r, s) ==
  IF r.status = s.status
    THEN NewOf(r) = {}
    ELSE \E e \in NewOf(r) :
           /\ NewOf(r) = {e}
           /\ e.from = r.status /\ e.to = s.status
           /\ e.at = s.change /\ e.reason = s.reason

\* The two operations that may log: the row of the id follows, the others stay.
LEMMA LoggedOnce ==
  ASSUME StoreInv, NEW id, NEW to, NEW at, NEW reason,
         events' = events \cup Logged(id, to, at, reason),
         NEW r \in services, NEW s,
         r.id = id /\ r.status # to => s.status = to /\ s.change = at /\ s.reason = reason,
         ~(r.id = id /\ r.status # to) => s.status = r.status
  PROVE  IsLoggedOnce(r, s)
<1>1. \A e \in events : e.id < NextId(events)
  BY FreshIds DEF StoreInv
<1>2. \A e \in events : e.id \in Int
  BY DEF StoreInv, TypeOK, Event
<1>3. events' \ events = Logged(id, to, at, reason)
  <2>1. \A e \in Logged(id, to, at, reason) : e.id = NextId(events)
    BY DEF Logged
  <2>2. \A e \in Logged(id, to, at, reason) : e \notin events
    BY <1>1, <1>2, <2>1
  <2> QED BY <2>2
<1>4. CASE r.id = id /\ r.status # to
  <2> DEFINE e == [id |-> NextId(events), svc |-> id, at |-> at, from |-> r.status,
                   to |-> to, reason |-> reason]
  <2>1. {t \in services : t.id = id /\ t.status # to} = {r}
    BY <1>4 DEF StoreInv, Keyed
  <2>2. Logged(id, to, at, reason) = {e}
    BY <2>1 DEF Logged
  <2>3. /\ e.svc = r.id /\ e.at = s.change /\ e.reason = s.reason
        /\ e.from = r.status /\ e.to = s.status
    BY <1>4
  <2> HIDE DEF e
  <2>4. NewOf(r) = {e}
    BY <1>3, <2>2, <2>3 DEF NewOf
  <2>5. r.status # s.status
    BY <1>4
  <2> QED BY <2>3, <2>4, <2>5 DEF IsLoggedOnce
<1>5. CASE ~(r.id = id /\ r.status # to)
  <2>1. \A e \in Logged(id, to, at, reason) :
          e.svc = id /\ \E t \in services : t.id = id /\ t.status # to
    BY DEF Logged
  <2>2. \A e \in Logged(id, to, at, reason) : e.svc # r.id
    BY <1>5, <2>1 DEF StoreInv, Keyed
  <2> QED BY <1>3, <1>5, <2>2 DEF IsLoggedOnce, NewOf
<1> QED BY <1>4, <1>5

\* An operation of the store logs what it does to the status of a row, and nothing else.
LEMMA StepsLogOnce ==
  ASSUME StoreInv, [StoreNext]_storeVars, NEW r \in services, NEW s \in services', r.id = s.id
  PROVE  IsLoggedOnce(r, s)
<1>0. \A t \in services : t.id = r.id => t = r
  BY DEF StoreInv, Keyed
<1>1. ASSUME NEW key \in Keys, NEW info \in Infos, NEW source \in Sources, NEW now \in Time,
             Insert(key, info, source, now)
      PROVE  IsLoggedOnce(r, s)
  <2>1. r.id < NextId(services) /\ r.id \in Int
    BY FreshIds DEF StoreInv, TypeOK, Row
  <2>2. s = r
    BY <1>0, <1>1, <2>1 DEF Insert
  <2> QED BY <1>1, <2>2 DEF Insert, IsLoggedOnce, NewOf
<1>2. ASSUME NEW key \in Keys, NEW info \in Infos, NEW source \in Sources, NEW now \in Time,
             Update(key, info, source, now)
      PROVE  IsLoggedOnce(r, s)
  <2>1. \A t \in services :
          LET n == Renewed(t, info, source, now)
          IN  n.id = t.id /\ n.status = t.status
    BY DEF Renewed, StoreInv, TypeOK, Row
  <2>2. s = r \/ s = Renewed(r, info, source, now)
    BY <1>0, <1>2, <2>1 DEF Update
  <2> QED BY <1>2, <2>1, <2>2 DEF Update, IsLoggedOnce, NewOf
<1>3. ASSUME NEW key \in Keys, Remove(key)
      PROVE  IsLoggedOnce(r, s)
  BY <1>0, <1>3 DEF Remove, IsLoggedOnce, NewOf
<1>4. ASSUME NEW t \in services, NEW status \in {"up", "down"}, NEW at \in Time,
             RecordCheck(t.id, status, at, ReasonOf(status))
      PROVE  IsLoggedOnce(r, s)
  <2> DEFINE why == ReasonOf(status)
  <2>1. \A u \in services :
          LET n == Checked(u, status, at, why)
          IN  /\ n.id = u.id /\ n.status = status /\ n.reason = why
              /\ u.status # status => n.change = at
    BY DEF Checked, StoreInv, TypeOK, Row
  <2>2. s = IF r.id = t.id THEN Checked(r, status, at, why) ELSE r
    BY <1>0, <1>4, <2>1 DEF RecordCheck
  <2>3. events' = events \cup Logged(t.id, status, at, why)
    BY <1>4 DEF RecordCheck
  <2> HIDE DEF why
  <2>4. /\ r.id = t.id /\ r.status # status =>
              s.status = status /\ s.change = at /\ s.reason = why
        /\ ~(r.id = t.id /\ r.status # status) => s.status = r.status
    BY <2>1, <2>2
  <2> QED BY <2>3, <2>4, LoggedOnce
<1>5. ASSUME NEW t \in services, NEW at \in Time, MarkUnknown(t.id, at, "gap")
      PROVE  IsLoggedOnce(r, s)
  <2>1. \A u \in services :
          LET n == [u EXCEPT !.status = "unknown", !.reason = "gap", !.change = at]
          IN  /\ n.id = u.id
              /\ n.status = "unknown" /\ n.change = at /\ n.reason = "gap"
    BY DEF StoreInv, TypeOK, Row
  <2>2. s = IF r.id = t.id /\ r.status # "unknown"
              THEN [r EXCEPT !.status = "unknown", !.reason = "gap", !.change = at]
              ELSE r
    <3> DEFINE New(u) == IF u.id = t.id /\ u.status # "unknown"
                           THEN [u EXCEPT !.status = "unknown", !.reason = "gap",
                                          !.change = at]
                           ELSE u
    <3>1. services' = {New(u) : u \in services}
      BY <1>5 DEF MarkUnknown
    <3>2. \A u \in services : New(u).id = u.id
      BY <2>1
    <3>3. s = New(r)
      <4> HIDE DEF New
      <4> QED BY <1>0, <3>1, <3>2
    <3> QED BY <3>3
  <2>3. events' = events \cup Logged(t.id, "unknown", at, "gap")
    BY <1>5 DEF MarkUnknown
  <2>4. /\ r.id = t.id /\ r.status # "unknown" =>
              s.status = "unknown" /\ s.change = at /\ s.reason = "gap"
        /\ ~(r.id = t.id /\ r.status # "unknown") => s.status = r.status
    BY <2>1, <2>2
  <2> QED BY <2>3, <2>4, LoggedOnce
<1>6. CASE services' = services /\ events' \subseteq events
  BY <1>0, <1>6 DEF IsLoggedOnce, NewOf
<1> QED BY <1>1, <1>2, <1>3, <1>4, <1>5, <1>6
        DEF StoreNext, UpsertRegistration, PruneEvents, SetMeta, storeVars

\* A row that keeps its id is the row of the same service.
LEMMA StepsKeepKeys ==
  ASSUME StoreInv, [StoreNext]_storeVars, NEW r \in services, NEW s \in services', r.id = s.id
  PROVE  s.key = r.key
<1>0. \A t \in services : t.id = r.id => t = r
  BY DEF StoreInv, Keyed
<1>1. ASSUME NEW key \in Keys, NEW info \in Infos, NEW source \in Sources, NEW now \in Time,
             Insert(key, info, source, now)
      PROVE  s.key = r.key
  <2>1. r.id < NextId(services) /\ r.id \in Int
    BY FreshIds DEF StoreInv, TypeOK, Row
  <2> QED BY <1>0, <1>1, <2>1 DEF Insert
<1>2. ASSUME NEW key \in Keys, NEW info \in Infos, NEW source \in Sources, NEW now \in Time,
             Update(key, info, source, now)
      PROVE  s.key = r.key
  <2> DEFINE New(t) == IF t.key = key THEN Renewed(t, info, source, now) ELSE t
  <2>1. \A t \in services : New(t).id = t.id /\ New(t).key = t.key
    BY DEF Renewed, StoreInv, TypeOK, Row
  <2>2. \A t \in services : s = New(t) => s.key = r.key
    <3> HIDE DEF New
    <3> QED BY <1>0, <2>1
  <2> QED BY <1>2, <2>2 DEF Update
<1>3. ASSUME NEW t \in services, NEW status \in {"up", "down"}, NEW at \in Time,
             RecordCheck(t.id, status, at, ReasonOf(status))
      PROVE  s.key = r.key
  <2> DEFINE New(u) == IF u.id = t.id THEN Checked(u, status, at, ReasonOf(status)) ELSE u
  <2>1. \A u \in services : New(u).id = u.id /\ New(u).key = u.key
    BY DEF Checked, StoreInv, TypeOK, Row
  <2>2. \A u \in services : s = New(u) => s.key = r.key
    <3> HIDE DEF New
    <3> QED BY <1>0, <2>1
  <2> QED BY <1>3, <2>2 DEF RecordCheck
<1>4. ASSUME NEW t \in services, NEW at \in Time, MarkUnknown(t.id, at, "gap")
      PROVE  s.key = r.key
  <2> DEFINE New(u) == IF u.id = t.id /\ u.status # "unknown"
                         THEN [u EXCEPT !.status = "unknown", !.reason = "gap", !.change = at]
                         ELSE u
  <2>1. \A u \in services : New(u).id = u.id /\ New(u).key = u.key
    BY DEF StoreInv, TypeOK, Row
  <2>2. \A u \in services : s = New(u) => s.key = r.key
    <3> HIDE DEF New
    <3> QED BY <1>0, <2>1
  <2> QED BY <1>4, <2>2 DEF MarkUnknown
<1>5. CASE services' \subseteq services
  BY <1>0, <1>5
<1> QED BY <1>1, <1>2, <1>3, <1>4, <1>5
        DEF StoreNext, UpsertRegistration, Remove, PruneEvents, SetMeta, storeVars

\* Nothing is logged about a service that is not there.
LEMMA LogsOfRows ==
  ASSUME [StoreNext]_storeVars, NEW e \in events' \ events
  PROVE  \E r \in services : r.id = e.svc
<1>1. ASSUME NEW id, NEW to, NEW at, NEW reason, events' = events \cup Logged(id, to, at, reason)
      PROVE  \E r \in services : r.id = e.svc
  <2>1. \A d \in Logged(id, to, at, reason) : \E r \in services : r.id = d.svc
    BY DEF Logged
  <2> QED BY <1>1, <2>1
<1>2. ASSUME NEW t \in services, NEW status \in {"up", "down"}, NEW at \in Time,
             RecordCheck(t.id, status, at, ReasonOf(status))
      PROVE  \E r \in services : r.id = e.svc
  BY <1>1, <1>2 DEF RecordCheck
<1>3. ASSUME NEW t \in services, NEW at \in Time, MarkUnknown(t.id, at, "gap")
      PROVE  \E r \in services : r.id = e.svc
  BY <1>1, <1>3 DEF MarkUnknown
<1>4. CASE ~(events' \subseteq events)
  BY <1>2, <1>3, <1>4
     DEF StoreNext, UpsertRegistration, Insert, Update, Remove, PruneEvents, SetMeta, storeVars
<1> QED BY <1>4

\* A change of status writes one event and no second one, whatever leaves the status
\* alone writes none, and none is written about a service that is not there.
THEOREM ChangesAreLoggedOnce == StoreSpec => ChangeIsLoggedOnce
<1> DEFINE Step ==
      /\ \A e \in events' \ events : \E r \in services : r.id = e.svc
      /\ \A r \in services, s \in services' :
           r.id = s.id =>
             LET new == {e \in events' \ events : e.svc = r.id}
             IN  IF r.status = s.status
                   THEN new = {}
                   ELSE \E e \in new :
                          /\ new = {e}
                          /\ e.from = r.status /\ e.to = s.status
                          /\ e.at = s.change /\ e.reason = s.reason
<1>1. ASSUME StoreInv, [StoreNext]_storeVars
      PROVE  Step
  <2>1. \A r \in services, s \in services' : r.id = s.id => IsLoggedOnce(r, s)
    BY <1>1, StepsLogOnce
  <2> QED BY <1>1, <2>1, LogsOfRows DEF IsLoggedOnce, NewOf
<1>2. StoreInv /\ [StoreNext]_storeVars => [Step]_storeVars
  <2> HIDE DEF Step
  <2> QED BY <1>1
<1> QED BY <1>2, StoreInvariant, PTL DEF StoreSpec, ChangeIsLoggedOnce
=============================================================================
