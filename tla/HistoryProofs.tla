--------------------------- MODULE HistoryProofs ---------------------------
(***************************************************************************)
(* The uptime strip is a faithful reading of the log for any number of     *)
(* days and events and any lengths of days: on a day without a clock       *)
(* change every tick is counted once with its status, incidents are the    *)
(* downs that began in the window, and colours mean what the log says.     *)
(* The invariant says that the segments still to be added join on to each  *)
(* other from the last tick that is counted up to now, that each has the   *)
(* status of the log all along, and that no event lies inside one.         *)
(***************************************************************************)
EXTENDS History, FiniteSetTheorems, SequenceTheorems, WellFoundedInduction, TLAPS

Entry == [at : Nat, to : Statuses]
Moment == [t : Int, local : BOOLEAN]
Piece == [start : Moment, end : Moment, status : Statuses, began : BOOLEAN]

\* What the strip is made from.
InputsOK ==
  /\ midnight \in [1..(Days + 1) -> Nat]
  /\ \A d \in Day : midnight[d] < midnight[d + 1]
  /\ \A d \in Day : ShortestDay <= midnight[d + 1] - midnight[d]
  /\ now \in Nat /\ midnight[Days] <= now /\ now < midnight[Days + 1]
  /\ registered \in Nat /\ registered <= now
  /\ log \in Seq(Entry) /\ IsOrdered(log)
-----------------------------------------------------------------------------
\* A non-empty set of integers in an interval has a largest member.
LEMMA LargestMember ==
  ASSUME NEW S, NEW b \in Nat, S \subseteq 0..b, S # {}
  PROVE  \E m \in S : \A n \in S : n <= m
<1> DEFINE D == {b - n : n \in S}
<1>1. D \subseteq Nat /\ D # {}
  <2>1. \A n \in S : n \in Nat /\ n <= b /\ b - n \in Nat
    OBVIOUS
  <2>2. PICK n \in S : TRUE
    OBVIOUS
  <2>3. b - n \in D
    BY <2>2
  <2>4. \A y \in D : y \in Nat
    BY <2>1
  <2> QED BY <2>3, <2>4
<1>2. PICK x \in D : \A y \in D : <<y, x>> \notin OpToRel(<, Nat)
  <2> HIDE DEF D
  <2> QED BY <1>1, WFMin, NatLessThanWellFounded
<1>3. \A y \in D : x <= y
  <2> HIDE DEF D
  <2> SUFFICES ASSUME NEW y \in D
               PROVE  x <= y
    OBVIOUS
  <2>1. x \in Nat /\ y \in Nat
    BY <1>1
  <2>2. ~(y < x)
    BY <1>2, <2>1, Zenon DEF OpToRel
  <2> QED BY <2>1, <2>2
<1>4. PICK m \in S : x = b - m
  OBVIOUS
<1>5. ASSUME NEW n \in S
      PROVE  n <= m
  <2>1. b - n \in D
    OBVIOUS
  <2>2. b - m <= b - n
    BY <1>3, <1>4, <2>1
  <2>3. m \in Int /\ n \in Int
    OBVIOUS
  <2> QED BY <2>2, <2>3
<1> QED BY <1>5

\* Days follow each other.
LEMMA MidnightsGrow ==
  ASSUME InputsOK, NEW i \in 1..(Days + 1), NEW j \in 1..(Days + 1), i < j
  PROVE  midnight[i] < midnight[j]
<1> DEFINE S == {k \in 0..j : k > i /\ midnight[i] < midnight[k]}
<1>1. S \subseteq 0..j /\ j \in Nat /\ i \in Nat /\ Days \in Nat
  BY DaysAreGiven
<1>2. i \in Day /\ i + 1 \in S
  <2>1. i \in Day /\ i + 1 \in 0..j /\ i + 1 > i
    BY <1>1 DEF Day
  <2> QED BY <2>1 DEF InputsOK
<1>3. PICK k \in S : \A n \in S : n <= k
  <2> HIDE DEF S
  <2> QED BY <1>1, <1>2, LargestMember
<1>4. ASSUME k < j
      PROVE  FALSE
  <2>1. /\ k \in Day /\ k \in 1..(Days + 1) /\ k + 1 \in 1..(Days + 1)
        /\ k + 1 \in 0..j /\ k + 1 > i
    BY <1>1, <1>3, <1>4 DEF Day
  <2>2. /\ midnight[i] < midnight[k] /\ midnight[k] < midnight[k + 1]
        /\ midnight[i] \in Nat /\ midnight[k] \in Nat /\ midnight[k + 1] \in Nat
    BY <1>3, <2>1 DEF InputsOK
  <2>3. k + 1 \in S
    BY <2>1, <2>2
  <2>4. k + 1 <= k /\ k \in Int
    BY <1>3, <2>3
  <2> QED BY <2>4
<1> QED BY <1>3, <1>4

LEMMA DatesAreDays ==
  ASSUME InputsOK, NEW t \in Int, midnight[1] <= t, t < midnight[Days + 1]
  PROVE  /\ DateOf(t) \in Day
         /\ midnight[DateOf(t)] <= t /\ t < midnight[DateOf(t) + 1]
<1> DEFINE S == {k \in 0..Days : k > 0 /\ midnight[k] <= t}
<1>1. Days \in Nat /\ S \subseteq 0..Days /\ 1 \in S
  BY DaysAreGiven
<1>2. PICK d \in S : \A n \in S : n <= d
  <2> HIDE DEF S
  <2> QED BY <1>1, LargestMember
<1>3. d \in Day /\ midnight[d] <= t
  BY <1>1, <1>2 DEF Day
<1>4. t < midnight[d + 1]
  <2>1. CASE d = Days
    BY <2>1
  <2>2. CASE d < Days
    <3>1. d + 1 \in 0..Days /\ d + 1 > 0 /\ d + 1 \notin S /\ d + 1 \in 1..(Days + 1)
      BY <1>1, <1>2, <2>2
    <3>2. midnight[d + 1] \in Nat /\ ~(midnight[d + 1] <= t)
      BY <3>1 DEF InputsOK
    <3> QED BY <3>2
  <2> QED BY <1>1, <1>2, <2>1, <2>2
<1> QED BY <1>3, <1>4 DEF DateOf

\* An instant lies in one day.
LEMMA DaysAreDisjoint ==
  ASSUME InputsOK, NEW t \in Int, NEW d \in Day, NEW e \in Day,
         midnight[d] <= t, t < midnight[d + 1], midnight[e] <= t, t < midnight[e + 1]
  PROVE  d = e
<1>1. Days \in Nat /\ d \in 1..(Days + 1) /\ e \in 1..(Days + 1)
      /\ d + 1 \in 1..(Days + 1) /\ e + 1 \in 1..(Days + 1)
  BY DaysAreGiven DEF Day
<1>2. /\ midnight[d] \in Nat /\ midnight[d + 1] \in Nat
      /\ midnight[e] \in Nat /\ midnight[e + 1] \in Nat
  BY <1>1 DEF InputsOK
<1>3. CASE d < e
  <2>1. d + 1 = e \/ midnight[d + 1] < midnight[e]
    BY <1>1, <1>3, MidnightsGrow
  <2> QED BY <1>2, <2>1
<1>4. CASE e < d
  <2>1. e + 1 = d \/ midnight[e + 1] < midnight[d]
    BY <1>1, <1>4, MidnightsGrow
  <2> QED BY <1>2, <2>1
<1> QED BY <1>1, <1>3, <1>4
-----------------------------------------------------------------------------
LEMMA LogHasEntries ==
  ASSUME InputsOK
  PROVE  /\ DOMAIN log = 1..Len(log) /\ Len(log) \in Nat
         /\ \A i \in 1..Len(log) : log[i].at \in Nat /\ log[i].to \in Statuses
<1>1. log \in Seq(Entry)
  BY DEF InputsOK
<1>2. \A i \in 1..Len(log) : log[i] \in Entry
  BY <1>1, ElementOfSeq
<1> QED BY <1>1, <1>2 DEF Entry

\* The events before s are the first ones of the log.
LEMMA LastBeforeIs ==
  ASSUME InputsOK, NEW s \in Int, NEW n \in 0..Len(log),
         \A i \in 1..Len(log) : i <= n => log[i].at < s,
         \A i \in 1..Len(log) : i > n => log[i].at >= s
  PROVE  LastBefore(s) = n
<1> DEFINE before == {i \in DOMAIN log : log[i].at < s}
<1>1. DOMAIN log = 1..Len(log) /\ Len(log) \in Nat
  BY LogHasEntries
<1>2. \A i \in 1..Len(log) : log[i].at \in Nat
  BY LogHasEntries
<1>3. \A i : i \in before <=> i \in 1..Len(log) /\ i <= n
  BY <1>1, <1>2
<1>4. CASE n = 0
  <2>1. before = {}
    BY <1>1, <1>3, <1>4
  <2> QED BY <1>4, <2>1 DEF LastBefore
<1>5. CASE n > 0
  <2>1. n \in before /\ \A j \in before : j <= n
    BY <1>1, <1>3, <1>5
  <2>2. \A i \in before : (\A j \in before : j <= i) => i = n
    BY <1>1, <1>3, <2>1
  <2>3. (CHOOSE i \in before : \A j \in before : j <= i) = n
    <3> HIDE DEF before
    <3> QED BY <2>1, <2>2
  <2> QED BY <2>1, <2>3 DEF LastBefore
<1> QED BY <1>1, <1>4, <1>5

LEMMA LastBeforeSplits ==
  ASSUME InputsOK, NEW s \in Int
  PROVE  /\ LastBefore(s) \in 0..Len(log)
         /\ \A i \in 1..Len(log) : i <= LastBefore(s) => log[i].at < s
         /\ \A i \in 1..Len(log) : i > LastBefore(s) => log[i].at >= s
<1> DEFINE before == {i \in DOMAIN log : log[i].at < s}
<1>1. DOMAIN log = 1..Len(log) /\ Len(log) \in Nat
  BY LogHasEntries
<1>2. \A i \in 1..Len(log) : log[i].at \in Nat
  BY LogHasEntries
<1>3. \E n \in 0..Len(log) : \A i \in 1..Len(log) : i <= n <=> log[i].at < s
  <2>1. CASE before = {}
    <3>1. \A i \in 1..Len(log) : ~(i <= 0) /\ ~(log[i].at < s)
      BY <1>1, <2>1
    <3> QED BY <1>1, <3>1
  <2>2. CASE before # {}
    <3>1. before \subseteq 0..Len(log)
      BY <1>1
    <3>2. PICK n \in before : \A j \in before : j <= n
      <4> HIDE DEF before
      <4> QED BY <1>1, <2>2, <3>1, LargestMember
    <3>3. n \in 1..Len(log) /\ log[n].at < s
      BY <1>1, <3>2
    <3>4. \A i \in 1..Len(log) : i < n => log[i].at <= log[n].at
      BY <1>1, <3>3 DEF InputsOK, IsOrdered
    <3>5. \A i \in 1..Len(log) : log[i].at < s => i <= n
      BY <1>1, <3>2
    <3>6. \A i \in 1..Len(log) : i <= n => log[i].at < s
      BY <1>1, <1>2, <3>3, <3>4
    <3>7. n \in 0..Len(log)
      BY <1>1, <3>3
    <3> QED BY <3>5, <3>6, <3>7
  <2> QED BY <2>1, <2>2
<1>4. PICK n \in 0..Len(log) : \A i \in 1..Len(log) : i <= n <=> log[i].at < s
  BY <1>3
<1>5. /\ \A i \in 1..Len(log) : i <= n => log[i].at < s
      /\ \A i \in 1..Len(log) : i > n => log[i].at >= s
  BY <1>1, <1>2, <1>4
<1>6. LastBefore(s) = n
  BY <1>4, <1>5, LastBeforeIs
<1> QED BY <1>4, <1>5, <1>6
-----------------------------------------------------------------------------
Cell == [down : Nat, up : Nat, unknown : Nat, incidents : Nat,
         colour : {"nodata", "ok", "minor", "major"}]

\* Adding a span to a cell.
LEMMA PieceIsAdded ==
  ASSUME NEW cell \in Cell, NEW seg \in Piece, NEW span \in Nat
  PROVE  LET new == WithPiece(cell, seg, span)
         IN  /\ new \in Cell
             /\ \A st \in Statuses : new[st] = cell[st] + (IF st = seg.status THEN span ELSE 0)
             /\ new.incidents = cell.incidents
                                  + (IF seg.status = "down" /\ seg.began THEN 1 ELSE 0)
<1> DEFINE new == WithPiece(cell, seg, span)
           count == IF seg.status = "down" /\ seg.began THEN 1 ELSE 0
<1>1. seg.status \in Statuses /\ seg.began \in BOOLEAN
  BY DEF Piece
<1>2. /\ cell.down \in Nat /\ cell.up \in Nat /\ cell.unknown \in Nat
      /\ cell.incidents \in Nat /\ cell.colour \in {"nodata", "ok", "minor", "major"}
  BY DEF Cell
<1>3. CASE seg.status = "down"
  <2>1. new = [down |-> cell.down + span, up |-> cell.up, unknown |-> cell.unknown,
               incidents |-> cell.incidents + count, colour |-> cell.colour]
    BY <1>1, <1>2, <1>3 DEF WithPiece, Begins, Cell
  <2> QED BY <1>1, <1>2, <1>3, <2>1 DEF Cell, Statuses
<1>4. CASE seg.status = "up"
  <2>1. new = [down |-> cell.down, up |-> cell.up + span, unknown |-> cell.unknown,
               incidents |-> cell.incidents, colour |-> cell.colour]
    BY <1>1, <1>2, <1>4 DEF WithPiece, Begins, Cell
  <2> QED BY <1>1, <1>2, <1>4, <2>1 DEF Cell, Statuses
<1>5. CASE seg.status = "unknown"
  <2>1. new = [down |-> cell.down, up |-> cell.up, unknown |-> cell.unknown + span,
               incidents |-> cell.incidents, colour |-> cell.colour]
    BY <1>1, <1>2, <1>5 DEF WithPiece, Begins, Cell
  <2> QED BY <1>1, <1>2, <1>5, <2>1 DEF Cell, Statuses
<1> QED BY <1>1, <1>3, <1>4, <1>5 DEF Statuses
-----------------------------------------------------------------------------
\* The strip begins with its first day or with the registration.
LEMMA FirstIs ==
  ASSUME InputsOK
  PROVE  /\ First \in Moment /\ First.t \in Nat
         /\ midnight[1] \in Nat /\ midnight[1] <= First.t
         /\ registered <= First.t /\ First.t <= now
         /\ First.local => First.t = midnight[1]
         /\ First.t = midnight[1] \/ First = Utc(registered)
<1>1. 1 \in 1..(Days + 1) /\ Days \in Nat /\ Days \in 1..(Days + 1) /\ Days >= 1
  BY DaysAreGiven
<1>2. midnight[1] \in Nat /\ midnight[Days] \in Nat /\ registered \in Nat /\ now \in Nat
  BY <1>1 DEF InputsOK
<1>3. midnight[1] <= midnight[Days]
  <2>1. CASE Days = 1
    BY <1>2, <2>1
  <2>2. CASE Days > 1
    <3>1. midnight[1] < midnight[Days]
      BY <1>1, <2>2, MidnightsGrow
    <3> QED BY <1>2, <3>1
  <2> QED BY <1>1, <2>1, <2>2
<1>4. midnight[1] <= now /\ registered <= now
  BY <1>2, <1>3 DEF InputsOK
<1>5. CASE registered > midnight[1]
  <2>1. First = Utc(registered)
    BY <1>5 DEF First, Later, Midnight, Utc
  <2> QED BY <1>2, <1>4, <1>5, <2>1 DEF Utc, Moment
<1>6. CASE ~(registered > midnight[1])
  <2>1. First = [t |-> midnight[1], local |-> TRUE]
    BY <1>6 DEF First, Later, Midnight, Utc
  <2> QED BY <1>2, <1>4, <1>6, <2>1 DEF Moment
<1> QED BY <1>5, <1>6

\* An event counts from the beginning of the strip on.
LEMMA ClippedIs ==
  ASSUME InputsOK, NEW at \in Nat
  PROVE  /\ Clipped(at) \in Moment /\ Clipped(at).t \in Nat
         /\ Clipped(at).t = (IF at < First.t THEN First.t ELSE at)
         /\ at >= midnight[1] =>
              /\ ~Clipped(at).local
              /\ Clipped(at).t = (IF at < registered THEN registered ELSE at)
<1>1. /\ First \in Moment /\ First.t \in Nat /\ midnight[1] \in Nat
      /\ midnight[1] <= First.t /\ registered <= First.t
      /\ First.t = midnight[1] \/ First = Utc(registered)
  BY FirstIs
<1>2. registered \in Nat
  BY DEF InputsOK
<1>3. CASE First.t > at
  <2>1. Clipped(at) = First
    BY <1>3 DEF Clipped, Later, Utc
  <2>2. ASSUME at >= midnight[1]
        PROVE  First = Utc(registered)
    BY <1>1, <1>3, <2>2
  <2>3. at >= midnight[1] => First.t = registered /\ First.local = FALSE
    BY <2>2 DEF Utc
  <2> QED BY <1>1, <1>2, <1>3, <2>1, <2>3
<1>4. CASE ~(First.t > at)
  <2>1. Clipped(at) = [t |-> at, local |-> FALSE]
    BY <1>4 DEF Clipped, Later, Utc
  <2> QED BY <1>1, <1>2, <1>4, <2>1 DEF Moment
<1> QED BY <1>3, <1>4

\* An instant at which the status is set anew.
IsTurn(t) ==
  \E i \in DOMAIN log :
    /\ log[i].at >= midnight[1]
    /\ t = (IF log[i].at < registered THEN registered ELSE log[i].at)

\* A segment has the status of the log all along and begins at an event if it
\* says so.
SegOK(seg) ==
  /\ seg \in Piece
  /\ First.t <= seg.start.t /\ seg.start.t < seg.end.t /\ seg.end.t <= now
  /\ ~seg.end.local
  /\ seg.start.local => \E d \in Day : seg.start.t = midnight[d]
  /\ \A t \in Int : seg.start.t <= t /\ t < seg.end.t => StatusAt(t) = seg.status
  /\ seg.began <=> IsTurn(seg.start.t)
  /\ \A t \in Int : seg.start.t < t /\ t < seg.end.t => ~IsTurn(t)

\* The first loop has seen the log up to n.
Position(n) ==
  /\ n \in 0..Len(log) /\ LastBefore(midnight[1]) <= n
  /\ open.status = StatusAfter(n)
  /\ n = LastBefore(midnight[1]) => open.start = First /\ ~open.began
  /\ n > LastBefore(midnight[1]) => open.start = Clipped(log[n].at) /\ open.began
  /\ \A i \in 1..Len(log) : i <= n => log[i].at <= open.start.t

Open == [start : Moment, status : Statuses, began : BOOLEAN]

OpenOK == open \in Open /\ First.t <= open.start.t /\ open.start.t <= now

\* No event lies inside the segment that is closed before the next one.
LEMMA SegmentIsSound ==
  ASSUME InputsOK, OpenOK, NEW n, Position(n), NEW e \in Moment, ~e.local,
         open.start.t < e.t, e.t <= now,
         \A i \in 1..Len(log) : i > n => Clipped(log[i].at).t >= e.t
  PROVE  SegOK(Segment(e))
<1> DEFINE seg == Segment(e)
           first == LastBefore(midnight[1])
<1>1. /\ DOMAIN log = 1..Len(log) /\ Len(log) \in Nat
      /\ \A i \in 1..Len(log) : log[i].at \in Nat /\ log[i].to \in Statuses
  BY LogHasEntries
<1>2. /\ First \in Moment /\ First.t \in Nat /\ midnight[1] \in Nat
      /\ midnight[1] <= First.t
      /\ First.local => First.t = midnight[1]
  BY FirstIs
<1>3. /\ open.start \in Moment /\ open.status \in Statuses /\ open.began \in BOOLEAN
      /\ open.start.t \in Int /\ First.t <= open.start.t /\ open.start.t <= now
  BY DEF OpenOK, Open, Moment
<1>4. /\ seg = [start |-> open.start, end |-> e, status |-> open.status, began |-> open.began]
      /\ seg.start = open.start /\ seg.end = e
      /\ seg.status = open.status /\ seg.began = open.began
  BY DEF Segment
<1>5. seg \in Piece
  BY <1>3, <1>4 DEF Piece
<1> HIDE DEF seg
<1>6. /\ n \in 0..Len(log) /\ first \in 0..Len(log) /\ first <= n
      /\ \A i \in 1..Len(log) : i <= first => log[i].at < midnight[1]
      /\ \A i \in 1..Len(log) : i > first => log[i].at >= midnight[1]
  <2>1. midnight[1] \in Int
    BY <1>2
  <2> QED BY <2>1, LastBeforeSplits DEF Position
<1>7. e.t \in Int
  BY DEF Moment
<1>8. \A i \in 1..Len(log) : i > n => log[i].at >= e.t
  <2> SUFFICES ASSUME NEW i \in 1..Len(log), i > n
               PROVE  log[i].at >= e.t
    OBVIOUS
  <2>1. log[i].at \in Nat /\ Clipped(log[i].at).t >= e.t
    BY <1>1
  <2>2. Clipped(log[i].at).t = IF log[i].at < First.t THEN First.t ELSE log[i].at
    BY <2>1, ClippedIs
  <2> QED BY <1>2, <1>3, <1>7, <2>1, <2>2
<1>9. ASSUME NEW t \in Int, open.start.t <= t, t < e.t
      PROVE  StatusAt(t) = open.status
  <2>1. \A i \in 1..Len(log) : i <= n => log[i].at < t + 1
    BY <1>1, <1>3, <1>9 DEF Position
  <2>2. \A i \in 1..Len(log) : i > n => log[i].at >= t + 1
    BY <1>1, <1>7, <1>8, <1>9
  <2>3. LastBefore(t + 1) = n
    <3>1. t + 1 \in Int
      OBVIOUS
    <3> QED BY <3>1, <1>6, <2>1, <2>2, LastBeforeIs
  <2> QED BY <2>3 DEF StatusAt, StatusBefore, Position
<1>10. ASSUME NEW t \in Int, open.start.t < t, t < e.t
       PROVE  ~IsTurn(t)
  <2> SUFFICES ASSUME NEW i \in 1..Len(log), log[i].at >= midnight[1],
                      t = (IF log[i].at < registered THEN registered ELSE log[i].at)
               PROVE  FALSE
    BY <1>1 DEF IsTurn
  <2>1. log[i].at \in Nat /\ Clipped(log[i].at).t = t
    BY <1>1, ClippedIs
  <2>2. t = IF log[i].at < First.t THEN First.t ELSE log[i].at
    BY <2>1, ClippedIs
  <2>3. CASE i <= n
    <3>1. log[i].at <= open.start.t
      BY <2>3 DEF Position
    <3> QED BY <1>2, <1>3, <1>10, <2>1, <2>2, <3>1
  <2>4. CASE i > n
    BY <1>7, <1>10, <2>1, <2>4
  <2> QED BY <1>6, <2>3, <2>4
<1>11. open.began <=> IsTurn(open.start.t)
  <2>1. CASE n > first
    <3>1. n \in 1..Len(log) /\ open.began /\ open.start = Clipped(log[n].at)
      BY <1>6, <2>1 DEF Position
    <3>2. log[n].at \in Nat /\ log[n].at >= midnight[1]
      BY <1>1, <1>6, <2>1, <3>1
    <3>3. open.start.t = IF log[n].at < registered THEN registered ELSE log[n].at
      BY <3>1, <3>2, ClippedIs
    <3> QED BY <1>1, <3>1, <3>2, <3>3 DEF IsTurn
  <2>2. CASE ~(n > first)
    <3>1. ~open.began /\ n = first
      BY <1>6, <2>2 DEF Position
    <3>2. ASSUME NEW i \in 1..Len(log), log[i].at >= midnight[1],
                 open.start.t = (IF log[i].at < registered THEN registered ELSE log[i].at)
          PROVE  FALSE
      <4>1. log[i].at \in Nat /\ Clipped(log[i].at).t = open.start.t
        BY <1>1, <3>2, ClippedIs
      <4>2. i > n
        BY <1>2, <1>6, <3>1, <3>2, <4>1
      <4> QED BY <1>3, <1>7, <4>1, <4>2
    <3> QED BY <1>1, <3>1, <3>2 DEF IsTurn
  <2> QED BY <2>1, <2>2
<1>12. open.start.local => \E d \in Day : open.start.t = midnight[d]
  <2>1. CASE n > first
    <3>1. n \in 1..Len(log) /\ open.start = Clipped(log[n].at)
      BY <1>6, <2>1 DEF Position
    <3>2. log[n].at \in Nat /\ log[n].at >= midnight[1]
      BY <1>1, <1>6, <2>1, <3>1
    <3>3. ~Clipped(log[n].at).local
      BY <3>2, ClippedIs
    <3> QED BY <3>1, <3>3
  <2>2. CASE ~(n > first)
    <3>1. open.start = First /\ 1 \in Day
      BY <1>6, <2>2, DaysAreGiven DEF Position, Day
    <3> QED BY <1>2, <3>1
  <2> QED BY <2>1, <2>2
<1>13. SegOK(seg)
  BY <1>3, <1>4, <1>5, <1>9, <1>10, <1>11, <1>12 DEF SegOK
<1> QED BY <1>13 DEF seg

\* Segments that join on to each other from one instant to another.
Chain(seq, from, to) ==
  /\ seq \in Seq(Piece)
  /\ \A i \in 1..Len(seq) : SegOK(seq[i])
  /\ \A i \in 1..Len(seq) : i < Len(seq) => seq[i].end.t = seq[i + 1].start.t
  /\ seq = <<>> => from = to
  /\ seq # <<>> => seq[1].start.t = from /\ seq[Len(seq)].end.t = to

\* Closing a segment makes the chain longer.
LEMMA ChainGrows ==
  ASSUME OpenOK, Chain(segs, First.t, open.start.t), NEW e \in Moment,
         open.start.t < e.t => SegOK(Segment(e)), open.start.t <= e.t
  PROVE  Chain(Closed(e), First.t, e.t)
<1>1. open.start.t \in Int /\ e.t \in Int
  BY DEF OpenOK, Open, Moment
<1>2. CASE ~(e.t > open.start.t)
  <2>1. Closed(e) = segs /\ e.t = open.start.t
    BY <1>1, <1>2 DEF Closed
  <2> QED BY <2>1
<1>3. CASE e.t > open.start.t
  <2> DEFINE seg == Segment(e)
             new == Append(segs, seg)
             len == Len(segs)
  <2>1. Closed(e) = new /\ SegOK(seg) /\ seg.start.t = open.start.t /\ seg.end.t = e.t
    BY <1>1, <1>3 DEF Closed, Segment
  <2>2. seg \in Piece /\ segs \in Seq(Piece) /\ len \in Nat
    BY <2>1 DEF SegOK, Chain
  <2> HIDE DEF seg
  <2>3. /\ new \in Seq(Piece) /\ new # <<>> /\ Len(new) = len + 1
        /\ \A i \in 1..len : new[i] = segs[i]
        /\ new[len + 1] = seg
    BY <2>2, AppendProperties
  <2>4. segs = <<>> <=> len = 0
    BY <2>2, EmptySeq
  <2> HIDE DEF new, len
  <2>5. \A i \in 1..len : SegOK(segs[i])
    BY DEF Chain, len
  <2>6. ASSUME NEW i \in 1..Len(new)
        PROVE  SegOK(new[i])
    <3>1. CASE i = len + 1
      BY <2>1, <2>3, <3>1
    <3>2. CASE i # len + 1
      <4>1. i \in 1..len
        BY <2>2, <2>3, <3>2
      <4> QED BY <2>3, <2>5, <4>1
    <3> QED BY <3>1, <3>2
  <2>7. ASSUME NEW i \in 1..Len(new), i < Len(new)
        PROVE  new[i].end.t = new[i + 1].start.t
    <3>1. i \in 1..len /\ new[i] = segs[i]
      BY <2>2, <2>3, <2>7
    <3>2. CASE i = len
      <4>1. segs # <<>> /\ segs[len].end.t = open.start.t
        BY <2>2, <2>4, <3>1, <3>2 DEF Chain, len
      <4>2. new[i + 1] = seg
        BY <2>3, <3>2
      <4> QED BY <2>1, <3>1, <3>2, <4>1, <4>2
    <3>3. CASE i < len
      <4>1. segs[i].end.t = segs[i + 1].start.t
        BY <3>1, <3>3 DEF Chain, len
      <4>2. i + 1 \in 1..len
        BY <2>2, <3>1, <3>3
      <4> QED BY <2>3, <3>1, <4>1, <4>2
    <3> QED BY <2>2, <3>1, <3>2, <3>3
  <2>8. new[1].start.t = First.t
    <3>1. CASE segs = <<>>
      <4>1. First.t = open.start.t /\ len = 0
        BY <2>4, <3>1 DEF Chain
      <4> QED BY <2>1, <2>3, <4>1
    <3>2. CASE segs # <<>>
      <4>1. segs[1].start.t = First.t
        BY <3>2 DEF Chain
      <4>2. 1 \in 1..len
        BY <2>2, <2>4, <3>2
      <4> QED BY <2>3, <4>1, <4>2
    <3> QED BY <3>1, <3>2
  <2>9. new[Len(new)].end.t = e.t
    BY <2>1, <2>3
  <2>10. Chain(new, First.t, e.t)
    BY <2>3, <2>6, <2>7, <2>8, <2>9 DEF Chain
  <2> QED BY <2>1, <2>10
<1> QED BY <1>2, <1>3

\* What a cell says when all ticks before an instant are counted.
Counted(to, d, st) == {t \in Watched(d) : t < to /\ StatusAt(t) = st}

Incidents(to, d) == {t \in Watched(d) : t < to /\ StatusAt(t) = "down" /\ IsTurn(t)}

IsExact(cell, to, d) == \A st \in Statuses : cell[st] = Cardinality(Counted(to, d, st))

\* A day of another length that one status filled has the nominal length.
IsWhole(cell, to, d) ==
  /\ midnight[d + 1] - midnight[d] # NominalDay
  /\ midnight[d + 1] <= to /\ to <= now
  /\ First.t <= midnight[d]
  /\ \E st \in Statuses :
       /\ \A t \in Watched(d) : StatusAt(t) = st
       /\ \A s \in Statuses : cell[s] = IF s = st THEN NominalDay ELSE 0

CellOK(cell, to, d) ==
  /\ cell \in Cell
  /\ IsExact(cell, to, d) \/ IsWhole(cell, to, d)
  /\ cell.incidents = Cardinality(Incidents(to, d))

\* What is made from the inputs stays with them.
LEMMA InputsStay ==
  ASSUME UNCHANGED inputs
  PROVE  /\ InputsOK' = InputsOK
         /\ First' = First
         /\ \A at : Clipped(at)' = Clipped(at)
         /\ LastBefore(midnight[1])' = LastBefore(midnight[1])
         /\ \A n : StatusAfter(n)' = StatusAfter(n)
         /\ \A t : StatusAt(t)' = StatusAt(t)
         /\ \A t : IsTurn(t)' = IsTurn(t)
         /\ \A d : Watched(d)' = Watched(d)
         /\ \A t : DateOf(t)' = DateOf(t)
         /\ \A seg : SegOK(seg)' = SegOK(seg)
         /\ \A cell, to, d : CellOK(cell, to, d)' = CellOK(cell, to, d)
<1>1. midnight' = midnight /\ now' = now /\ registered' = registered /\ log' = log
  BY DEF inputs
<1>2. InputsOK' = InputsOK
  BY <1>1 DEF InputsOK, IsOrdered
<1>3. First' = First
  BY <1>1 DEF First, Later, Midnight, Utc
<1>4. \A at : Clipped(at)' = Clipped(at)
  BY <1>3 DEF Clipped, Later, Utc
<1>5. \A s : LastBefore(s)' = LastBefore(s)
  BY <1>1 DEF LastBefore
<1>6. LastBefore(midnight[1])' = LastBefore(midnight[1])
  BY <1>1 DEF LastBefore
<1>7. \A n : StatusAfter(n)' = StatusAfter(n)
  BY <1>1 DEF StatusAfter
<1>8. \A t : StatusAt(t)' = StatusAt(t)
  BY <1>1, <1>5 DEF StatusAt, StatusBefore, StatusAfter
<1>9. \A t : IsTurn(t)' = IsTurn(t)
  BY <1>1 DEF IsTurn
<1>10. \A d : Watched(d)' = Watched(d)
  BY <1>1 DEF Watched
<1>11. \A t : DateOf(t)' = DateOf(t)
  BY <1>1 DEF DateOf
<1>12. \A seg : SegOK(seg)' = SegOK(seg)
  BY <1>1, <1>3, <1>8, <1>9 DEF SegOK
<1>13. ASSUME NEW cell, NEW to, NEW d
       PROVE  CellOK(cell, to, d)' = CellOK(cell, to, d)
  <2>1. \A st : Counted(to, d, st)' = Counted(to, d, st)
    BY <1>8, <1>10 DEF Counted
  <2>2. Incidents(to, d)' = Incidents(to, d)
    BY <1>8, <1>9, <1>10 DEF Incidents
  <2>3. IsExact(cell, to, d)' = IsExact(cell, to, d)
    BY <2>1 DEF IsExact
  <2>4. IsWhole(cell, to, d)' = IsWhole(cell, to, d)
    BY <1>1, <1>3, <1>8, <1>10 DEF IsWhole
  <2> QED BY <2>2, <2>3, <2>4 DEF CellOK
<1> QED BY <1>2, <1>3, <1>4, <1>6, <1>7, <1>8, <1>9, <1>10, <1>11, <1>12, <1>13

\* The first loop: it has seen the log up to some n and has segments for all
\* of the strip before its cursor.
SplitInv ==
  /\ OpenOK
  /\ \E n : Position(n) /\ events = SubSeq(log, n + 1, Len(log))
  /\ Chain(segs, First.t, open.start.t)
  /\ cells = [d \in Day |-> EmptyCell]

\* The events the first loop has still to see.
LEMMA RestIs ==
  ASSUME InputsOK, NEW n \in 0..Len(log), events = SubSeq(log, n + 1, Len(log))
  PROVE  /\ events = <<>> => n = Len(log)
         /\ events # <<>> => /\ n + 1 \in 1..Len(log) /\ Head(events) = log[n + 1]
                             /\ Tail(events) = SubSeq(log, n + 2, Len(log))
<1>1. log \in Seq(Entry) /\ Len(log) \in Nat
  BY LogHasEntries DEF InputsOK
<1>2. CASE n = Len(log)
  <2>1. events = <<>>
    BY <1>1, <1>2, SubSeqEmpty
  <2> QED BY <1>2, <2>1
<1>3. CASE n < Len(log)
  <2>1. n + 1 \in 1..Len(log) /\ Len(log) \in (n + 1)..Len(log)
    BY <1>1, <1>3
  <2>2. Head(events) = log[n + 1] /\ Tail(events) = SubSeq(log, (n + 1) + 1, Len(log))
    BY <1>1, <2>1, HeadTailOfSubSeq
  <2>3. Len(events) = Len(log) - (n + 1) + 1
    <3>1. \A i \in (n + 1)..Len(log) : log[i] \in Entry
      BY <1>1, ElementOfSeq
    <3>2. n + 1 \in Int /\ Len(log) \in Int /\ n + 1 <= Len(log)
      BY <1>1, <1>3
    <3> QED BY <3>1, <3>2, SubSeqProperties
  <2>4. events # <<>>
    <3>1. Len(events) > 0 /\ Len(<<>>) = 0
      BY <1>1, <1>3, <2>3, EmptySeq
    <3> QED BY <3>1
  <2>5. (n + 1) + 1 = n + 2
    OBVIOUS
  <2> QED BY <2>1, <2>2, <2>4, <2>5
<1> QED BY <1>1, <1>2, <1>3

\* Later events are clipped to later instants.
LEMMA ClippedInOrder ==
  ASSUME InputsOK, NEW i \in 1..Len(log), NEW j \in 1..Len(log), i <= j
  PROVE  Clipped(log[i].at).t <= Clipped(log[j].at).t
<1>1. /\ DOMAIN log = 1..Len(log) /\ Len(log) \in Nat
      /\ log[i].at \in Nat /\ log[j].at \in Nat
  BY LogHasEntries
<1>2. log[i].at <= log[j].at
  <2>1. CASE i = j
    BY <1>1, <2>1
  <2>2. CASE i < j
    BY <1>1, <2>2 DEF InputsOK, IsOrdered
  <2> QED BY <1>1, <2>1, <2>2
<1>3. /\ Clipped(log[i].at).t = IF log[i].at < First.t THEN First.t ELSE log[i].at
      /\ Clipped(log[j].at).t = IF log[j].at < First.t THEN First.t ELSE log[j].at
  BY <1>1, ClippedIs
<1>4. First.t \in Nat
  BY FirstIs
<1> QED BY <1>1, <1>2, <1>3, <1>4

\* The cursor does not pass the next event.
LEMMA CursorIsBehind ==
  ASSUME InputsOK, NEW n, Position(n), n + 1 \in 1..Len(log)
  PROVE  /\ open.start.t <= Clipped(log[n + 1].at).t
         /\ n + 1 > LastBefore(midnight[1])
         /\ log[n + 1].at >= midnight[1]
<1>1. /\ Len(log) \in Nat /\ log[n + 1].at \in Nat
  BY LogHasEntries
<1>2. First.t \in Nat /\ midnight[1] \in Nat
  BY FirstIs
<1>3. /\ n \in 0..Len(log) /\ LastBefore(midnight[1]) <= n
      /\ LastBefore(midnight[1]) \in 0..Len(log)
      /\ \A i \in 1..Len(log) : i > LastBefore(midnight[1]) => log[i].at >= midnight[1]
  <2>1. midnight[1] \in Int
    BY <1>2
  <2> QED BY <2>1, LastBeforeSplits DEF Position
<1>4. n + 1 > LastBefore(midnight[1])
  BY <1>1, <1>3
<1>5. Clipped(log[n + 1].at).t = IF log[n + 1].at < First.t THEN First.t ELSE log[n + 1].at
  BY <1>1, ClippedIs
<1>6. CASE n = LastBefore(midnight[1])
  <2>1. open.start = First
    BY <1>6 DEF Position
  <2> QED BY <1>1, <1>2, <1>3, <1>4, <1>5, <2>1
<1>7. CASE n > LastBefore(midnight[1])
  <2>1. n \in 1..Len(log) /\ n <= n + 1
    BY <1>1, <1>3, <1>7
  <2>2. open.start = Clipped(log[n].at)
    BY <1>7 DEF Position
  <2>3. Clipped(log[n].at).t <= Clipped(log[n + 1].at).t
    BY <2>1, ClippedInOrder
  <2> QED BY <1>3, <1>4, <2>2, <2>3
<1> QED BY <1>1, <1>3, <1>4, <1>6, <1>7

LEMMA EventIsSplitAt ==
  ASSUME InputsOK, SplitInv, SplitAtEvent
  PROVE  SplitInv'
<1>1. PICK n : Position(n) /\ events = SubSeq(log, n + 1, Len(log))
  BY DEF SplitInv
<1>2. OpenOK /\ Chain(segs, First.t, open.start.t) /\ cells = [d \in Day |-> EmptyCell]
  BY DEF SplitInv
<1>3. /\ events # <<>> /\ events' = Tail(events) /\ UNCHANGED inputs /\ cells' = cells
  BY DEF SplitAtEvent
<1>4. n \in 0..Len(log) /\ Len(log) \in Nat
  BY <1>1, LogHasEntries DEF Position
<1>5. /\ n + 1 \in 1..Len(log) /\ Head(events) = log[n + 1]
      /\ events' = SubSeq(log, n + 2, Len(log))
  BY <1>1, <1>3, <1>4, RestIs
<1> DEFINE at == Clipped(log[n + 1].at)
           first == LastBefore(midnight[1])
<1>6. /\ at.t < now /\ segs' = Closed(at)
      /\ open' = [start |-> at, status |-> log[n + 1].to, began |-> TRUE]
  BY <1>5 DEF SplitAtEvent
<1>7. /\ open.start.t <= at.t /\ n + 1 > first /\ log[n + 1].at >= midnight[1]
  BY <1>1, <1>5, CursorIsBehind
<1>8. /\ log[n + 1].at \in Nat /\ log[n + 1].to \in Statuses
  BY <1>5, LogHasEntries
<1>9. /\ at \in Moment /\ at.t \in Nat /\ ~at.local
      /\ at.t = IF log[n + 1].at < First.t THEN First.t ELSE log[n + 1].at
  BY <1>7, <1>8, ClippedIs
<1>10. First.t \in Nat /\ First' = First
  BY <1>3, FirstIs, InputsStay
<1>11. open'.start = at /\ open'.status = log[n + 1].to /\ open'.began
  BY <1>6
<1>12. Chain(segs', First.t, at.t)
  <2>1. ASSUME open.start.t < at.t
        PROVE  SegOK(Segment(at))
    <3>1. \A i \in 1..Len(log) : i > n => Clipped(log[i].at).t >= at.t
      <4> SUFFICES ASSUME NEW i \in 1..Len(log), i > n
                   PROVE  Clipped(log[i].at).t >= at.t
        OBVIOUS
      <4>1. n + 1 <= i
        BY <1>4
      <4>2. log[i].at \in Nat
        BY LogHasEntries
      <4>3. Clipped(log[i].at).t \in Nat
        BY <4>2, ClippedIs
      <4>4. Clipped(log[n + 1].at).t <= Clipped(log[i].at).t
        BY <1>5, <4>1, ClippedInOrder
      <4> QED BY <1>9, <4>3, <4>4
    <3>2. at.t <= now
      BY <1>6, <1>9 DEF InputsOK
    <3> HIDE DEF at
    <3> QED BY <1>1, <1>2, <1>9, <2>1, <3>1, <3>2, SegmentIsSound
  <2> HIDE DEF at
  <2> QED BY <1>2, <1>6, <1>7, <1>9, <2>1, ChainGrows
<1>13. Chain(segs, First.t, open.start.t)'
  <2>1. \A seg : SegOK(seg)' = SegOK(seg)
    BY <1>3, InputsStay
  <2> HIDE DEF at
  <2> QED BY <1>10, <1>11, <1>12, <2>1 DEF Chain
<1>14. OpenOK'
  <2>1. open' \in Open
    <3> HIDE DEF at
    <3> QED BY <1>6, <1>8, <1>9 DEF Open
  <2>2. First.t <= at.t /\ at.t <= now /\ now' = now
    BY <1>3, <1>6, <1>8, <1>9, <1>10 DEF InputsOK, inputs
  <2> HIDE DEF at
  <2> QED BY <1>10, <1>11, <2>1, <2>2 DEF OpenOK
<1>15. Position(n + 1)'
  <2>1. /\ log' = log /\ first' = first /\ \A a : Clipped(a)' = Clipped(a)
        /\ \A k : StatusAfter(k)' = StatusAfter(k)
    BY <1>3, InputsStay DEF inputs
  <2>2. first \in 0..Len(log)
    <3>1. midnight[1] \in Int
      BY FirstIs
    <3> QED BY <3>1, LastBeforeSplits
  <2>3. n + 1 \in 0..Len(log) /\ first <= n + 1 /\ n + 1 # first
    BY <1>4, <1>5, <1>7, <2>2
  <2>4. StatusAfter(n + 1) = log[n + 1].to
    BY <1>4 DEF StatusAfter
  <2>5. \A i \in 1..Len(log) : i <= n + 1 => log[i].at <= at.t
    <3> SUFFICES ASSUME NEW i \in 1..Len(log), i <= n + 1
                 PROVE  log[i].at <= at.t
      OBVIOUS
    <3>1. log[i].at \in Nat
      BY LogHasEntries
    <3>2. log[i].at <= Clipped(log[i].at).t /\ Clipped(log[i].at).t \in Nat
      BY <1>10, <3>1, ClippedIs
    <3>3. Clipped(log[i].at).t <= Clipped(log[n + 1].at).t
      BY <1>5, ClippedInOrder
    <3> QED BY <1>9, <3>1, <3>2, <3>3
  <2> HIDE DEF at
  <2>6. open'.start = Clipped(log[n + 1].at)
    BY <1>11 DEF at
  <2> HIDE DEF first
  <2>7. LastBefore(midnight[1])' = first
    BY <2>1 DEF first
  <2> QED BY <1>11, <2>1, <2>3, <2>4, <2>5, <2>6, <2>7 DEF Position
<1>16. events' = SubSeq(log', (n + 1) + 1, Len(log'))
  <2>1. log' = log /\ (n + 1) + 1 = n + 2
    BY <1>3, <1>4 DEF inputs
  <2> QED BY <1>5, <2>1
<1> HIDE DEF at, first
<1> QED BY <1>2, <1>3, <1>13, <1>14, <1>15, <1>16 DEF SplitInv
-----------------------------------------------------------------------------
\* The ticks of a day that are watched.
LEMMA WatchedIs ==
  ASSUME InputsOK, NEW d \in Day
  PROVE  /\ IsFiniteSet(Watched(d))
         /\ \A t : t \in Watched(d) <=>
              /\ t \in Int /\ midnight[d] <= t /\ t < midnight[d + 1]
              /\ First.t <= t /\ t < now
         /\ midnight[d] \in Nat /\ midnight[d + 1] \in Nat
<1>1. Days \in Nat /\ 1 \in 1..(Days + 1) /\ d \in 1..(Days + 1) /\ d + 1 \in 1..(Days + 1)
  BY DaysAreGiven DEF Day
<1>2. midnight[1] \in Nat /\ midnight[d] \in Nat /\ midnight[d + 1] \in Nat
  BY <1>1 DEF InputsOK
<1>3. midnight[1] <= midnight[d]
  <2>1. CASE d = 1
    BY <1>2, <2>1
  <2>2. CASE 1 < d
    <3>1. midnight[1] < midnight[d]
      BY <1>1, <2>2, MidnightsGrow
    <3> QED BY <1>2, <3>1
  <2> QED BY <1>1, <2>1, <2>2 DEF Day
<1>4. IsFiniteSet(Watched(d))
  <2>1. midnight[d] \in Int /\ midnight[d + 1] - 1 \in Int
    BY <1>2
  <2>2. IsFiniteSet(midnight[d]..(midnight[d + 1] - 1))
    BY <2>1, FS_Interval
  <2>3. Watched(d) \in SUBSET (midnight[d]..(midnight[d + 1] - 1))
    BY DEF Watched
  <2> QED BY <2>2, <2>3, FS_Subset
<1>5. /\ First.t \in Nat /\ midnight[1] <= First.t /\ registered <= First.t
      /\ First.t = midnight[1] \/ First.t = registered
  BY FirstIs DEF Utc
<1>6. registered \in Nat /\ now \in Nat
  BY DEF InputsOK
<1>7. ASSUME NEW t
      PROVE  t \in Watched(d) <=> /\ t \in Int /\ midnight[d] <= t /\ t < midnight[d + 1]
                                  /\ First.t <= t /\ t < now
  BY <1>2, <1>3, <1>5, <1>6 DEF Watched
<1> QED BY <1>2, <1>4, <1>7

\* The piece of a segment that lies in its first day.
LEMMA PieceIs ==
  ASSUME InputsOK, NEW seg, SegOK(seg)
  PROVE  LET d == DateOf(seg.start.t)
             s == seg.start.t
             end == PieceEnd(seg)
         IN  /\ d \in Day /\ midnight[d] <= s /\ end.t <= midnight[d + 1]
             /\ end \in Moment /\ s < end.t /\ end.t <= seg.end.t
             /\ end.t < seg.end.t => /\ \E e \in Day : end.t = midnight[e]
                                     /\ end.t = midnight[d + 1]
             /\ \/ Span(seg.start, end) = end.t - s
                \/ /\ s = midnight[d] /\ end.t = midnight[d + 1]
                   /\ Span(seg.start, end) = NominalDay
<1> DEFINE s == seg.start.t
           d == DateOf(s)
           end == PieceEnd(seg)
<1>1. /\ seg.start \in Moment /\ seg.end \in Moment
      /\ First.t <= s /\ s < seg.end.t /\ seg.end.t <= now /\ ~seg.end.local
      /\ seg.start.local => \E e \in Day : s = midnight[e]
  BY DEF SegOK, Piece
<1>2. s \in Int /\ seg.end.t \in Int /\ seg.start.local \in BOOLEAN
  BY <1>1 DEF Moment
<1>3. /\ Days \in Nat /\ Days >= 1 /\ Days \in Day /\ 1 \in Day
      /\ \A e \in Day : e \in 1..(Days + 1) /\ e + 1 \in 1..(Days + 1) /\ e \in Nat
  BY DaysAreGiven DEF Day
<1>4. /\ \A e \in 1..(Days + 1) : midnight[e] \in Nat
      /\ \A e \in Day : midnight[e] < midnight[e + 1]
      /\ now \in Nat /\ now < midnight[Days + 1]
  BY DEF InputsOK
<1>5. First.t \in Nat /\ midnight[1] <= First.t
  BY FirstIs
<1>6. midnight[Days + 1] \in Nat /\ midnight[1] \in Nat
  BY <1>3, <1>4
<1>7. d \in Day /\ midnight[d] <= s /\ s < midnight[d + 1]
  <2>1. midnight[1] <= s /\ s < midnight[Days + 1]
    BY <1>1, <1>2, <1>4, <1>5, <1>6
  <2> QED BY <1>2, <2>1, DatesAreDays
<1>8. midnight[d] \in Nat /\ midnight[d + 1] \in Nat /\ d + 1 \in 1..(Days + 1)
  BY <1>3, <1>4, <1>7
<1> HIDE DEF d
<1>9. end = IF midnight[d + 1] < seg.end.t
              THEN [t |-> midnight[d + 1], local |-> TRUE] ELSE seg.end
  BY DEF PieceEnd, Sooner, DayEnd, Midnight, d
<1> HIDE DEF end
<1>10. /\ end \in Moment /\ s < end.t /\ end.t <= seg.end.t /\ end.t <= midnight[d + 1]
       /\ end.t < seg.end.t => end.t = midnight[d + 1]
       /\ end.local => end.t = midnight[d + 1]
  <2>1. CASE midnight[d + 1] < seg.end.t
    <3>1. end = [t |-> midnight[d + 1], local |-> TRUE]
      BY <1>9, <2>1
    <3> QED BY <1>2, <1>7, <1>8, <2>1, <3>1 DEF Moment
  <2>2. CASE ~(midnight[d + 1] < seg.end.t)
    <3>1. end = seg.end
      BY <1>9, <2>2
    <3> QED BY <1>1, <1>2, <1>7, <1>8, <2>2, <3>1
  <2> QED BY <2>1, <2>2
<1>11. end.t \in Int /\ end.local \in BOOLEAN
  BY <1>10 DEF Moment
<1>12. ASSUME end.t < seg.end.t
       PROVE  \E e \in Day : end.t = midnight[e]
  <2>1. end.t = midnight[d + 1] /\ midnight[d + 1] < midnight[Days + 1]
    BY <1>1, <1>2, <1>4, <1>6, <1>8, <1>10, <1>12
  <2>2. d # Days
    BY <1>8, <2>1
  <2>3. d + 1 \in Day
    BY <1>3, <1>7, <2>2 DEF Day
  <2> QED BY <2>1, <2>3
<1>13. CASE seg.start.local /\ end.local
  <2> DEFINE days == {e \in Day : s <= midnight[e] /\ midnight[e] < end.t}
  <2>1. PICK e \in Day : s = midnight[e]
    BY <1>1, <1>13
  <2>2. midnight[e] <= s /\ s < midnight[e + 1]
    BY <1>3, <1>4, <2>1
  <2>3. e = d
    BY <1>2, <1>7, <2>2, DaysAreDisjoint
  <2>4. s = midnight[d] /\ end.t = midnight[d + 1]
    BY <1>10, <1>13, <2>1, <2>3
  <2>5. ASSUME NEW c \in days
        PROVE  c = d
    <3>1. c \in Day /\ midnight[d] <= midnight[c] /\ midnight[c] < midnight[d + 1]
      BY <2>4
    <3>2. midnight[c] \in Int /\ midnight[c] <= midnight[c] /\ midnight[c] < midnight[c + 1]
      BY <1>3, <1>4, <3>1
    <3> QED BY <1>7, <3>1, <3>2, DaysAreDisjoint
  <2>6. days = {d}
    <3>1. d \in days
      BY <1>7, <1>8, <2>4
    <3> QED BY <2>5, <3>1
  <2>7. Cardinality(days) = 1
    BY <2>6, FS_Singleton
  <2>8. Span(seg.start, end) = NominalDay * Cardinality(days)
    BY <1>13 DEF Span
  <2>9. NominalDay \in Int
    BY DaysHaveALength
  <2>10. Span(seg.start, end) = NominalDay
    <3> HIDE DEF days
    <3> QED BY <2>7, <2>8, <2>9
  <2> QED BY <1>7, <1>10, <1>12, <2>4, <2>10 DEF end, d
<1>14. CASE ~(seg.start.local /\ end.local)
  <2>1. Span(seg.start, end) = end.t - s
    BY <1>14 DEF Span
  <2> QED BY <1>7, <1>10, <1>12, <2>1 DEF end, d
<1> QED BY <1>13, <1>14

\* A piece of one day adds nothing to the others.
LEMMA OtherDaysStay ==
  ASSUME InputsOK, NEW d \in Day, NEW e \in Day, e # d, NEW s \in Int, NEW to \in Int,
         midnight[d] <= s, s < to, to <= midnight[d + 1], to <= now,
         NEW cell, CellOK(cell, s, e)
  PROVE  CellOK(cell, to, e)
<1>1. /\ midnight[d] \in Nat /\ midnight[d + 1] \in Nat
      /\ midnight[e] \in Nat /\ midnight[e + 1] \in Nat /\ now \in Nat
  BY WatchedIs DEF InputsOK
<1>2. ASSUME NEW t \in Watched(e)
      PROVE  t < to <=> t < s
  <2>1. t \in Int /\ midnight[e] <= t /\ t < midnight[e + 1]
    BY <1>2, WatchedIs
  <2>2. ASSUME s <= t, t < to
        PROVE  FALSE
    <3>1. midnight[d] <= t /\ t < midnight[d + 1]
      BY <1>1, <2>1, <2>2
    <3> QED BY <2>1, <3>1, DaysAreDisjoint
  <2> QED BY <2>1, <2>2
<1>3. ASSUME NEW st
      PROVE  Counted(to, e, st) = Counted(s, e, st)
  BY <1>2 DEF Counted
<1>4. Incidents(to, e) = Incidents(s, e)
  BY <1>2 DEF Incidents
<1>5. IsExact(cell, s, e) => IsExact(cell, to, e)
  BY <1>3 DEF IsExact
<1>6. IsWhole(cell, s, e) => IsWhole(cell, to, e)
  <2> SUFFICES ASSUME IsWhole(cell, s, e)
               PROVE  IsWhole(cell, to, e)
    OBVIOUS
  <2>1. midnight[e + 1] <= s
    BY DEF IsWhole
  <2>2. midnight[e + 1] <= to
    BY <1>1, <2>1
  <2> QED BY <2>2 DEF IsWhole
<1> QED BY <1>4, <1>5, <1>6 DEF CellOK

\* A piece adds its ticks to its day, and its beginning if an incident began.
LEMMA PieceIsCounted ==
  ASSUME InputsOK, NEW seg \in Piece, NEW d \in Day, NEW to \in Int, NEW span \in Nat,
         midnight[d] <= seg.start.t, seg.start.t < to, to <= midnight[d + 1], to <= now,
         First.t <= seg.start.t,
         \A t \in Int : seg.start.t <= t /\ t < to => StatusAt(t) = seg.status,
         seg.began <=> IsTurn(seg.start.t),
         \A t \in Int : seg.start.t < t /\ t < to => ~IsTurn(t),
         \/ span = to - seg.start.t
         \/ seg.start.t = midnight[d] /\ to = midnight[d + 1] /\ span = NominalDay,
         NEW cell, CellOK(cell, seg.start.t, d)
  PROVE  CellOK(WithPiece(cell, seg, span), to, d)
<1> DEFINE s == seg.start.t
           new == WithPiece(cell, seg, span)
           piece == s..(to - 1)
<1>1. /\ midnight[d] \in Nat /\ midnight[d + 1] \in Nat /\ now \in Nat /\ s \in Int
      /\ seg.status \in Statuses /\ seg.began \in BOOLEAN /\ First.t \in Nat
  BY WatchedIs, FirstIs DEF InputsOK, Piece, Moment
<1>2. /\ new \in Cell
      /\ \A st \in Statuses : new[st] = cell[st] + (IF st = seg.status THEN span ELSE 0)
      /\ new.incidents = cell.incidents + (IF seg.status = "down" /\ seg.began THEN 1 ELSE 0)
  <2>1. cell \in Cell
    BY DEF CellOK
  <2> QED BY <2>1, PieceIsAdded
<1>3. IsExact(cell, s, d) /\ cell.incidents = Cardinality(Incidents(s, d))
  <2>1. ~IsWhole(cell, s, d)
    BY <1>1 DEF IsWhole
  <2> QED BY <2>1 DEF CellOK
<1> HIDE DEF new
<1>4. /\ IsFiniteSet(Watched(d))
      /\ \A t : t \in Watched(d) <=> /\ t \in Int /\ midnight[d] <= t /\ t < midnight[d + 1]
                                     /\ First.t <= t /\ t < now
  BY WatchedIs
<1>5. \A t : t \in piece <=> t \in Int /\ s <= t /\ t < to
  BY <1>1
<1>6. \A t \in piece : t \in Watched(d) /\ t \in Int
  BY <1>1, <1>4, <1>5
<1>7. IsFiniteSet(piece) /\ Cardinality(piece) = to - s
  <2>1. to - 1 \in Int /\ ~(s > to - 1) /\ (to - 1) - s + 1 = to - s
    BY <1>1
  <2> QED BY <1>1, <2>1, FS_Interval
<1> HIDE DEF piece
<1>8. \A t \in Watched(d) : t < to <=> (t < s \/ t \in piece)
  BY <1>1, <1>4, <1>5
<1>9. \A t \in piece : ~(t < s) /\ StatusAt(t) = seg.status
  BY <1>1, <1>5
<1>10. ASSUME NEW st
       PROVE  IsFiniteSet(Counted(s, d, st)) /\ Cardinality(Counted(s, d, st)) \in Nat
  <2>1. Counted(s, d, st) \in SUBSET Watched(d)
    BY DEF Counted
  <2>2. IsFiniteSet(Counted(s, d, st))
    BY <1>4, <2>1, FS_Subset
  <2> QED BY <2>2, FS_CardinalityType
<1>11. Cardinality(Counted(to, d, seg.status))
         = Cardinality(Counted(s, d, seg.status)) + (to - s)
  <2> DEFINE old == Counted(s, d, seg.status)
  <2>1. Counted(to, d, seg.status) = old \cup piece
    BY <1>6, <1>8, <1>9 DEF Counted
  <2>2. old \cap piece = {}
    BY <1>9 DEF Counted
  <2>3. IsFiniteSet(old) /\ Cardinality(old) \in Nat
    BY <1>10
  <2> HIDE DEF old
  <2>4. Cardinality(old \cup piece) = Cardinality(old) + (to - s) - Cardinality({})
    BY <1>7, <2>2, <2>3, FS_Union
  <2>5. Cardinality({}) = 0
    BY FS_EmptySet
  <2>6. Cardinality(old \cup piece) = Cardinality(old) + (to - s)
    BY <1>1, <2>3, <2>4, <2>5
  <2> QED BY <2>1, <2>6 DEF old
<1>12. ASSUME NEW st, st # seg.status
       PROVE  Counted(to, d, st) = Counted(s, d, st)
  BY <1>8, <1>9, <1>12 DEF Counted
<1>13. new.incidents = Cardinality(Incidents(to, d))
  <2> DEFINE old == Incidents(s, d)
  <2>1. IsFiniteSet(old) /\ Cardinality(old) \in Nat
    <3>1. old \in SUBSET Watched(d)
      BY DEF Incidents
    <3>2. IsFiniteSet(old)
      BY <1>4, <3>1, FS_Subset
    <3> QED BY <3>2, FS_CardinalityType
  <2>2. s \in piece /\ s \notin old
    BY <1>1, <1>5 DEF Incidents
  <2>3. \A t \in piece : IsTurn(t) <=> t = s /\ seg.began
    BY <1>1, <1>5
  <2>4. CASE seg.status = "down" /\ seg.began
    <3>1. Incidents(to, d) = old \cup {s}
      BY <1>6, <1>8, <1>9, <2>2, <2>3, <2>4 DEF Incidents
    <3> HIDE DEF old
    <3>2. Cardinality(old \cup {s}) = Cardinality(old) + 1
      BY <2>1, <2>2, FS_AddElement
    <3>3. new.incidents = Cardinality(old) + 1
      BY <1>2, <1>3, <2>4 DEF old
    <3> QED BY <3>1, <3>2, <3>3
  <2>5. CASE ~(seg.status = "down" /\ seg.began)
    <3>1. Incidents(to, d) = old
      BY <1>8, <1>9, <2>3, <2>5 DEF Incidents
    <3> QED BY <1>2, <1>3, <2>1, <2>5, <3>1
  <2> QED BY <2>4, <2>5
<1>14. CASE span = to - s
  <2>1. ASSUME NEW st \in Statuses
        PROVE  new[st] = Cardinality(Counted(to, d, st))
    <3>1. cell[st] = Cardinality(Counted(s, d, st)) /\ cell[st] \in Nat
      BY <1>3, <1>10 DEF IsExact
    <3>2. new[st] = cell[st] + (IF st = seg.status THEN span ELSE 0)
      BY <1>2
    <3>3. CASE st = seg.status
      BY <1>11, <1>14, <3>1, <3>2, <3>3
    <3>4. CASE st # seg.status
      BY <1>12, <3>1, <3>2, <3>4
    <3> QED BY <3>3, <3>4
  <2>2. IsExact(new, to, d)
    BY <2>1 DEF IsExact
  <2> QED BY <1>2, <1>13, <2>2 DEF CellOK, new
<1>15. CASE /\ s = midnight[d] /\ to = midnight[d + 1] /\ span = NominalDay
            /\ midnight[d + 1] - midnight[d] # NominalDay
  <2>1. \A t \in Watched(d) : StatusAt(t) = seg.status
    BY <1>4, <1>5, <1>9, <1>15
  <2>2. ASSUME NEW st \in Statuses
        PROVE  cell[st] = 0
    <3>1. Counted(s, d, st) = {}
      BY <1>1, <1>4, <1>15 DEF Counted
    <3>2. Cardinality(Counted(s, d, st)) = 0
      BY <3>1, FS_EmptySet
    <3> QED BY <1>3, <3>2 DEF IsExact
  <2>3. \A st \in Statuses : new[st] = IF st = seg.status THEN NominalDay ELSE 0
    BY <1>2, <1>15, <2>2
  <2>4. midnight[d + 1] <= to /\ to <= now /\ First.t <= midnight[d]
    BY <1>1, <1>15
  <2>5. IsWhole(new, to, d)
    BY <1>1, <1>15, <2>1, <2>3, <2>4 DEF IsWhole
  <2> QED BY <1>2, <1>13, <2>5 DEF CellOK, new
<1> QED BY <1>1, <1>14, <1>15
-----------------------------------------------------------------------------
\* The second loop has counted all ticks before its cursor.
Cursor == IF segs = <<>> THEN now ELSE segs[1].start.t

AddInv ==
  /\ Chain(segs, Cursor, now)
  /\ cells \in [Day -> Cell]
  /\ \A d \in Day : CellOK(cells[d], Cursor, d)

\* What is left of a segment once its first piece is counted.
LEMMA RestIsSound ==
  ASSUME InputsOK, NEW seg, SegOK(seg), NEW end \in Moment,
         seg.start.t < end.t, end.t < seg.end.t, \E e \in Day : end.t = midnight[e]
  PROVE  SegOK(Rest(seg, end))
<1> DEFINE rest == Rest(seg, end)
<1>1. seg \in Piece
  BY DEF SegOK
<1>2. rest = [start |-> end, end |-> seg.end, status |-> seg.status, began |-> FALSE]
  BY DEF Rest
<1>3. /\ rest \in Piece /\ rest.start = end /\ rest.end = seg.end
      /\ rest.status = seg.status /\ ~rest.began
  BY <1>1, <1>2 DEF Piece
<1> HIDE DEF rest
<1>4. /\ First.t <= seg.start.t /\ seg.start.t < seg.end.t /\ seg.end.t <= now
      /\ seg.start.t \in Int /\ seg.end.t \in Int /\ end.t \in Int /\ ~seg.end.local
  BY <1>1 DEF SegOK, Piece, Moment
<1>5. First.t <= end.t
  BY <1>4, FirstIs
<1>6. \A t \in Int : end.t <= t /\ t < seg.end.t => StatusAt(t) = seg.status
  BY <1>4 DEF SegOK
<1>7. ~IsTurn(end.t) /\ \A t \in Int : end.t < t /\ t < seg.end.t => ~IsTurn(t)
  BY <1>4 DEF SegOK
<1>8. SegOK(rest)
  BY <1>3, <1>4, <1>5, <1>6, <1>7 DEF SegOK
<1> QED BY <1>8 DEF rest

\* Without its first segment a chain begins where that one ended.
LEMMA ChainWithoutHead ==
  ASSUME NEW seq, NEW from, NEW to, Chain(seq, from, to), seq # <<>>
  PROVE  /\ Head(seq) = seq[1] /\ SegOK(seq[1]) /\ seq[1].start.t = from
         /\ Chain(Tail(seq), seq[1].end.t, to)
<1> DEFINE rest == Tail(seq)
           len == Len(rest)
<1>1. seq \in Seq(Piece)
  BY DEF Chain
<1>2. /\ Head(seq) = seq[1] /\ rest \in Seq(Piece) /\ len = Len(seq) - 1
      /\ \A i \in 1..len : rest[i] = seq[i + 1]
  BY <1>1, HeadTailProperties
<1>3. /\ Len(seq) \in Nat /\ Len(seq) >= 1 /\ len \in Nat
      /\ rest = <<>> <=> len = 0
  <2>1. Len(seq) \in Nat /\ Len(seq) # 0
    BY <1>1, EmptySeq
  <2>2. rest = <<>> <=> len = 0
    BY <1>2, EmptySeq
  <2> QED BY <1>2, <2>1, <2>2
<1> HIDE DEF rest, len
<1>4. \A i \in 1..len : i + 1 \in 1..Len(seq)
  BY <1>2, <1>3
<1>5. 1 \in 1..Len(seq) /\ SegOK(seq[1]) /\ seq[1].start.t = from
  BY <1>3 DEF Chain
<1>6. \A i \in 1..len : SegOK(rest[i])
  BY <1>2, <1>4 DEF Chain
<1>7. ASSUME NEW i \in 1..len, i < len
      PROVE  rest[i].end.t = rest[i + 1].start.t
  <2>1. i + 1 \in 1..len /\ i + 1 \in 1..Len(seq) /\ i + 1 < Len(seq)
    BY <1>2, <1>3, <1>7
  <2>2. seq[i + 1].end.t = seq[(i + 1) + 1].start.t
    BY <2>1 DEF Chain
  <2> QED BY <1>2, <2>1, <2>2
<1>8. seq[Len(seq)].end.t = to
  BY DEF Chain
<1>9. CASE rest = <<>>
  <2>1. Len(seq) = 1
    BY <1>2, <1>3, <1>9
  <2>2. seq[1].end.t = to
    BY <1>8, <2>1
  <2>3. Chain(rest, seq[1].end.t, to)
    BY <1>2, <1>3, <1>6, <1>7, <1>9, <2>2 DEF Chain, len
  <2> QED BY <1>2, <1>5, <2>3 DEF rest
<1>10. CASE rest # <<>>
  <2>1. 1 \in 1..len /\ len \in 1..len /\ 1 < Len(seq)
    BY <1>2, <1>3, <1>10
  <2>2. seq[1].end.t = rest[1].start.t
    <3>1. seq[1].end.t = seq[1 + 1].start.t
      BY <1>5, <2>1 DEF Chain
    <3> QED BY <1>2, <2>1, <3>1
  <2>3. rest[len].end.t = to
    BY <1>2, <1>3, <1>8, <2>1
  <2>4. Chain(rest, seq[1].end.t, to)
    BY <1>2, <1>6, <1>7, <1>10, <2>2, <2>3 DEF Chain, len
  <2> QED BY <1>2, <1>5, <2>4 DEF rest
<1> QED BY <1>9, <1>10

\* A segment in front of a chain that it joins on to.
LEMMA ChainWithHead ==
  ASSUME NEW seq, NEW to, NEW seg, SegOK(seg), Chain(seq, seg.end.t, to)
  PROVE  /\ Chain(<<seg>> \o seq, seg.start.t, to)
         /\ <<seg>> \o seq # <<>> /\ (<<seg>> \o seq)[1] = seg
<1> DEFINE new == <<seg>> \o seq
           len == Len(seq)
<1>1. seq \in Seq(Piece) /\ seg \in Piece
  BY DEF Chain, SegOK
<1>2. <<seg>> \in Seq(Piece) /\ Len(<<seg>>) = 1 /\ <<seg>>[1] = seg /\ len \in Nat
  BY <1>1
<1>3. /\ new \in Seq(Piece) /\ Len(new) = 1 + len
      /\ \A i \in 1..(1 + len) : new[i] = IF i <= 1 THEN <<seg>>[i] ELSE seq[i - 1]
  BY <1>1, <1>2, ConcatProperties
<1>4. new[1] = seg /\ \A i \in 1..len : new[i + 1] = seq[i]
  BY <1>2, <1>3
<1>5. /\ new # <<>>
      /\ seq = <<>> <=> len = 0
  BY <1>1, <1>2, <1>3, EmptySeq
<1> HIDE DEF new, len
<1>6. ASSUME NEW i \in 1..Len(new)
      PROVE  SegOK(new[i])
  <2>1. CASE i = 1
    BY <1>4, <2>1
  <2>2. CASE i # 1
    <3>1. i - 1 \in 1..len /\ (i - 1) + 1 = i
      BY <1>2, <1>3, <2>2
    <3>2. SegOK(seq[i - 1])
      BY <3>1 DEF Chain, len
    <3>3. new[i] = seq[i - 1]
      BY <1>4, <3>1
    <3> QED BY <3>2, <3>3
  <2> QED BY <2>1, <2>2
<1>7. ASSUME NEW i \in 1..Len(new), i < Len(new)
      PROVE  new[i].end.t = new[i + 1].start.t
  <2>1. i \in 1..len /\ new[i + 1] = seq[i]
    BY <1>2, <1>3, <1>4, <1>7
  <2>2. CASE i = 1
    <3>1. seq # <<>>
      BY <1>2, <1>5, <2>1
    <3>2. seq[1].start.t = seg.end.t
      BY <3>1 DEF Chain
    <3> QED BY <1>4, <2>1, <2>2, <3>2
  <2>3. CASE i # 1
    <3>1. i - 1 \in 1..len /\ i - 1 < len /\ (i - 1) + 1 = i
      BY <1>2, <2>1, <2>3
    <3>2. seq[i - 1].end.t = seq[(i - 1) + 1].start.t
      BY <3>1 DEF Chain, len
    <3>3. new[i] = seq[i - 1]
      BY <1>4, <3>1
    <3> QED BY <2>1, <3>1, <3>2, <3>3
  <2> QED BY <2>2, <2>3
<1>8. new[Len(new)].end.t = to
  <2>1. CASE len = 0
    BY <1>3, <1>4, <1>5, <2>1 DEF Chain
  <2>2. CASE len > 0
    <3>1. seq[len].end.t = to
      BY <1>2, <1>5, <2>2 DEF Chain, len
    <3>2. len \in 1..len /\ Len(new) = len + 1
      BY <1>2, <1>3, <2>2
    <3> QED BY <1>4, <3>1, <3>2
  <2> QED BY <1>2, <2>1, <2>2
<1>9. Chain(new, seg.start.t, to)
  BY <1>3, <1>4, <1>5, <1>6, <1>7, <1>8 DEF Chain
<1> QED BY <1>4, <1>5, <1>9 DEF new

\* The first loop leaves segments for the whole strip, and nothing counted.
LEMMA StripIsSplit ==
  ASSUME InputsOK, SplitInv, SplitAtNow
  PROVE  AddInv'
<1>1. PICK n : Position(n) /\ events = SubSeq(log, n + 1, Len(log))
  BY DEF SplitInv
<1>2. OpenOK /\ Chain(segs, First.t, open.start.t) /\ cells = [d \in Day |-> EmptyCell]
  BY DEF SplitInv
<1>3. /\ events # <<>> => Clipped(Head(events).at).t >= now
      /\ segs' = Closed(Utc(now)) /\ UNCHANGED inputs /\ cells' = cells
  BY DEF SplitAtNow
<1>4. n \in 0..Len(log) /\ Len(log) \in Nat /\ now \in Nat
  BY <1>1, LogHasEntries DEF Position, InputsOK
<1>5. \A i \in 1..Len(log) : i > n => Clipped(log[i].at).t >= now
  <2> SUFFICES ASSUME NEW i \in 1..Len(log), i > n
               PROVE  Clipped(log[i].at).t >= now
    OBVIOUS
  <2>1. events # <<>>
    BY <1>1, <1>4, RestIs
  <2>2. n + 1 \in 1..Len(log) /\ Head(events) = log[n + 1] /\ n + 1 <= i
    BY <1>1, <1>4, <2>1, RestIs
  <2>3. log[i].at \in Nat /\ log[n + 1].at \in Nat
    BY <2>2, LogHasEntries
  <2>4. Clipped(log[n + 1].at).t \in Nat /\ Clipped(log[i].at).t \in Nat
    BY <2>3, ClippedIs
  <2>5. Clipped(log[n + 1].at).t <= Clipped(log[i].at).t
    BY <2>2, ClippedInOrder
  <2> QED BY <1>3, <1>4, <2>1, <2>2, <2>4, <2>5
<1> DEFINE end == Utc(now)
<1>6. end \in Moment /\ end.t = now /\ ~end.local
  BY <1>4 DEF Utc, Moment
<1> HIDE DEF end
<1>7. open.start.t <= now /\ open.start.t \in Int /\ First.t \in Nat
  BY <1>2, FirstIs DEF OpenOK, Open, Moment
<1>8. open.start.t < end.t => SegOK(Segment(end))
  BY <1>1, <1>2, <1>4, <1>5, <1>6, SegmentIsSound
<1>9. Chain(segs', First.t, now)
  <2>1. Chain(Closed(end), First.t, end.t)
    BY <1>2, <1>6, <1>7, <1>8, ChainGrows
  <2> QED BY <1>3, <1>6, <2>1 DEF end
<1>10. now' = now /\ \A seg : SegOK(seg)' = SegOK(seg)
  BY <1>3, InputsStay DEF inputs
<1>11. Cursor' = First.t
  BY <1>9, <1>10 DEF Cursor, Chain
<1>12. Chain(segs, Cursor, now)'
  BY <1>9, <1>10, <1>11 DEF Chain
<1>13. EmptyCell \in Cell /\ \A st \in Statuses : EmptyCell[st] = 0
  BY DEF EmptyCell, Cell, Statuses
<1>14. ASSUME NEW d \in Day
       PROVE  CellOK(cells'[d], First.t, d)
  <2>1. cells'[d] = EmptyCell /\ EmptyCell.incidents = 0
    BY <1>2, <1>3 DEF EmptyCell
  <2>2. \A t \in Watched(d) : ~(t < First.t)
    <3>1. \A t \in Watched(d) : t \in Int /\ First.t <= t
      BY WatchedIs
    <3> QED BY <1>7, <3>1
  <2>3. \A st : Counted(First.t, d, st) = {}
    BY <2>2 DEF Counted
  <2>4. Incidents(First.t, d) = {}
    BY <2>2 DEF Incidents
  <2>5. Cardinality({}) = 0
    BY FS_EmptySet
  <2>6. IsExact(EmptyCell, First.t, d)
    BY <1>13, <2>3, <2>5 DEF IsExact
  <2> QED BY <1>13, <2>1, <2>4, <2>5, <2>6 DEF CellOK
<1>15. \A d \in Day : CellOK(cells[d], Cursor, d)'
  <2>1. \A cell, to, d : CellOK(cell, to, d)' = CellOK(cell, to, d)
    BY <1>3, InputsStay
  <2> QED BY <1>11, <1>14, <2>1
<1>16. cells' \in [Day -> Cell]
  BY <1>2, <1>3, <1>13
<1> QED BY <1>12, <1>15, <1>16 DEF AddInv

\* A turn of the second loop.
LEMMA PieceIsCountedOnce ==
  ASSUME InputsOK, AddInv, AddPiece
  PROVE  AddInv'
<1> DEFINE seg == segs[1]
           s == seg.start.t
           d == DateOf(s)
           end == PieceEnd(seg)
           span == Span(seg.start, end)
<1>1. Chain(segs, Cursor, now) /\ cells \in [Day -> Cell] /\ segs # <<>>
  BY DEF AddInv, AddPiece
<1>2. /\ Head(segs) = seg /\ SegOK(seg) /\ s = Cursor
      /\ Chain(Tail(segs), seg.end.t, now)
  BY <1>1, ChainWithoutHead
<1>3. /\ cells' = [cells EXCEPT ![d] = WithPiece(@, seg, span)]
      /\ segs' = IF end.t < seg.end.t THEN <<Rest(seg, end)>> \o Tail(segs) ELSE Tail(segs)
      /\ UNCHANGED inputs
  BY <1>2 DEF AddPiece
<1>4. /\ d \in Day /\ midnight[d] <= s /\ end.t <= midnight[d + 1]
      /\ end \in Moment /\ s < end.t /\ end.t <= seg.end.t
      /\ end.t < seg.end.t => \E e \in Day : end.t = midnight[e]
      /\ \/ span = end.t - s
         \/ s = midnight[d] /\ end.t = midnight[d + 1] /\ span = NominalDay
  BY <1>2, PieceIs
<1>5. seg \in Piece /\ s \in Int /\ seg.end.t \in Int /\ end.t \in Int /\ now \in Nat
      /\ seg.end.t <= now /\ First.t <= s
  BY <1>2, <1>4 DEF SegOK, Piece, Moment, InputsOK
<1> HIDE DEF seg, d, end, span
<1>6. span \in Nat
  <2>1. NominalDay \in Nat
    BY DaysHaveALength
  <2> QED BY <1>4, <1>5, <2>1
<1>7. /\ \A t \in Int : s <= t /\ t < end.t => StatusAt(t) = seg.status
      /\ seg.began <=> IsTurn(s)
      /\ \A t \in Int : s < t /\ t < end.t => ~IsTurn(t)
  BY <1>2, <1>4, <1>5 DEF SegOK
<1>8. end.t <= now
  BY <1>4, <1>5
<1>9. CellOK(cells'[d], end.t, d)
  <2>1. cells'[d] = WithPiece(cells[d], seg, span)
    BY <1>1, <1>3, <1>4
  <2>2. CellOK(cells[d], s, d)
    BY <1>2, <1>4 DEF AddInv
  <2>3. CellOK(WithPiece(cells[d], seg, span), end.t, d)
    BY <1>4, <1>5, <1>6, <1>7, <1>8, <2>2, PieceIsCounted
  <2> QED BY <2>1, <2>3
<1>10. ASSUME NEW e \in Day, e # d
       PROVE  CellOK(cells'[e], end.t, e)
  <2>1. cells'[e] = cells[e]
    BY <1>1, <1>3, <1>10
  <2>2. CellOK(cells[e], s, e)
    BY <1>2 DEF AddInv
  <2> QED BY <1>4, <1>5, <1>8, <1>10, <2>1, <2>2, OtherDaysStay
<1>11. Chain(segs', end.t, now) /\ (segs' # <<>> => segs'[1].start.t = end.t)
  <2>1. CASE end.t < seg.end.t
    <3>1. SegOK(Rest(seg, end))
      BY <1>2, <1>4, <2>1, RestIsSound
    <3>2. Rest(seg, end).start = end /\ Rest(seg, end).end = seg.end
      BY DEF Rest
    <3>3. Chain(<<Rest(seg, end)>> \o Tail(segs), end.t, now)
      BY <1>2, <3>1, <3>2, ChainWithHead
    <3>4. segs' = <<Rest(seg, end)>> \o Tail(segs)
      BY <1>3, <2>1
    <3> QED BY <3>3, <3>4 DEF Chain
  <2>2. CASE ~(end.t < seg.end.t)
    <3>1. end.t = seg.end.t /\ segs' = Tail(segs)
      BY <1>3, <1>4, <1>5, <2>2
    <3> QED BY <1>2, <3>1 DEF Chain
  <2> QED BY <2>1, <2>2
<1>12. now' = now /\ \A x : SegOK(x)' = SegOK(x)
  BY <1>3, InputsStay DEF inputs
<1>13. Cursor' = end.t
  BY <1>11, <1>12 DEF Cursor, Chain
<1>14. Chain(segs, Cursor, now)'
  BY <1>11, <1>12, <1>13 DEF Chain
<1>15. \A e \in Day : CellOK(cells'[e], end.t, e)
  BY <1>9, <1>10
<1>16. \A e \in Day : CellOK(cells[e], Cursor, e)'
  <2>1. \A cell, to, e : CellOK(cell, to, e)' = CellOK(cell, to, e)
    BY <1>3, InputsStay
  <2> QED BY <1>13, <1>15, <2>1
<1>17. cells' \in [Day -> Cell]
  <2>1. \A e \in Day : cells'[e] \in Cell
    BY <1>15 DEF CellOK
  <2>2. DOMAIN cells' = Day /\ cells' = [e \in Day |-> cells'[e]]
    BY <1>1, <1>3
  <2> QED BY <2>1, <2>2
<1> QED BY <1>14, <1>16, <1>17 DEF AddInv
-----------------------------------------------------------------------------
DoneInv ==
  /\ segs = <<>>
  /\ cells \in [Day -> Cell]
  /\ \A d \in Day : /\ CellOK(cells[d], now, d)
                    /\ cells[d].colour = Colour(cells[d].down, cells[d].down + cells[d].up)

HistoryInv ==
  /\ InputsOK
  /\ pc \in {"split", "add", "done"}
  /\ OpenOK
  /\ pc = "split" => SplitInv
  /\ pc = "add" => AddInv
  /\ pc = "done" => DoneInv

\* A colour says nothing about amounts.
LEMMA CellsAreColoured ==
  ASSUME InputsOK, AddInv, ColourCells
  PROVE  DoneInv'
<1>1. /\ segs = <<>> /\ segs' = <<>> /\ UNCHANGED inputs
      /\ cells' = [d \in Day |->
           [cells[d] EXCEPT !.colour = Colour(cells[d].down, cells[d].down + cells[d].up)]]
  BY DEF ColourCells
<1>2. Cursor = now /\ now' = now
  BY <1>1 DEF Cursor, inputs
<1>3. ASSUME NEW d \in Day
      PROVE  /\ CellOK(cells'[d], now, d)
             /\ cells'[d].colour = Colour(cells'[d].down, cells'[d].down + cells'[d].up)
  <2> DEFINE cell == cells[d]
             colour == Colour(cell.down, cell.down + cell.up)
             new == cells'[d]
  <2>1. CellOK(cell, now, d) /\ cell \in Cell
    BY <1>2 DEF AddInv
  <2>2. new = [cell EXCEPT !.colour = colour]
    BY <1>1
  <2>3. colour \in {"nodata", "ok", "minor", "major"}
    <3>1. cell.down \in Nat /\ cell.up \in Nat
      BY <2>1 DEF Cell
    <3> QED BY <3>1 DEF Colour
  <2> HIDE DEF colour, new, cell
  <2>4. new = [down |-> cell.down, up |-> cell.up, unknown |-> cell.unknown,
               incidents |-> cell.incidents, colour |-> colour]
    BY <2>1, <2>2 DEF Cell
  <2>5. /\ new \in Cell
        /\ \A st \in Statuses : new[st] = cell[st]
        /\ new.incidents = cell.incidents
        /\ new.down = cell.down /\ new.up = cell.up /\ new.colour = colour
    BY <2>1, <2>3, <2>4 DEF Cell, Statuses
  <2>6. IsExact(cell, now, d) => IsExact(new, now, d)
    BY <2>5 DEF IsExact
  <2>7. IsWhole(cell, now, d) => IsWhole(new, now, d)
    BY <2>5 DEF IsWhole
  <2>8. CellOK(new, now, d)
    BY <2>1, <2>5, <2>6, <2>7 DEF CellOK
  <2> QED BY <2>5, <2>8 DEF new, colour
<1>4. \A d \in Day : CellOK(cells[d], now, d)'
  <2>1. \A cell, to, d : CellOK(cell, to, d)' = CellOK(cell, to, d)
    BY <1>1, InputsStay
  <2> QED BY <1>2, <1>3, <2>1
<1>5. cells' \in [Day -> Cell]
  <2>1. \A d \in Day : cells'[d] \in Cell
    BY <1>3 DEF CellOK
  <2>2. cells' = [d \in Day |-> cells'[d]]
    BY <1>1
  <2> QED BY <2>1, <2>2
<1>6. \A d \in Day : (cells[d].colour = Colour(cells[d].down, cells[d].down + cells[d].up))'
  BY <1>3 DEF Colour, IsMajor
<1> QED BY <1>1, <1>4, <1>5, <1>6 DEF DoneInv

LEMMA InputsAreOK ==
  ASSUME Init
  PROVE  InputsOK
<1>1. /\ midnight \in Midnights
      /\ now \in midnight[Days]..(midnight[Days + 1] - 1)
      /\ registered \in 0..now /\ log \in Logs(now + 1)
  BY DEF Init
<1>2. /\ Days \in Nat /\ Days >= 1 /\ Days \in 1..(Days + 1) /\ Days + 1 \in 1..(Days + 1)
      /\ \A d \in Day : d \in 1..(Days + 1) /\ d + 1 \in 1..(Days + 1)
      /\ Earlier \in Nat /\ LongestDay \in Nat /\ ShortestDay \in Nat /\ ShortestDay >= 1
  BY DaysAreGiven, DaysHaveALength, ThresholdsAreNatural DEF Day
<1>3. Earlier + Days * LongestDay \in Nat
  BY <1>2
<1>4. /\ midnight \in [1..(Days + 1) -> Earlier..(Earlier + Days * LongestDay)]
      /\ \A d \in Day : midnight[d + 1] - midnight[d] \in ShortestDay..LongestDay
  BY <1>1 DEF Midnights
<1>5. midnight \in [1..(Days + 1) -> Nat]
  <2> DEFINE top == Earlier + Days * LongestDay
  <2>1. top \in Nat
    BY <1>3
  <2> HIDE DEF top
  <2>2. \A x \in Earlier..top : x \in Nat
    BY <1>2, <2>1
  <2> QED BY <1>4, <2>2 DEF top
<1>6. ASSUME NEW d \in Day
      PROVE  /\ midnight[d] < midnight[d + 1]
             /\ ShortestDay <= midnight[d + 1] - midnight[d]
  <2>1. midnight[d] \in Nat /\ midnight[d + 1] \in Nat
    BY <1>2, <1>5
  <2>2. midnight[d + 1] - midnight[d] \in ShortestDay..LongestDay
    BY <1>4
  <2> QED BY <1>2, <2>1, <2>2
<1>7. midnight[Days] \in Nat /\ midnight[Days + 1] \in Nat
  BY <1>2, <1>5
<1>8. now \in Nat /\ midnight[Days] <= now /\ now < midnight[Days + 1]
      /\ registered \in Nat /\ registered <= now
  BY <1>1, <1>7
<1>9. log \in Seq(Entry) /\ IsOrdered(log)
  <2>1. log \in UNION {[1..n -> [at : 0..(now + 1), to : Statuses]] : n \in 0..MaxEvents}
        /\ IsOrdered(log)
    BY <1>1 DEF Logs
  <2>2. PICK n \in 0..MaxEvents : log \in [1..n -> [at : 0..(now + 1), to : Statuses]]
    BY <2>1
  <2>3. n \in Nat
    BY <2>2
  <2>4. [at : 0..(now + 1), to : Statuses] \subseteq Entry
    BY <1>8 DEF Entry
  <2>5. log \in [1..n -> Entry]
    BY <2>2, <2>4
  <2>6. log \in Seq(Entry)
    BY <2>3, <2>5, SeqDef
  <2> QED BY <2>1, <2>6
<1> QED BY <1>5, <1>6, <1>8, <1>9 DEF InputsOK

\* The inductive invariant of both loops.
THEOREM HistoryInvariant == Spec => []HistoryInv
<1>1. Init => HistoryInv
  <2> SUFFICES ASSUME Init
               PROVE  HistoryInv
    OBVIOUS
  <2>1. InputsOK
    BY InputsAreOK
  <2>2. /\ pc = "split" /\ segs = <<>> /\ cells = [d \in Day |-> EmptyCell]
        /\ events = EventsSince(midnight[1])
        /\ open = [start |-> First, status |-> StatusBefore(midnight[1]), began |-> FALSE]
    BY DEF Init
  <2>3. First \in Moment /\ First.t \in Nat /\ First.t <= now /\ midnight[1] \in Int
        /\ midnight[1] <= First.t
    BY <2>1, FirstIs
  <2> DEFINE n == LastBefore(midnight[1])
  <2>4. /\ n \in 0..Len(log) /\ n \in Nat
        /\ \A i \in 1..Len(log) : i <= n => log[i].at < midnight[1]
    <3>1. /\ n \in 0..Len(log)
          /\ \A i \in 1..Len(log) : i <= n => log[i].at < midnight[1]
      BY <2>1, <2>3, LastBeforeSplits
    <3>2. Len(log) \in Nat
      BY <2>1, LogHasEntries
    <3> HIDE DEF n
    <3> QED BY <3>1, <3>2
  <2>5. open.start = First /\ open.status = StatusAfter(n) /\ ~open.began
    BY <2>2 DEF StatusBefore
  <2>6. StatusAfter(n) \in Statuses
    <3>1. CASE n = 0
      BY <3>1 DEF StatusAfter, Statuses
    <3>2. CASE n # 0
      <4>1. n \in 1..Len(log)
        BY <2>4, <3>2
      <4>2. log[n].to \in Statuses
        BY <2>1, <4>1, LogHasEntries
      <4> QED BY <3>2, <4>2 DEF StatusAfter
    <3> QED BY <3>1, <3>2
  <2>7. OpenOK
    <3>1. open \in Open
      BY <2>2, <2>3, <2>6 DEF Open, StatusBefore
    <3> QED BY <2>3, <2>5, <3>1 DEF OpenOK
  <2>8. Position(n) /\ events = SubSeq(log, n + 1, Len(log))
    <3>1. \A i \in 1..Len(log) : i <= n => log[i].at <= open.start.t
      <4> SUFFICES ASSUME NEW i \in 1..Len(log), i <= n
                   PROVE  log[i].at <= open.start.t
        OBVIOUS
      <4>1. log[i].at \in Nat /\ log[i].at < midnight[1]
        BY <2>1, <2>4, LogHasEntries
      <4> QED BY <2>3, <2>5, <4>1
    <3> QED BY <2>2, <2>4, <2>5, <3>1 DEF Position, EventsSince
  <2>9. Chain(segs, First.t, open.start.t)
    <3>1. segs \in Seq(Piece) /\ Len(segs) = 0
      BY <2>2, EmptySeq
    <3> QED BY <2>2, <2>5, <3>1 DEF Chain
  <2> QED BY <2>1, <2>2, <2>7, <2>8, <2>9 DEF HistoryInv, SplitInv
<1>2. HistoryInv /\ [Next]_vars => HistoryInv'
  <2> SUFFICES ASSUME HistoryInv, [Next]_vars
               PROVE  HistoryInv'
    OBVIOUS
  <2>1. CASE SplitAtEvent
    <3>1. pc = "split" /\ pc' = pc /\ UNCHANGED inputs
      BY <2>1 DEF SplitAtEvent
    <3>2. SplitInv'
      BY <2>1, <3>1, EventIsSplitAt DEF HistoryInv
    <3>3. InputsOK'
      BY <3>1, InputsStay DEF HistoryInv
    <3> QED BY <3>1, <3>2, <3>3 DEF HistoryInv, SplitInv
  <2>2. CASE SplitAtNow
    <3>1. pc = "split" /\ pc' = "add" /\ UNCHANGED inputs /\ open' = open
      BY <2>2 DEF SplitAtNow
    <3>2. AddInv'
      BY <2>2, <3>1, StripIsSplit DEF HistoryInv
    <3>3. InputsOK' /\ First' = First /\ now' = now
      BY <3>1, InputsStay DEF HistoryInv, inputs
    <3> QED BY <3>1, <3>2, <3>3 DEF HistoryInv, OpenOK
  <2>3. CASE AddPiece
    <3>1. pc = "add" /\ pc' = pc /\ UNCHANGED inputs /\ open' = open
      BY <2>3 DEF AddPiece
    <3>2. AddInv'
      BY <2>3, <3>1, PieceIsCountedOnce DEF HistoryInv
    <3>3. InputsOK' /\ First' = First /\ now' = now
      BY <3>1, InputsStay DEF HistoryInv, inputs
    <3> QED BY <3>1, <3>2, <3>3 DEF HistoryInv, OpenOK
  <2>4. CASE ColourCells
    <3>1. pc = "add" /\ pc' = "done" /\ UNCHANGED inputs /\ open' = open
      BY <2>4 DEF ColourCells
    <3>2. DoneInv'
      BY <2>4, <3>1, CellsAreColoured DEF HistoryInv
    <3>3. InputsOK' /\ First' = First /\ now' = now
      BY <3>1, InputsStay DEF HistoryInv, inputs
    <3> QED BY <3>1, <3>2, <3>3 DEF HistoryInv, OpenOK
  <2>5. CASE UNCHANGED vars
    <3>1. UNCHANGED <<inputs, pc, events, open, segs, cells>>
      BY <2>5 DEF vars
    <3>2. /\ InputsOK' = InputsOK /\ First' = First /\ now' = now /\ log' = log
          /\ LastBefore(midnight[1])' = LastBefore(midnight[1])
          /\ \A n : StatusAfter(n)' = StatusAfter(n)
          /\ \A at : Clipped(at)' = Clipped(at)
          /\ \A seg : SegOK(seg)' = SegOK(seg)
          /\ \A cell, to, d : CellOK(cell, to, d)' = CellOK(cell, to, d)
      BY <3>1, InputsStay DEF inputs
    <3>3. OpenOK' = OpenOK
      BY <3>1, <3>2 DEF OpenOK
    <3>4. SplitInv => SplitInv'
      <4> SUFFICES ASSUME SplitInv
                   PROVE  SplitInv'
        OBVIOUS
      <4>1. PICK n : Position(n) /\ events = SubSeq(log, n + 1, Len(log))
        BY DEF SplitInv
      <4>2. Position(n)'
        BY <3>1, <3>2, <4>1 DEF Position
      <4>3. Chain(segs, First.t, open.start.t)'
        BY <3>1, <3>2 DEF SplitInv, Chain
      <4>4. (events = SubSeq(log, n + 1, Len(log)))'
        BY <3>1, <3>2, <4>1
      <4> QED BY <3>1, <3>3, <4>2, <4>3, <4>4 DEF SplitInv
    <3>5. AddInv => AddInv'
      <4>1. Cursor' = Cursor
        BY <3>1, <3>2 DEF Cursor
      <4> QED BY <3>1, <3>2, <4>1 DEF AddInv, Chain
    <3>6. DoneInv => DoneInv'
      BY <3>1, <3>2 DEF DoneInv, Colour, IsMajor
    <3> QED BY <3>1, <3>2, <3>3, <3>4, <3>5, <3>6 DEF HistoryInv
  <2> QED BY <2>1, <2>2, <2>3, <2>4, <2>5 DEF Next, Returned
<1> QED BY <1>1, <1>2, PTL DEF Spec
-----------------------------------------------------------------------------
\* Segments have a length and end by now, and amounts are never negative.
THEOREM HistoryIsTyped == Spec => []TypeOK
<1>1. HistoryInv => TypeOK
  <2> SUFFICES ASSUME HistoryInv
               PROVE  TypeOK
    OBVIOUS
  <2>1. EmptyCell \in Cell
    BY DEF EmptyCell, Cell
  <2>2. /\ pc \in {"split", "add", "done"} /\ open.start.t <= now
        /\ \A i \in 1..Len(segs) : SegOK(segs[i])
        /\ DOMAIN segs = 1..Len(segs)
        /\ \A d \in Day : cells[d] \in Cell
    <3>1. CASE pc = "split"
      <4>1. Chain(segs, First.t, open.start.t) /\ cells = [d \in Day |-> EmptyCell]
        BY <3>1 DEF HistoryInv, SplitInv
      <4> QED BY <2>1, <4>1 DEF HistoryInv, OpenOK, Chain
    <3>2. CASE pc = "add"
      BY <3>2 DEF HistoryInv, OpenOK, AddInv, Chain
    <3>3. CASE pc = "done"
      <4>1. Len(segs) = 0 /\ DOMAIN segs = 1..Len(segs)
        BY <3>3, EmptySeq DEF HistoryInv, DoneInv
      <4> QED BY <3>3, <4>1 DEF HistoryInv, OpenOK, DoneInv
    <3> QED BY <3>1, <3>2, <3>3 DEF HistoryInv
  <2>3. \A i \in DOMAIN segs : segs[i].start.t < segs[i].end.t /\ segs[i].end.t <= now
    BY <2>2 DEF SegOK
  <2> QED BY <2>2, <2>3 DEF TypeOK, Cell
<1> QED BY <1>1, HistoryInvariant, PTL

\* When everything is counted the sets that were counted are all there are.
LEMMA AllIsCounted ==
  ASSUME InputsOK, NEW d \in Day
  PROVE  /\ \A st : TicksOf(st, d) = Cardinality(Counted(now, d, st))
         /\ \A cell : IsExact(cell, now, d) =>
              /\ cell.down = TicksOf("down", d)
              /\ cell.up = TicksOf("up", d)
              /\ cell.unknown = TicksOf("unknown", d)
<1>1. \A t \in Watched(d) : t < now
  BY WatchedIs
<1>2. ASSUME NEW st
      PROVE  TicksOf(st, d) = Cardinality(Counted(now, d, st))
  <2>1. Counted(now, d, st) = {t \in Watched(d) : StatusAt(t) = st}
    BY <1>1 DEF Counted
  <2> QED BY <2>1 DEF TicksOf
<1>3. ASSUME NEW cell, IsExact(cell, now, d)
      PROVE  /\ cell.down = TicksOf("down", d)
             /\ cell.up = TicksOf("up", d)
             /\ cell.unknown = TicksOf("unknown", d)
  BY <1>2, <1>3 DEF IsExact, Statuses
<1> QED BY <1>2, <1>3

\* On a day of the nominal length every tick that was watched is counted once,
\* with the status the log gives it, whatever the clock does on other days.
THEOREM StripIsExact == Spec => []OrdinaryDaysAreExact
<1>1. HistoryInv => OrdinaryDaysAreExact
  <2> SUFFICES ASSUME HistoryInv, pc = "done", NEW d \in Day,
                      midnight[d + 1] - midnight[d] = NominalDay
               PROVE  AmountsMatch(d)
    BY DEF OrdinaryDaysAreExact
  <2>1. CellOK(cells[d], now, d)
    BY DEF HistoryInv, DoneInv
  <2>2. IsExact(cells[d], now, d)
    BY <2>1 DEF CellOK, IsWhole
  <2> QED BY <2>2, AllIsCounted DEF HistoryInv, AmountsMatch
<1> QED BY <1>1, HistoryInvariant, PTL

\* Incidents are counted where they begin, once, on days of any length.
THEOREM IncidentsAreCountedOnce == Spec => []IncidentsMatchTheLog
<1>1. HistoryInv => IncidentsMatchTheLog
  <2> SUFFICES ASSUME HistoryInv, pc = "done", NEW d \in Day
               PROVE  cells[d].incidents =
                        Cardinality({t \in Watched(d) : StatusAt(t) = "down" /\ IsTurn(t)})
    BY DEF IncidentsMatchTheLog, IsTurn
  <2>1. cells[d].incidents = Cardinality(Incidents(now, d))
    BY DEF HistoryInv, DoneInv, CellOK
  <2>2. \A t \in Watched(d) : t < now
    BY WatchedIs DEF HistoryInv
  <2>3. Incidents(now, d) = {t \in Watched(d) : StatusAt(t) = "down" /\ IsTurn(t)}
    BY <2>2 DEF Incidents
  <2> QED BY <2>1, <2>3
<1> QED BY <1>1, HistoryInvariant, PTL

\* What a colour says.
LEMMA ColourIs ==
  ASSUME NEW down \in Nat, NEW up \in Nat
  PROVE  /\ (Colour(down, down + up) = "nodata") <=> (down + up = 0)
         /\ (Colour(down, down + up) = "major") <=> (down + up > 0 /\ down >= MajorOutage)
         /\ (Colour(down, down + up) = "ok") => (down = 0)
<1>1. MajorOutage \in Nat
  BY ThresholdsAreNatural
<1>2. CASE down + up = 0
  BY <1>1, <1>2 DEF Colour, IsMajor
<1>3. CASE down + up > 0 /\ down >= MajorOutage
  BY <1>1, <1>3 DEF Colour, IsMajor
<1>4. CASE down + up > 0 /\ ~(down >= MajorOutage) /\ down > 0
  BY <1>1, <1>4 DEF Colour, IsMajor
<1>5. CASE down + up > 0 /\ ~(down >= MajorOutage) /\ down = 0
  BY <1>1, <1>5 DEF Colour, IsMajor
<1> QED BY <1>1, <1>2, <1>3, <1>4, <1>5

\* A day that is counted with another length than it has has the colour of the
\* log all the same, if the threshold is not longer than a day.
LEMMA WholeDaysKeepTheirColour ==
  ASSUME InputsOK, NEW d \in Day, NEW cell \in Cell, IsWhole(cell, now, d),
         MajorOutage <= ShortestDay
  PROVE  LET down == TicksOf("down", d)
             up == TicksOf("up", d)
         IN  /\ down \in Nat /\ up \in Nat
             /\ down + up = 0 <=> cell.down + cell.up = 0
             /\ down >= MajorOutage <=> cell.down >= MajorOutage
             /\ down = 0 <=> cell.down = 0
<1> DEFINE len == midnight[d + 1] - midnight[d]
<1>1. midnight[d] \in Nat /\ midnight[d + 1] \in Nat /\ now \in Nat /\ First.t \in Nat
  BY WatchedIs, FirstIs DEF InputsOK
<1>2. /\ ShortestDay \in Nat /\ ShortestDay >= 1 /\ MajorOutage \in Nat
      /\ NominalDay \in Nat /\ NominalDay >= ShortestDay
  BY DaysHaveALength, ThresholdsAreNatural
<1>3. len \in Nat /\ len >= ShortestDay
  BY <1>1, <1>2 DEF InputsOK
<1>4. midnight[d + 1] <= now /\ First.t <= midnight[d]
  BY DEF IsWhole
<1>5. PICK st \in Statuses : /\ \A t \in Watched(d) : StatusAt(t) = st
                             /\ \A s \in Statuses : cell[s] = IF s = st THEN NominalDay ELSE 0
  BY DEF IsWhole
<1>6. Watched(d) = midnight[d]..(midnight[d + 1] - 1)
  <2>1. \A t : t \in Watched(d) <=> t \in Int /\ midnight[d] <= t /\ t < midnight[d + 1]
    BY <1>1, <1>4, WatchedIs
  <2>2. \A t : t \in midnight[d]..(midnight[d + 1] - 1)
                 <=> t \in Int /\ midnight[d] <= t /\ t < midnight[d + 1]
    BY <1>1
  <2> QED BY <2>1, <2>2
<1>7. Cardinality(Watched(d)) = len
  <2>1. midnight[d] \in Int /\ midnight[d + 1] - 1 \in Int
        /\ ~(midnight[d] > midnight[d + 1] - 1)
        /\ (midnight[d + 1] - 1) - midnight[d] + 1 = len
    BY <1>1, <1>2, <1>3
  <2> QED BY <1>6, <2>1, FS_Interval
<1>8. TicksOf(st, d) = len
  <2>1. {t \in Watched(d) : StatusAt(t) = st} = Watched(d)
    BY <1>5
  <2> QED BY <1>7, <2>1 DEF TicksOf
<1>9. ASSUME NEW s \in Statuses, s # st
      PROVE  TicksOf(s, d) = 0
  <2>1. {t \in Watched(d) : StatusAt(t) = s} = {}
    BY <1>5, <1>9
  <2> QED BY <2>1, FS_EmptySet DEF TicksOf
<1> HIDE DEF len
<1>10. "down" \in Statuses /\ "up" \in Statuses
  BY DEF Statuses
<1>11. /\ TicksOf("down", d) = IF st = "down" THEN len ELSE 0
       /\ TicksOf("up", d) = IF st = "up" THEN len ELSE 0
  BY <1>8, <1>9, <1>10
<1>12. /\ cell.down = IF st = "down" THEN NominalDay ELSE 0
       /\ cell.up = IF st = "up" THEN NominalDay ELSE 0
  BY <1>5, <1>10
<1> QED BY <1>2, <1>3, <1>11, <1>12

\* Grey, red and green mean what the log says, on days of any length, for
\* thresholds that are not longer than the shortest day.
THEOREM ColoursAreTrue == ASSUME MajorOutage <= ShortestDay
                          PROVE  Spec => []ColoursMatchTheLog
<1>1. HistoryInv => ColoursMatchTheLog
  <2> SUFFICES ASSUME HistoryInv, pc = "done", NEW d \in Day
               PROVE  LET down == TicksOf("down", d)
                          up == TicksOf("up", d)
                      IN  /\ (cells[d].colour = "nodata") <=> (down + up = 0)
                          /\ (cells[d].colour = "major")
                               <=> (down + up > 0 /\ down >= MajorOutage)
                          /\ (cells[d].colour = "ok") => (down = 0)
    BY DEF ColoursMatchTheLog
  <2> DEFINE cell == cells[d]
             down == TicksOf("down", d)
             up == TicksOf("up", d)
  <2>1. /\ CellOK(cell, now, d) /\ cell \in Cell
        /\ cell.colour = Colour(cell.down, cell.down + cell.up)
    BY DEF HistoryInv, DoneInv, CellOK
  <2>2. cell.down \in Nat /\ cell.up \in Nat
    BY <2>1 DEF Cell
  <2>3. /\ (cell.colour = "nodata") <=> (cell.down + cell.up = 0)
        /\ (cell.colour = "major")
             <=> (cell.down + cell.up > 0 /\ cell.down >= MajorOutage)
        /\ (cell.colour = "ok") => (cell.down = 0)
    BY <2>1, <2>2, ColourIs
  <2>4. CASE IsExact(cell, now, d)
    <3>1. cell.down = down /\ cell.up = up
      BY <2>4, AllIsCounted DEF HistoryInv
    <3> QED BY <2>3, <3>1
  <2>5. CASE IsWhole(cell, now, d)
    <3>1. /\ down \in Nat /\ up \in Nat
          /\ down + up = 0 <=> cell.down + cell.up = 0
          /\ down >= MajorOutage <=> cell.down >= MajorOutage
          /\ down = 0 <=> cell.down = 0
      BY <2>1, <2>5, WholeDaysKeepTheirColour DEF HistoryInv
    <3> HIDE DEF cell, down, up
    <3>2. down + up > 0 <=> cell.down + cell.up > 0
      BY <2>2, <3>1
    <3>3. /\ (cell.colour = "nodata") <=> (down + up = 0)
          /\ (cell.colour = "major") <=> (down + up > 0 /\ down >= MajorOutage)
          /\ (cell.colour = "ok") => (down = 0)
      BY <2>3, <3>1, <3>2
    <3> QED BY <3>3 DEF cell, down, up
  <2> QED BY <2>1, <2>4, <2>5 DEF CellOK
<1> QED BY <1>1, HistoryInvariant, PTL
=============================================================================
