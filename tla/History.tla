------------------------------ MODULE History ------------------------------
(***************************************************************************)
(* The uptime strip of one service (web/history.py): build_histories asks  *)
(* the store for the state before the window and the events in it,         *)
(* _segments cuts the window where the status changes, build_history cuts  *)
(* the segments at local midnights and adds the pieces up per day.  One    *)
(* step is one turn of a loop.  The inputs are chosen by Init.             *)
(*                                                                         *)
(* A Python datetime compares by the instant, but the difference of two    *)
(* datetimes of the same zone is that of their wall clocks.  So a time is  *)
(* an instant and whether it is expressed in the display zone.  Here only  *)
(* midnights are; now and the times of the store are UTC.                  *)
(*                                                                         *)
(* Abstractions.  The log holds the events of one service in order of time *)
(* and of id, which is the same order as long as no event is dated back    *)
(* (EventsInOrder of module Aggregator).  Reasons and wording are left     *)
(* out.  Times and durations are in ticks.                                 *)
(***************************************************************************)
EXTENDS Integers, Sequences, FiniteSets

CONSTANTS Days,         \* the number of cells
          NominalDay,   \* ticks from midnight to midnight on the wall clock
          ShortestDay,  \* ticks a day may really take
          LongestDay,
          Earlier,      \* ticks of the log before the window
          MaxEvents,    \* bound: events in the log
          MajorOutage   \* display.major_outage_minutes

ASSUME DaysAreGiven == Days \in Nat \ {0}
ASSUME DaysHaveALength ==
  /\ ShortestDay \in Nat \ {0} /\ LongestDay \in Nat
  /\ NominalDay \in ShortestDay..LongestDay
ASSUME ThresholdsAreNatural == Earlier \in Nat /\ MaxEvents \in Nat /\ MajorOutage \in Nat

Statuses == {"unknown", "up", "down"}
Day == 1..Days

VARIABLES midnight,    \* the instant each day begins, and that after the last
          now,         \* window_end
          registered,  \* first_registered_at
          log,         \* all events of the service in the store
          pc,          \* "split" (_segments), "add" (build_history), "done"
          events,      \* those the first loop has still to see
          open,        \* cursor, status and began of the first loop
          segs,        \* the segments the second loop has still to see
          cells        \* a cell for each day

inputs == <<midnight, now, registered, log>>
vars == <<inputs, pc, events, open, segs, cells>>

Utc(t) == [t |-> t, local |-> FALSE]
Midnight(d) == [t |-> midnight[d], local |-> TRUE]

\* Python's max and min: the first one, unless the second is greater, smaller.
Later(a, b) == IF b.t > a.t THEN b ELSE a
Sooner(a, b) == IF b.t < a.t THEN b ELSE a

\* The local date of an instant of the window.
DateOf(t) == CHOOSE d \in Day : midnight[d] <= t /\ t < midnight[d + 1]

\* Fault: the midnight the day began with.
DayEnd_SameDay(t) == Midnight(DateOf(t))
DayEnd(t) == Midnight(DateOf(t) + 1)

\* Both in the display zone: the wall clock shows whole days.
Span(a, b) ==
  IF a.local /\ b.local
    THEN NominalDay * Cardinality({d \in Day : a.t <= midnight[d] /\ midnight[d] < b.t})
    ELSE b.t - a.t
-----------------------------------------------------------------------------
EmptyCell == [down |-> 0, up |-> 0, unknown |-> 0, incidents |-> 0, colour |-> "nodata"]

\* The last event before start, 0 if there is none.
LastBefore(start) ==
  LET before == {i \in DOMAIN log : log[i].at < start}
  IN  IF before = {} THEN 0 ELSE CHOOSE i \in before : \A j \in before : j <= i

StatusAfter(n) == IF n = 0 THEN "unknown" ELSE log[n].to

\* status_before: the last event before the window, or nothing: unknown.
StatusBefore(start) == StatusAfter(LastBefore(start))

\* events_since: the others.
EventsSince(start) == SubSeq(log, LastBefore(start) + 1, Len(log))

First == Later(Midnight(1), Utc(registered))

IsOrdered(seq) == \A i, j \in DOMAIN seq : i < j => seq[i].at <= seq[j].at

\* A result may be stored after now was read and before the log is.
Logs(end) ==
  {l \in UNION {[1..n -> [at : 0..end, to : Statuses]] : n \in 0..MaxEvents} :
     IsOrdered(l)}

\* Day d + 1 begins when day d is over.  bound: one clock change in the window.
Midnights ==
  {m \in [1..(Days + 1) -> Earlier..(Earlier + Days * LongestDay)] :
     /\ m[1] = Earlier
     /\ \A d \in Day : m[d + 1] - m[d] \in ShortestDay..LongestDay
     /\ Cardinality({d \in Day : m[d + 1] - m[d] # NominalDay}) <= 1}

Init ==
  /\ midnight \in Midnights
  /\ now \in midnight[Days]..(midnight[Days + 1] - 1)
  /\ registered \in 0..now
  /\ log \in Logs(now + 1)
  /\ pc = "split"
  /\ events = EventsSince(midnight[1])
  /\ open = [start |-> First, status |-> StatusBefore(midnight[1]), began |-> FALSE]
  /\ segs = <<>>
  /\ cells = [d \in Day |-> EmptyCell]

Segment(end) == [start |-> open.start, end |-> end, status |-> open.status, began |-> open.began]

\* Fault: also a segment without any length.
Closed_Always(end) == Append(segs, Segment(end))
Closed(end) == IF end.t > open.start.t THEN Append(segs, Segment(end)) ELSE segs

Clipped(at) == Later(Utc(at), First)

SplitAtEvent ==
  /\ pc = "split"
  /\ events # <<>>
  /\ LET at == Clipped(Head(events).at)
     IN  /\ at.t < now
         /\ segs' = Closed(at)
         /\ open' = [start |-> at, status |-> Head(events).to, began |-> TRUE]
  /\ events' = Tail(events)
  /\ UNCHANGED <<inputs, pc, cells>>

\* No event is left, or the next is not before now.
SplitAtNow ==
  /\ pc = "split"
  /\ events # <<>> => Clipped(Head(events).at).t >= now
  /\ segs' = Closed(Utc(now))
  /\ pc' = "add"
  /\ UNCHANGED <<inputs, events, open, cells>>

\* Fault: an incident is counted on every day it lasts.
Begins_EveryDay(seg) == TRUE
Begins(seg) == seg.began

WithPiece(cell, seg, span) ==
  CASE seg.status = "down" ->
         [cell EXCEPT !.down = @ + span, !.incidents = @ + (IF Begins(seg) THEN 1 ELSE 0)]
    [] seg.status = "up" -> [cell EXCEPT !.up = @ + span]
    [] seg.status = "unknown" -> [cell EXCEPT !.unknown = @ + span]

\* Fault: a segment belongs to the day it begins in.
PieceEnd_Segment(seg) == seg.end
PieceEnd(seg) == Sooner(seg.end, DayEnd(seg.start.t))

\* The rest of a segment does not begin at an event.
Rest(seg, end) == [start |-> end, end |-> seg.end, status |-> seg.status, began |-> FALSE]

AddPiece ==
  /\ pc = "add"
  /\ segs # <<>>
  /\ LET seg == Head(segs)
         end == PieceEnd(seg)
     IN  /\ cells' = [cells EXCEPT ![DateOf(seg.start.t)] =
                        WithPiece(@, seg, Span(seg.start, end))]
         /\ segs' = IF end.t < seg.end.t THEN <<Rest(seg, end)>> \o Tail(segs)
                                         ELSE Tail(segs)
  /\ UNCHANGED <<inputs, pc, events, open>>

\* Fault: a day is red only above the threshold.
IsMajor_Above(down) == down > MajorOutage
IsMajor(down) == down >= MajorOutage

Colour(down, monitored) ==
  CASE monitored = 0 -> "nodata"
    [] monitored > 0 /\ IsMajor(down) -> "major"
    [] monitored > 0 /\ ~IsMajor(down) /\ down > 0 -> "minor"
    [] OTHER -> "ok"

ColourCells ==
  /\ pc = "add"
  /\ segs = <<>>
  /\ cells' = [d \in Day |->
       [cells[d] EXCEPT !.colour = Colour(cells[d].down, cells[d].down + cells[d].up)]]
  /\ pc' = "done"
  /\ UNCHANGED <<inputs, events, open, segs>>

Returned == pc = "done" /\ UNCHANGED vars

Next == SplitAtEvent \/ SplitAtNow \/ AddPiece \/ ColourCells \/ Returned

\* A pure function of one thread: it runs on.
Spec == Init /\ [][Next]_vars /\ WF_vars(Next)
-----------------------------------------------------------------------------
(***************************************************************************)
(* The reference: the status of every single tick.                         *)
(***************************************************************************)
Watched(d) == {t \in midnight[d]..(midnight[d + 1] - 1) : registered <= t /\ t < now}

StatusAt(t) == StatusBefore(t + 1)

TicksOf(status, d) == Cardinality({t \in Watched(d) : StatusAt(t) = status})

\* Segments have a length and end by now; amounts are not negative.
TypeOK ==
  /\ pc \in {"split", "add", "done"}
  /\ open.start.t <= now
  /\ \A i \in DOMAIN segs : segs[i].start.t < segs[i].end.t /\ segs[i].end.t <= now
  /\ \A d \in Day : cells[d] \in [down : Nat, up : Nat, unknown : Nat, incidents : Nat,
                                  colour : {"nodata", "ok", "minor", "major"}]

AmountsMatch(d) ==
  /\ cells[d].down = TicksOf("down", d)
  /\ cells[d].up = TicksOf("up", d)
  /\ cells[d].unknown = TicksOf("unknown", d)

\* Every tick of the window is counted once, on its day, with the status the
\* log gives it; nothing before the registration and nothing after now is.
CellsMatchTheLog == pc = "done" => \A d \in Day : AmountsMatch(d)

\* On a day without a clock change the amounts are exact, whatever the clock
\* does on the days around it.
OrdinaryDaysAreExact ==
  pc = "done" =>
    \A d \in Day : midnight[d + 1] - midnight[d] = NominalDay => AmountsMatch(d)

\* A day has as many incidents as downs began in it, at an event or at the
\* registration when the event lies before; one carried over midnight or into
\* the window is not counted again, one without any length never.
IncidentsMatchTheLog ==
  pc = "done" => \A d \in Day :
    cells[d].incidents =
      Cardinality({t \in Watched(d) : /\ StatusAt(t) = "down"
                                      /\ \E i \in DOMAIN log :
                                           /\ log[i].at >= midnight[1]
                                           /\ t = (IF log[i].at < registered
                                                     THEN registered ELSE log[i].at)})

\* The module comment of history.py: grey when nothing was monitored, red when
\* down for the threshold or longer, green only without any downtime.  Also on
\* the days of another length, if the threshold is not longer than they are: a
\* day down for 23 hours is counted as 24.
ColoursMatchTheLog ==
  pc = "done" => \A d \in Day :
    LET down == TicksOf("down", d)
        up == TicksOf("up", d)
    IN  /\ (cells[d].colour = "nodata") <=> (down + up = 0)
        /\ (cells[d].colour = "major") <=> (down + up > 0 /\ down >= MajorOutage)
        /\ (cells[d].colour = "ok") => (down = 0)

\* Both loops end, also when the clock changes.
Terminates == <>(pc = "done")
=============================================================================
