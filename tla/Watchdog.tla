------------------------------ MODULE Watchdog ------------------------------
(***************************************************************************)
(* How a poller that no longer completes its cycles is found out and       *)
(* replaced: the poll loop (Poller.run), its readiness (Poller.healthy),   *)
(* the heartbeat (watchdog_task, sdnotify.py) and systemd's watchdog.      *)
(* Module Service has the process around it.                               *)
(*                                                                         *)
(* Abstractions.  Times are ages, in a unit of the instance: every timer   *)
(* counts from its event and stops counting where nothing compares it any  *)
(* further.  What a cycle does is left out; it completes, fails, or takes  *)
(* for ever (a timeout is per read, so a target that sends a little at a   *)
(* time can hold it).  The poller, the heartbeat and systemd's watchdog    *)
(* start together, when the server does.                                   *)
(***************************************************************************)
EXTENDS Integers

CONSTANT WatchdogSec  \* of the systemd unit; sdnotify reads it from WATCHDOG_USEC

ASSUME WatchdogIsPositive == WatchdogSec \in Nat \ {0}

VARIABLES interval,  \* polling.interval_seconds of the running process, 0: none runs
          age,       \* since poller_last_cycle_at, before a first cycle since started_at
          poll,      \* the loop: "idle" or "busy" with a cycle
          run,       \* since the cycle under way, or the last one, began
          beat,      \* since the heartbeat task last looked
          silence,   \* since systemd last got READY=1 or WATCHDOG=1
          blocked,   \* a call holds the event loop: no task goes on
          failed,    \* history: the last cycle failed
          rough      \* history: a cycle was slow, two failed in a row, or the loop blocked

watchVars == <<interval, age, poll, run, beat, silence, blocked, failed, rough>>

Least(m, n) == IF m < n THEN m ELSE n
Most(m, n) == IF m < n THEN n ELSE m

\* tick = max(1, period / 3)
Beat == Most(1, WatchdogSec \div 3)

\* A cycle is slow if it outlasts a heartbeat or the interval.
SlowFrom == Least(Beat, interval) + 1

\* Fault: an interval without a result is enough.
Healthy_One == age <= interval
\* healthy: the last completed cycle, or the start, is at most two intervals old.
Healthy == age <= 2 * interval
-----------------------------------------------------------------------------
Quiet ==
  /\ interval = 0 /\ age = 0 /\ poll = "idle" /\ run = 0 /\ beat = 0 /\ silence = 0
  /\ blocked = FALSE /\ failed = FALSE /\ rough = FALSE

\* The tasks start: the poller and the heartbeat are due at once.
StartWatch(i) ==
  /\ interval' = i
  /\ age' = 0
  /\ poll' = "idle"
  /\ run' = i
  /\ beat' = Beat
  /\ silence' = 0
  /\ blocked' = FALSE /\ failed' = FALSE /\ rough' = FALSE

\* The tasks are gone.
EndWatch ==
  /\ interval' = 0 /\ age' = 0 /\ poll' = "idle" /\ run' = 0 /\ beat' = 0 /\ silence' = 0
  /\ blocked' = FALSE /\ failed' = FALSE /\ rough' = FALSE

BeginCycle ==
  /\ ~blocked
  /\ poll = "idle"
  /\ run >= interval
  /\ poll' = "busy"
  /\ run' = 0
  /\ UNCHANGED <<interval, age, beat, silence, blocked, failed, rough>>

IsSlow == run >= SlowFrom

\* poller_last_cycle_at = utcnow(); the delay counts from the start of the cycle.
CompleteCycle ==
  /\ ~blocked
  /\ poll = "busy"
  /\ poll' = "idle"
  /\ age' = 0
  /\ failed' = FALSE
  /\ rough' = (rough \/ IsSlow)
  /\ UNCHANGED <<interval, run, beat, silence, blocked>>

\* An exception leaves run_cycle: the loop goes on, the time stays.
FailCycle ==
  /\ ~blocked
  /\ poll = "busy"
  /\ poll' = "idle"
  /\ failed' = TRUE
  /\ rough' = (rough \/ failed \/ IsSlow)
  /\ UNCHANGED <<interval, age, run, beat, silence, blocked>>

\* Fault: the heartbeat does not ask the poller.
SilenceAfterBeat_Always == 0
\* WATCHDOG=1, or the ping is withheld.
SilenceAfterBeat == IF Healthy THEN 0 ELSE silence

Heartbeat ==
  /\ ~blocked
  /\ beat >= Beat
  /\ beat' = 0
  /\ silence' = SilenceAfterBeat
  /\ UNCHANGED <<interval, age, poll, run, blocked, failed, rough>>

\* A call that does not return holds the loop, perhaps for ever.
Block ==
  /\ ~blocked
  /\ blocked' = TRUE
  /\ rough' = TRUE
  /\ UNCHANGED <<interval, age, poll, run, beat, silence, failed>>

Unblock ==
  /\ blocked
  /\ blocked' = FALSE
  /\ UNCHANGED <<interval, age, poll, run, beat, silence, failed, rough>>

\* WatchdogSec have passed in silence: systemd kills the process at once, or a
\* ping that is due at the same moment comes first.
WatchdogIsOver == silence >= WatchdogSec

\* No timer of the loop or of systemd is overdue.
Pass ==
  /\ ~(poll = "idle" /\ run >= interval /\ ~blocked)
  /\ ~(beat >= Beat /\ ~blocked)
  /\ ~WatchdogIsOver
  /\ age' = Least(age + 1, 2 * interval + WatchdogSec + 1)
  /\ run' = Least(run + 1, Most(interval, SlowFrom))
  /\ beat' = Least(beat + 1, Beat)
  /\ silence' = silence + 1
  /\ UNCHANGED <<interval, poll, blocked, failed, rough>>

WatchStep ==
  BeginCycle \/ CompleteCycle \/ FailCycle \/ Heartbeat \/ Block \/ Unblock \/ Pass
-----------------------------------------------------------------------------
WatchTypeOK ==
  /\ interval \in Nat /\ age \in Nat /\ run \in Nat
  /\ poll \in {"idle", "busy"}
  /\ beat \in 0..Beat /\ silence \in 0..WatchdogSec
  /\ blocked \in BOOLEAN /\ failed \in BOOLEAN /\ rough \in BOOLEAN

\* PLAN.md:437, a wedged poller gets us restarted.  However cycles hang, fail or
\* block the loop, no process runs on for longer than two intervals and the
\* watchdog period since a cycle was last completed.
WedgeIsBounded == age <= 2 * interval + WatchdogSec

\* A poller that is not wedged: it was not restarted for one cycle that failed.
Calm == ~rough /\ ~(poll = "busy" /\ IsSlow)
=============================================================================
