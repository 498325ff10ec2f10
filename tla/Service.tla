------------------------------ MODULE Service ------------------------------
(***************************************************************************)
(* The life of the process (runtime.py: cmd_run, serve, _Server;           *)
(* netbind.py) as a systemd unit: from the configuration over the          *)
(* database, the address and the port to serving, and from a signal, a     *)
(* watchdog or a crash to its end.  While it serves, module Watchdog runs. *)
(* It implements module Unit.                                              *)
(*                                                                         *)
(* Abstractions.  Time counts while the process serves; a start or a stop  *)
(* has steps instead.  What the network, the file system and the database  *)
(* answer is chosen each time they are asked.  What worker threads do with *)
(* the store is left to the modules on it, until the server ends: then any *)
(* combination of operations may be under way.                             *)
(***************************************************************************)
EXTENDS Watchdog, Config

CONSTANTS Files,     \* the configuration files the operator may have written
          Attempts   \* of resolve_bind

ASSUME AttemptsArePositive == Attempts \in Nat \ {0}

VARIABLES main,    \* how far the process is
          wanted,  \* does the operator want it to run
          code,    \* the exit code: of the last process, or the one this one is to end with
          file,    \* the configuration file at the start, none once it is loaded
          bind,    \* server.bind, none once the address is found
          addr,    \* the kind of address that was found, none once the server listens on it
          tries,   \* attempts of resolve_bind
          store,   \* Storage: "open" or "closed"
          jobs     \* the operations of worker threads when the server has ended

lifeVars == <<main, wanted, code, file, bind, addr, tries, store, jobs>>
vars == <<lifeVars, watchVars>>

\* Two threads, each with an operation of a background task or of a request.
Jobs == {"one", "another"}
NoJobs == [j \in Jobs |-> "none"]
\* queued for a thread, waiting for the lock, inside its transaction.
Stages == {"none", "queued", "waiting", "inside"}
Flights == {f \in [Jobs -> Stages] : ~\A j \in Jobs : f[j] = "inside"}

Starting == {"load", "open", "resolve", "probe", "prepare", "listen"}
Ending == {"drain", "cancel", "close", "join"}
-----------------------------------------------------------------------------
Init ==
  /\ main = "off" /\ wanted = FALSE /\ code = "none"
  /\ file = {} /\ bind = "none" /\ addr = "none" /\ tries = 0
  /\ store = "closed" /\ jobs = NoJobs
  /\ Quiet

\* systemctl start; stop of a unit that is not running; StartLimitBurst is reached.
Wish ==
  /\ main = "off"
  /\ wanted' = ~wanted
  /\ UNCHANGED <<main, code, file, bind, addr, tries, store, jobs, watchVars>>

\* ExecStart, or Restart=on-failure after RestartSec.
Exec ==
  /\ main = "off"
  /\ wanted
  /\ main' = "load"
  /\ code' = "none"
  /\ \E f \in Files : file' = {f}
  /\ UNCHANGED <<wanted, bind, addr, tries, store, jobs, watchVars>>

\* The process is gone with all it held in memory.
Exit(c) ==
  /\ main' = "off"
  /\ code' = c
  /\ file' = {} /\ bind' = "none" /\ addr' = "none" /\ tries' = 0
  /\ store' = "closed"
  /\ jobs' = NoJobs
  /\ EndWatch
  /\ UNCHANGED wanted

\* _load: exit "config" with all problems, or the settings.  Watchdog keeps the interval.
\* What load_config does not expect (bytes that are not UTF-8, an unreadable directory, an
\* integer beyond the floats) is not a ConfigError and ends the interpreter with 1.
Load ==
  /\ main = "load"
  /\ \/ Exit("error")
     \/ \E f \in file : Problems(f) # {} /\ Exit("config")
     \/ \E f \in file :
          /\ Problems(f) = {}
          /\ main' = "open"
          /\ bind' = Settings(f).bind
          /\ interval' = Settings(f).interval_seconds
          /\ file' = {}
          /\ UNCHANGED <<wanted, code, addr, tries, store, jobs,
                         age, poll, run, beat, silence, blocked, failed, rough>>

\* setup_logging, whose exceptions nobody catches, then Storage and migrate; any
\* exception of these is exit "config".
OpenStore ==
  /\ main = "open"
  /\ \/ Exit("error")
     \/ Exit("config")
     \/ /\ main' = "resolve"
        /\ store' = "open"
        /\ tries' = 1
        /\ UNCHANGED <<wanted, code, file, bind, addr, jobs, watchVars>>

Resolved(kind) ==
  /\ main' = "probe"
  /\ bind' = "none"
  /\ addr' = kind
  /\ tries' = 0
  /\ UNCHANGED <<wanted, code, file, store, jobs, watchVars>>

\* The settings that resolve_bind does not look up: they are addresses.
IsAddress == bind \in {"explicit", "disguised"}

\* An address is bound as it is, if a socket can be bound to it: also the wildcard in
\* another spelling, for FORBIDDEN_BINDS is compared as text here too.
ResolveExplicit ==
  /\ main = "resolve"
  /\ IsAddress
  /\ Exit("bind") \/ Resolved("explicit")

\* One of the detectors finds the address; what they raise is not found.
Detect ==
  /\ main = "resolve"
  /\ ~IsAddress
  /\ Resolved("tailscale")

\* Fault: the attempts are not counted.
NextTry_Same == tries
NextTry == tries + 1

DetectAgain ==
  /\ main = "resolve"
  /\ ~IsAddress
  /\ tries < Attempts
  /\ tries' = NextTry
  /\ UNCHANGED <<main, wanted, code, file, bind, addr, store, jobs, watchVars>>

\* auto falls back to 127.0.0.1, tailscale does not.
DetectInVain ==
  /\ main = "resolve"
  /\ ~IsAddress
  /\ tries = Attempts
  /\ IF bind = "tailscale" THEN Exit("bind") ELSE Resolved("loopback")

\* port_in_use.
Probe ==
  /\ main = "probe"
  /\ \/ Exit("bind")
     \/ /\ main' = "prepare"
        /\ UNCHANGED <<wanted, code, file, bind, addr, tries, store, jobs, watchVars>>

\* serve: detect_monitoring_gap and the own row, before the try; an exception ends
\* the interpreter with 1.
Prepare ==
  /\ main = "prepare"
  /\ \/ Exit("error")
     \/ /\ main' = "listen"
        /\ UNCHANGED <<wanted, code, file, bind, addr, tries, store, jobs, watchVars>>

\* The finally of serve: STOPPING=1, then the tasks are cancelled.
Leave(c) ==
  /\ main' = "cancel"
  /\ code' = c
  /\ jobs' \in Flights
  /\ EndWatch
  /\ UNCHANGED <<wanted, file, bind, addr, tries, store>>

\* What serve returns after a stop: EXIT_OK, for the server had started.
\* Fault: the signal of a stop is raised again after the cleanup, as uvicorn does.
CodeOfStop_Raised == "signal"
CodeOfStop == "ok"

\* The server listens and reports READY=1; if a signal has come it ends at once,
\* and if the port was taken since the probe, uvicorn exits.
Listen ==
  /\ main = "listen"
  /\ wanted
  /\ main' = "serving"
  /\ StartWatch(interval)
  /\ addr' = "none"
  /\ UNCHANGED <<wanted, code, file, bind, tries, store, jobs>>

\* uvicorn exits; cmd_run returns EXIT_BIND.  Fault: it returns as after a stop.
CodeOfTakenPort_Clean == "ok"
CodeOfTakenPort == "bind"

ListenInVain == main = "listen" /\ Leave(CodeOfTakenPort)

\* should_exit was set while the server started.
ListenNoMore == main = "listen" /\ ~wanted /\ Leave(CodeOfStop)

\* SIGTERM.  Before the server runs it kills the process; then it is noted, and
\* acted upon as soon as the loop is free.
Signal ==
  /\ main # "off"
  /\ wanted
  /\ wanted' = FALSE
  /\ UNCHANGED <<main, code, file, bind, addr, tries, store, jobs, watchVars>>

SignalKills == main \in Starting \ {"listen"} /\ ~wanted /\ Exit("killed")

\* The server stops accepting and waits for its requests.
Drain ==
  /\ main = "serving"
  /\ ~wanted
  /\ ~blocked
  /\ main' = "drain"
  /\ EndWatch
  /\ UNCHANGED <<wanted, code, file, bind, addr, tries, store, jobs>>

\* The requests have ended, five seconds have passed, or a second signal came.
EndDrain == main = "drain" /\ Leave(CodeOfStop)

\* cancel and gather: what no thread has begun is dropped, what runs goes on.
Cancel ==
  /\ main = "cancel"
  /\ main' = "close"
  /\ jobs' = [j \in Jobs |-> IF jobs[j] = "queued" THEN "none" ELSE jobs[j]]
  /\ UNCHANGED <<wanted, code, file, bind, addr, tries, store, watchVars>>

\* Fault: the lock is not asked for.
LockIsFree_Always == TRUE
LockIsFree == \A j \in Jobs : jobs[j] # "inside"

\* Storage.close.
Close ==
  /\ main = "close"
  /\ LockIsFree
  /\ main' = "join"
  /\ store' = "closed"
  /\ UNCHANGED <<wanted, code, file, bind, addr, tries, jobs, watchVars>>

Moved(j, stage) ==
  /\ jobs' = [jobs EXCEPT ![j] = stage]
  /\ UNCHANGED <<main, wanted, code, file, bind, addr, tries, store, watchVars>>

\* A thread takes what is queued, then the lock, and commits; on a closed
\* connection the first statement raises, and the lock is free again.
Take(j) == jobs[j] = "queued" /\ Moved(j, "waiting")

Enter(j) ==
  /\ jobs[j] = "waiting"
  /\ LockIsFree
  /\ Moved(j, IF store = "open" THEN "inside" ELSE "none")

\* Fault: the lock is not given back.
Committed_Locked == "inside"
Committed == "none"

Commit(j) == jobs[j] = "inside" /\ Moved(j, Committed)

\* asyncio.run waits for the threads of the executor.
Join ==
  /\ main = "join"
  /\ jobs = NoJobs
  /\ Exit(code)

\* systemd after TimeoutStopSec.
StopTimeout == main # "off" /\ ~wanted /\ Exit("killed")

WatchdogKills == main = "serving" /\ WatchdogIsOver /\ Exit("killed")

\* A crash, a kill, no memory; also a signal while the handlers are gone again.
Crash == main # "off" /\ Exit("killed")

StartStep ==
  \/ Load \/ OpenStore \/ ResolveExplicit \/ DetectAgain \/ DetectInVain
  \/ Probe \/ Prepare \/ Listen \/ ListenInVain \/ ListenNoMore

StopStep ==
  \/ SignalKills \/ Drain \/ EndDrain \/ Cancel \/ Close \/ Join

JobStep(j) == Take(j) \/ Enter(j) \/ Commit(j)

Serving(step) == main = "serving" /\ step /\ UNCHANGED lifeVars

Next ==
  \/ Wish \/ Exec \/ Signal \/ Detect \/ StartStep \/ StopStep
  \/ \E j \in Jobs : JobStep(j)
  \/ Serving(WatchStep)
  \/ StopTimeout \/ WatchdogKills \/ Crash

\* The interpreter and systemd go on, and a thread ends what it has begun.  Time
\* passes, and a loop that is free attends to its timers.  No address need be
\* found, no cycle need end and no loop need be freed.
Fairness ==
  /\ WF_vars(StartStep)
  /\ WF_vars(StopStep)
  /\ \A j \in Jobs : WF_vars(JobStep(j))
  /\ SF_vars(Serving(Pass))
  /\ SF_vars(Serving(BeginCycle))
  /\ SF_vars(Serving(Heartbeat))
  /\ SF_vars(Drain)
  /\ WF_vars(WatchdogKills)
  /\ WF_vars(blocked /\ StopTimeout)

Spec == Init /\ [][Next]_vars /\ Fairness
-----------------------------------------------------------------------------
\* Every variable keeps to its kind; a database is open only while a process runs.
ServiceTypeOK ==
  /\ WatchTypeOK
  /\ main \in {"off", "serving"} \cup Starting \cup Ending
  /\ wanted \in BOOLEAN
  /\ code \in {"none", "ok", "config", "bind", "error", "killed"}
  /\ file # {} => main = "load"
  /\ bind \in {"none"} \cup Allowed("bind")
  /\ addr \in {"none", "explicit", "tailscale", "loopback"}
  /\ tries \in 0..Attempts
  /\ store \in {"open", "closed"}
  /\ jobs \in [Jobs -> Stages]
  /\ store = "open" => main \notin {"off", "load", "open", "join"}

\* Whatever mistakes a file combines (a value of the wrong type is replaced by its
\* default before the checks that compare it with others, and the check for an empty
\* list is skipped when a problem is known), what load_config lets pass is what
\* PLAN.md:350 and README.md:62 ask for, but for nan and for other spellings of the
\* wildcard, each in its own key.
NothingElseSlipsThrough ==
  \A f \in file : Problems(f) = {} =>
    \A k \in Options : Kept(k, Settings(f), Token(f)) \/ Evades(Settings(f), k)

\* A transaction under way when the server ends is committed before the store is
\* closed; an operation that comes later does not begin one.
NothingInsideAClosedStore ==
  (\E j \in Jobs : jobs[j] = "inside") => store = "open"

\* Failures that are not a wedge do not cost the process: systemd's watchdog never
\* kills it while cycles fail one at a time and each ends before the next is due
\* and before a heartbeat has passed, if two intervals last for a heartbeat.  If they
\* do not (WatchdogSec=90 and an interval below 15 seconds), such failures between the
\* same looks of the heartbeat are all it sees, and may end the process.
CalmIsNeverKilled ==
  [][WatchdogKills => ~Calm \/ 2 * interval < Beat]_vars

\* PLAN.md:437: a poller that completes no cycle is replaced, or recovers; it does
\* not go on like that.
UnhealthyEnds ==
  main = "serving" /\ ~Healthy ~> main # "serving" \/ Healthy

\* Every start ends: the process serves or has exited, also when no address is
\* ever found and when a signal comes meanwhile.
StartEnds == main = "load" ~> main \in {"serving", "off"}

\* A stop that was asked for ends, and unless something blocks the loop the process
\* ends by itself: neither the lock nor the threads keep it.
StopEnds == ~wanted ~> main = "off"

\* The process as its unit: an end that a refused port has brought about is still
\* part of the start.
UnitState ==
  CASE main = "off" -> "dead"
    [] main = "serving" -> "active"
    [] main \in Starting \/ (main \in Ending /\ code = "bind") -> "activating"
    [] OTHER -> "deactivating"

U == INSTANCE Unit WITH
       state <- UnitState,
       code <- IF main = "off" THEN code ELSE "none",
       wanted <- wanted

\* The exit codes and restarts README.md:219 promises: a refusal comes only from a
\* start, a clean end only after a stop, and no stop is followed by a restart.
ImplementsUnit == U!UnitSpec
=============================================================================
