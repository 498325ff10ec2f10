----------------------------- MODULE PollCycle -----------------------------
(***************************************************************************)
(* The checks of the poll loop one by one (poller.py): run_cycle starts    *)
(* one check_one per service; a check validates its target in a worker     *)
(* thread, waits for the semaphore and then for a connection of the HTTP   *)
(* client, and ends up or down.  gather returns when all have ended, or    *)
(* raises as soon as one raised: the cycle is over, but the other checks   *)
(* go on as strays, beside those of the next cycle.                        *)
(*                                                                         *)
(* Abstractions.  The list of services does not change (module Aggregator  *)
(* changes it).  A timeout is an end with "down" that a request can always *)
(* have, except that a healthy target answers 200 once it is asked.  The   *)
(* worker threads are those of asyncio.to_thread; what else uses them      *)
(* (page, registration) is left out.                                       *)
(***************************************************************************)
EXTENDS Integers, FiniteSets

CONSTANTS Targets,  \* the services, numbered in ORDER BY name, host
          Settings  \* what the instance looks at, see Setting

\* targets: the registered ones; healthy: those that always answer 200 at once;
\* mayRaise: those whose validation may raise (resolver errors); permits:
\* polling.max_concurrent; connections: max_connections of the client; threads:
\* workers of the default executor; storeMayRaise: may record_check or set_meta
\* raise (database locked).
Setting ==
  [targets: SUBSET Targets, healthy: SUBSET Targets, mayRaise: SUBSET Targets,
   permits: Nat \ {0}, connections: Nat \ {0}, threads: Nat \ {0}, storeMayRaise: BOOLEAN]

ASSUME TargetsAreRanks == Targets \subseteq Nat /\ IsFiniteSet(Targets)
ASSUME SettingsAreSettings == Settings \subseteq Setting

\* Two generations of checks: those of the cycle and the strays of one before.
\* bound: a cycle with a failed check ends only when no older stray is left.
Generations == {0, 1}

VARIABLES cfg,   \* the setting of this behaviour; never changes
          pc,    \* run: "idle", "check" (in gather) or "record"
          gen,   \* the generation of the cycle under way
          task,  \* the stage of each check
          sem,   \* free permits of the semaphore, shared by all cycles
          todo   \* the results not yet stored

vars == <<cfg, pc, gen, task, sem, todo>>

Ended == {"up", "down", "raised"}
Stages == {"none", "queued", "validating", "waiting", "pooled", "reading"} \cup Ended
Checks == Generations \X Targets

At(stage) == {c \in Checks : task[c] = stage}
Requesting == At("pooled") \cup At("reading")
Other(g) == 1 - g
Running(g) == {t \in Targets : task[<<g, t>>] \notin Ended \cup {"none"}}
-----------------------------------------------------------------------------
Init ==
  /\ cfg \in Settings
  /\ pc = "idle"
  /\ gen = 0
  /\ task = [c \in Checks |-> "none"]
  /\ sem = cfg.permits
  /\ todo = {}

\* A check of the cycle keeps its result for gather, a stray's is dropped.
Move(c, stage) ==
  task' = [task EXCEPT ![c] = IF stage \in Ended /\ c[1] # gen THEN "none" ELSE stage]

\* Fault: a semaphore for every cycle.
PermitsAtStart_Fresh == cfg.permits
PermitsAtStart == sem

ThreadIsFree == Cardinality(At("validating")) < cfg.threads

\* to_thread(list_services), then gather starts check_one for each.
BeginCycle ==
  /\ pc = "idle"
  /\ ThreadIsFree
  /\ pc' = "check"
  /\ task' = [c \in Checks |-> IF c[1] = gen /\ c[2] \in cfg.targets THEN "queued" ELSE task[c]]
  /\ sem' = PermitsAtStart
  /\ UNCHANGED <<cfg, gen, todo>>

\* to_thread(check_target): outside the semaphore, and outside the try.
StartValidation(c) ==
  /\ task[c] = "queued"
  /\ ThreadIsFree
  /\ Move(c, "validating")
  /\ UNCHANGED <<cfg, pc, gen, sem, todo>>

Validate(c) ==
  /\ task[c] = "validating"
  /\ \/ Move(c, "waiting")
     \/ c[2] \notin cfg.healthy /\ Move(c, "down")
     \/ c[2] \in cfg.mayRaise /\ Move(c, "raised")
  /\ UNCHANGED <<cfg, pc, gen, sem, todo>>

\* Fault: a check does not wait for the semaphore.
PermitIsFree_Always == TRUE
PermitIsFree == sem > 0

Acquire(c) ==
  /\ task[c] = "waiting"
  /\ PermitIsFree
  /\ sem' = sem - 1
  /\ Move(c, "pooled")
  /\ UNCHANGED <<cfg, pc, gen, todo>>

Connect(c) ==
  /\ task[c] = "pooled"
  /\ Cardinality(At("reading")) < cfg.connections
  /\ Move(c, "reading")
  /\ UNCHANGED <<cfg, pc, gen, sem, todo>>

\* Fault: a request ends without giving back its permit.
Released_Lost == sem
Released == sem + 1

\* No connection became free within the timeout.
PoolTimeout(c) ==
  /\ task[c] = "pooled"
  /\ Cardinality(At("reading")) >= cfg.connections
  /\ sem' = Released
  /\ Move(c, "down")
  /\ UNCHANGED <<cfg, pc, gen, todo>>

\* Only 200 is up; another code, a timeout and any exception are down.
\* Fault: a failed request is tried again, with no end.
Answers_Retry(t) == IF t \in cfg.healthy THEN {"up"} ELSE {"up", "waiting"}
Answers(t) == IF t \in cfg.healthy THEN {"up"} ELSE {"up", "down"}

\* The response is read, up to 64 KiB, or it failed; async with releases both.
EndRequest(c) ==
  /\ task[c] = "reading"
  /\ \E outcome \in Answers(c[2]) : Move(c, outcome)
  /\ sem' = Released
  /\ UNCHANGED <<cfg, pc, gen, todo>>

\* gather raises the first exception: what still runs is stray from here on.
GatherRaises ==
  /\ pc = "check"
  /\ \E t \in Targets : task[<<gen, t>>] = "raised"
  /\ Running(Other(gen)) = {}
  /\ pc' = "idle"
  /\ gen' = Other(gen)
  /\ task' = [c \in Checks |-> IF task[c] \in Ended THEN "none" ELSE task[c]]
  /\ UNCHANGED <<cfg, sem, todo>>

GatherReturns ==
  /\ pc = "check"
  /\ \A t \in cfg.targets : task[<<gen, t>>] \in {"up", "down"}
  /\ pc' = "record"
  /\ todo' = cfg.targets
  /\ UNCHANGED <<cfg, gen, task, sem>>

\* to_thread(record_check), one service after the other.
Record ==
  /\ pc = "record"
  /\ todo # {}
  /\ ThreadIsFree
  /\ todo' = todo \ {CHOOSE t \in todo : \A u \in todo : t <= u}
  /\ UNCHANGED <<cfg, pc, gen, task, sem>>

EndCycle ==
  /\ pc' = "idle"
  /\ todo' = {}
  /\ task' = [c \in Checks |-> IF c[1] = gen THEN "none" ELSE task[c]]
  /\ UNCHANGED <<cfg, gen, sem>>

Finish == pc = "record" /\ todo = {} /\ ThreadIsFree /\ EndCycle

RecordRaises == pc = "record" /\ cfg.storeMayRaise /\ EndCycle

CheckStep(c) ==
  StartValidation(c) \/ Validate(c) \/ Acquire(c) \/ Connect(c) \/ PoolTimeout(c) \/ EndRequest(c)

LoopStep == BeginCycle \/ GatherRaises \/ GatherReturns \/ Record \/ Finish

Next == LoopStep \/ RecordRaises \/ \E c \in Checks : CheckStep(c)

\* The loop and the threads go on and every request ends, for each read has a
\* timeout and the body a limit.  The executor and the semaphore serve those
\* that wait in their order: whoever could be served again and again is.
Fairness ==
  /\ SF_vars(LoopStep)
  /\ \A c \in Checks : SF_vars(CheckStep(c))

Spec == Init /\ [][Next]_vars /\ Fairness
-----------------------------------------------------------------------------
\* Stages and results keep to their kinds, and the semaphore to its permits.
TypeOK ==
  /\ cfg \in Settings
  /\ pc \in {"idle", "check", "record"}
  /\ gen \in Generations
  /\ task \in [Checks -> Stages]
  /\ sem \in 0..cfg.permits
  /\ todo \subseteq Targets

\* Never more than max_concurrent requests are under way, also while checks of
\* an aborted cycle are still at work beside those of the next.
RequestsAreBounded == Cardinality(Requesting) <= cfg.permits

\* A permit is free or held by a request, whichever way requests ended.
NoPermitIsLost == sem + Cardinality(Requesting) = cfg.permits

\* A target that answers 200 is never found down: given as many connections as
\* permits, no check of it ends in the timeout of the connection pool, also not
\* beside the strays of a cycle that was aborted.
HealthyIsNeverDown ==
  cfg.connections >= cfg.permits =>
    \A c \in Checks : c[2] \in cfg.healthy => task[c] # "down"

\* Results of the cycle t belongs to are being stored, and t's is stored.
Stored(t) == pc = "record" /\ t \notin todo

\* As long as neither a validation nor the store raises, cycles are completed again
\* and again: the loop of Poller.run does not get stuck behind its own checks and
\* threads, however few permits, connections and threads there are.
CyclesComplete ==
  cfg.mayRaise = {} /\ ~cfg.storeMayRaise => []<>(pc = "record" /\ todo = {})

\* PLAN.md:307, one service's exception never aborts the cycle: a service whose
\* own check does not raise is stored again and again.
OthersAreStored ==
  \A t \in Targets : t \in cfg.targets \ cfg.mayRaise => []<>Stored(t)

\* A check that was started ends, also as a stray: nothing waits for ever.
ChecksEnd ==
  \A c \in Checks : task[c] = "queued" ~> task[c] \in Ended \cup {"none"}
=============================================================================
