--------------------------- MODULE ServiceProofs ---------------------------
(***************************************************************************)
(* Theorems about the life of the process, for every watchdog period,      *)
(* every set of configuration files and any number of attempts.  The       *)
(* inductive invariant says which values the variables have in each phase, *)
(* that the age of the last cycle is never more than two intervals ahead   *)
(* of the silence, and that no transaction is inside a closed store.       *)
(* A second one says how long a calm process can have been silent.         *)
(***************************************************************************)
EXTENDS Service, TLAPS

\* What the last cycle may be behind: two intervals, and what systemd has not heard.
WatchInv ==
  /\ WatchTypeOK
  /\ age <= 2 * interval + silence
  /\ main # "serving" => age = 0

\* The store is open from its phase on until it is closed, and a transaction is
\* inside it only then; a process on its way out has its exit code, one before it
\* has none.
LifeInv ==
  /\ main \in {"off", "serving"} \cup Starting \cup Ending
  /\ wanted \in BOOLEAN
  /\ code \in {"none", "ok", "config", "bind", "error", "killed"}
  /\ bind \in {"none"} \cup Allowed("bind")
  /\ addr \in {"none", "explicit", "tailscale", "loopback"}
  /\ tries \in 0..Attempts
  /\ jobs \in [Jobs -> Stages]
  /\ file # {} => main = "load"
  /\ store = (IF main \in {"off", "load", "open", "join"} THEN "closed" ELSE "open")
  /\ main \in Starting \cup {"serving", "drain"} => code = "none"
  /\ main \in {"cancel", "close", "join"} => code \in {"ok", "bind"}
  /\ NothingInsideAClosedStore

ServiceInv == WatchInv /\ LifeInv
-----------------------------------------------------------------------------
LEMMA AllowedValues ==
  /\ Allowed("bind") = {"auto", "tailscale", "explicit", "disguised"}
  /\ Allowed("port") = Ports
  /\ Allowed("interval_seconds") = MinInterval..MaxInterval
  /\ Allowed("history_days") = 1..365
  /\ Allowed("db_path") = {"usable"} /\ Allowed("path") = {"usable"}
  /\ Allowed("allowed_target_cidrs") = SUBSET {"network"}
  /\ Allowed("timeout_seconds") = {Nan} \cup (Nat \ {0})
  /\ Allowed("self_register_interval_seconds") = {Nan} \cup (Nat \ {0})
  /\ Allowed("max_concurrent") = Nat \ {0}
  /\ Allowed("retention_days") = Nat \ {0}
<1>1. Allowed("bind") = {"auto", "tailscale", "explicit", "disguised"}
  BY DEF Allowed, Floats
<1>2. Allowed("port") = Ports
  BY DEF Allowed, Floats
<1>3. Allowed("interval_seconds") = MinInterval..MaxInterval
  BY DEF Allowed, Floats
<1>4. Allowed("history_days") = 1..365
  BY DEF Allowed, Floats
<1>5. Allowed("db_path") = {"usable"} /\ Allowed("path") = {"usable"}
  BY DEF Allowed, Floats
<1>6. Allowed("allowed_target_cidrs") = SUBSET {"network"}
  BY DEF Allowed, Floats
<1>7. Allowed("timeout_seconds") = {Nan} \cup (Nat \ {0})
  BY DEF Allowed, Floats
<1>8. Allowed("self_register_interval_seconds") = {Nan} \cup (Nat \ {0})
  BY DEF Allowed, Floats
<1>9. Allowed("max_concurrent") = Nat \ {0}
  BY DEF Allowed, Floats
<1>10. Allowed("retention_days") = Nat \ {0}
  BY DEF Allowed, Floats
<1> QED BY <1>1, <1>2, <1>3, <1>4, <1>5, <1>6, <1>7, <1>8, <1>9, <1>10

LEMMA OptionNames ==
  /\ "bind" \in Options /\ "port" \in Options /\ "db_path" \in Options
  /\ "interval_seconds" \in Options /\ "timeout_seconds" \in Options
  /\ "max_concurrent" \in Options /\ "require_token" \in Options
  /\ "allowed_target_cidrs" \in Options /\ "retention_days" \in Options
  /\ "history_days" \in Options /\ "path" \in Options
  /\ "self_register_interval_seconds" \in Options
BY DEF Options, Defaults

\* Checks between keys are not fooled by mistyped values, nor by their order: in a file
\* without problems every key keeps what the documents ask, or evades the checks itself.
LEMMA FilesWithoutProblems ==
  ASSUME NEW f, Problems(f) = {}
  PROVE  /\ \A k \in Options : Kept(k, Settings(f), Token(f)) \/ Evades(Settings(f), k)
         /\ Settings(f).bind \in Allowed("bind")
         /\ Settings(f).interval_seconds \in Nat
<1> DEFINE s == Settings(f)
<1>1. MistypedKeys(f) = {} /\ OutOfRange(f) = {} /\ ~f.stray
  BY DEF Problems
<1>2. ~TimeoutTooLong(f) /\ ~HistoryTooLong(f) /\ ~NoNetworkFound(f) /\ ~TokenIsMissing(f)
  BY DEF Problems
<1>3. \A k \in Options : s[k] = Read(f, k) /\ Read(f, k) \in Allowed(k)
  BY <1>1 DEF OutOfRange, Settings
<1>4. /\ s.bind = Read(f, "bind") /\ s.bind \in Allowed("bind")
      /\ s.port \in Allowed("port")
      /\ s.interval_seconds = Read(f, "interval_seconds")
      /\ s.interval_seconds \in Allowed("interval_seconds")
      /\ s.timeout_seconds = Read(f, "timeout_seconds")
      /\ s.timeout_seconds \in Allowed("timeout_seconds")
      /\ s.self_register_interval_seconds \in Allowed("self_register_interval_seconds")
      /\ s.max_concurrent \in Allowed("max_concurrent")
      /\ s.retention_days = Read(f, "retention_days")
      /\ s.retention_days \in Allowed("retention_days")
      /\ s.history_days = Read(f, "history_days")
      /\ s.history_days \in Allowed("history_days")
      /\ s.allowed_target_cidrs = Read(f, "allowed_target_cidrs")
      /\ s.allowed_target_cidrs \in Allowed("allowed_target_cidrs")
      /\ s.require_token = Read(f, "require_token")
      /\ s.db_path \in Allowed("db_path")
      /\ s.path \in Allowed("path")
  <2> HIDE DEF s
  <2> QED BY <1>3, OptionNames, Zenon
<1> HIDE DEF s
<1>5. /\ s.bind \in {"auto", "tailscale", "explicit", "disguised"}
      /\ s.port \in Ports
      /\ s.interval_seconds \in MinInterval..MaxInterval
      /\ s.timeout_seconds \in {Nan} \cup (Nat \ {0})
      /\ s.self_register_interval_seconds \in {Nan} \cup (Nat \ {0})
      /\ s.max_concurrent \in Nat \ {0}
      /\ s.retention_days \in Nat \ {0}
      /\ s.history_days \in 1..365
      /\ s.allowed_target_cidrs \in SUBSET {"network"}
      /\ s.db_path \in {"usable"} /\ s.path \in {"usable"}
  BY <1>4, AllowedValues, Zenon
<1>6. s.interval_seconds \in Nat \ {0}
  BY <1>5, IntervalsArePositive
<1>7. s.timeout_seconds = Nan \/ s.timeout_seconds \in 1..(s.interval_seconds - 1)
  <2> SUFFICES ASSUME s.timeout_seconds # Nan
               PROVE  s.timeout_seconds \in 1..(s.interval_seconds - 1)
    OBVIOUS
  <2>1. s.timeout_seconds \in Nat \ {0}
    BY <1>5
  <2>2. AreNumbers(f)
    BY <1>4, <1>6, NanIsNoNumber DEF AreNumbers
  <2>3. ~(s.timeout_seconds >= s.interval_seconds)
    BY <1>2, <1>4, <1>6, <2>1, <2>2 DEF TimeoutTooLong
  <2> QED BY <1>6, <2>1, <2>3
<1>8. s.history_days \in 1..s.retention_days
  <2>1. Read(f, "history_days") \in Allowed("history_days")
    BY <1>4
  <2>2. ~(s.history_days > s.retention_days)
    BY <1>2, <1>4, <2>1 DEF HistoryTooLong
  <2> QED BY <1>5, <2>2
<1>9. s.allowed_target_cidrs = {"network"}
  <2>1. ~FoundBeforeNetworks(f)
    BY <1>1, <1>2 DEF FoundBeforeNetworks
  <2>2. s.allowed_target_cidrs # {}
    BY <1>2, <1>4, <2>1 DEF NoNetworkFound
  <2> QED BY <1>5, <2>2
<1>10. s.require_token => Token(f) = "long"
  BY <1>2, <1>4 DEF TokenIsMissing, Token
<1>11. ASSUME NEW k \in Options
       PROVE  Kept(k, s, Token(f)) \/ Evades(s, k)
  <2>1. CASE k = "bind"
    BY <1>5, <2>1 DEF Kept, Evades
  <2>2. CASE k = "port"
    BY <1>5, <2>2 DEF Kept
  <2>3. CASE k = "interval_seconds"
    BY <1>5, <2>3 DEF Kept
  <2>4. CASE k = "timeout_seconds"
    BY <1>7, <2>4 DEF Kept, Evades, Floats
  <2>5. CASE k = "self_register_interval_seconds"
    BY <1>5, <2>5 DEF Kept, Evades, Floats
  <2>6. CASE k = "max_concurrent"
    BY <1>5, <2>6 DEF Kept
  <2>7. CASE k = "history_days"
    BY <1>8, <2>7 DEF Kept
  <2>8. CASE k = "allowed_target_cidrs"
    BY <1>9, <2>8 DEF Kept
  <2>9. CASE k = "require_token"
    BY <1>10, <2>9 DEF Kept
  <2>10. CASE k \in {"db_path", "path"}
    BY <1>5, <2>10 DEF Kept
  <2>11. CASE k \notin {"bind", "port", "interval_seconds", "timeout_seconds",
                        "self_register_interval_seconds", "max_concurrent", "history_days",
                        "allowed_target_cidrs", "require_token", "db_path", "path"}
    BY <2>11 DEF Kept
  <2> QED BY <2>1, <2>2, <2>3, <2>4, <2>5, <2>6, <2>7, <2>8, <2>9, <2>10, <2>11
<1> QED BY <1>4, <1>6, <1>11 DEF s
-----------------------------------------------------------------------------
LEMMA BeatIsPositive == Beat \in Nat \ {0}
BY WatchdogIsPositive DEF Beat, Most

LEMMA WatchStepIsKept ==
  ASSUME WatchInv, main = "serving", WatchStep, UNCHANGED main
  PROVE  WatchInv'
<1> USE DEF WatchInv, WatchTypeOK
<1>1. CASE BeginCycle
  BY <1>1 DEF BeginCycle
<1>2. CASE CompleteCycle
  <2>1. rough' \in BOOLEAN
    BY <1>2 DEF CompleteCycle, IsSlow
  <2>2. age' = 0 /\ poll' = "idle" /\ failed' = FALSE
        /\ UNCHANGED <<interval, run, beat, silence, blocked>>
    BY <1>2 DEF CompleteCycle
  <2>3. age' <= 2 * interval' + silence'
    BY <2>2, WatchdogIsPositive
  <2> QED BY <2>1, <2>2, <2>3
<1>3. CASE FailCycle
  BY <1>3 DEF FailCycle
<1>4. CASE Heartbeat
  BY <1>4, BeatIsPositive, WatchdogIsPositive DEF Heartbeat, SilenceAfterBeat, Healthy
<1>5. CASE Block \/ Unblock
  BY <1>5 DEF Block, Unblock
<1>6. CASE Pass
  BY <1>6, BeatIsPositive, WatchdogIsPositive
  DEF Pass, WatchdogIsOver, Least, Most, SlowFrom
<1> QED BY <1>1, <1>2, <1>3, <1>4, <1>5, <1>6 DEF WatchStep

LEMMA EndedWatch ==
  ASSUME EndWatch
  PROVE  WatchInv'
<1>1. /\ interval' \in Nat /\ age' = 0 /\ run' \in Nat /\ poll' = "idle"
      /\ silence' = 0 /\ blocked' = FALSE /\ failed' = FALSE /\ rough' = FALSE
  BY DEF EndWatch
<1>2. beat' \in 0..Beat
  BY WatchdogIsPositive DEF EndWatch, Beat, Most
<1>3. silence' \in 0..WatchdogSec
  BY <1>1, WatchdogIsPositive
<1>4. age' <= 2 * interval' + silence'
  BY DEF EndWatch
<1> QED BY <1>1, <1>2, <1>3, <1>4 DEF WatchInv, WatchTypeOK

LEMMA StartedWatch ==
  ASSUME NEW i \in Nat, StartWatch(i)
  PROVE  WatchInv'
<1>1. /\ interval' \in Nat /\ age' = 0 /\ run' \in Nat /\ poll' = "idle"
      /\ silence' = 0 /\ blocked' = FALSE /\ failed' = FALSE /\ rough' = FALSE
  BY DEF StartWatch
<1>2. beat' \in 0..Beat
  BY WatchdogIsPositive DEF StartWatch, Beat, Most
<1>3. silence' \in 0..WatchdogSec
  BY <1>1, WatchdogIsPositive
<1>4. age' <= 2 * interval' + silence'
  BY DEF StartWatch
<1> QED BY <1>1, <1>2, <1>3, <1>4 DEF WatchInv, WatchTypeOK

\* A step that leaves the watch alone, and does not begin to serve.
LEMMA RestingWatch ==
  ASSUME WatchInv, UNCHANGED watchVars, main' = "serving" => main = "serving",
         main = "serving" => main' = "serving"
  PROVE  WatchInv'
BY DEF watchVars, WatchInv, WatchTypeOK, SlowFrom, Least, Most

LEMMA WatchIsKept ==
  ASSUME WatchInv, [Next]_vars
  PROVE  WatchInv'
<1>1. CASE Load
  <2>1. CASE EndWatch
    BY <2>1, EndedWatch
  <2>2. ASSUME NEW f \in file, Problems(f) = {}, interval' = Settings(f).interval_seconds,
               main = "load", main' = "open",
               UNCHANGED <<age, poll, run, beat, silence, blocked, failed, rough>>
        PROVE  WatchInv'
    <3>1. interval' \in Nat
      BY <2>2, FilesWithoutProblems
    <3> QED BY <2>2, <3>1 DEF WatchInv, WatchTypeOK
  <2> QED BY <1>1, <2>1, <2>2 DEF Load, Exit
<1>2. CASE Listen
  BY <1>2, StartedWatch DEF Listen, WatchInv, WatchTypeOK
<1>3. CASE Serving(WatchStep)
  BY <1>3, WatchStepIsKept DEF Serving, lifeVars
<1>4. CASE ListenInVain \/ ListenNoMore \/ SignalKills \/ Drain \/ EndDrain \/ Join
           \/ StopTimeout \/ WatchdogKills \/ Crash
  <2>1. EndWatch
    BY <1>4 DEF ListenInVain, ListenNoMore, SignalKills, Drain, EndDrain, Join, StopTimeout,
                WatchdogKills, Crash, Leave, Exit
  <2> QED BY <2>1, EndedWatch
<1>5. CASE OpenStore \/ ResolveExplicit \/ DetectInVain \/ Probe \/ Prepare
  <2>1. EndWatch \/ (UNCHANGED watchVars /\ main # "serving" /\ main' # "serving")
    BY <1>5 DEF OpenStore, ResolveExplicit, DetectInVain, Probe, Prepare, Exit, Resolved
  <2> QED BY <2>1, EndedWatch, RestingWatch
<1>6. CASE Wish \/ Exec \/ Signal \/ Detect \/ DetectAgain \/ Cancel \/ Close
           \/ \E j \in Jobs : JobStep(j)
  <2>1. UNCHANGED watchVars /\ (main' = "serving" <=> main = "serving")
    BY <1>6 DEF Wish, Exec, Signal, Detect, DetectAgain, Cancel, Close, JobStep, Take, Enter,
                Commit, Moved, Resolved
  <2> QED BY <2>1, RestingWatch
<1>7. CASE UNCHANGED vars
  BY <1>7, RestingWatch DEF vars, lifeVars
<1> QED BY <1>1, <1>2, <1>3, <1>4, <1>5, <1>6, <1>7 DEF Next, StartStep, StopStep
-----------------------------------------------------------------------------
\* What Exit and Leave leave behind.
LEMMA ExitedLife ==
  ASSUME LifeInv, NEW c \in {"ok", "config", "bind", "error", "killed"}, Exit(c)
  PROVE  LifeInv'
BY AttemptsArePositive
DEF Exit, LifeInv, NothingInsideAClosedStore, NoJobs, Jobs, Stages, Starting, Ending

LEMMA LeftLife ==
  ASSUME LifeInv, main \in {"listen", "drain"}, NEW c \in {"ok", "bind"}, Leave(c)
  PROVE  LifeInv'
BY DEF Leave, LifeInv, NothingInsideAClosedStore, Flights, Starting, Ending

LEMMA ResolvedLife ==
  ASSUME LifeInv, main = "resolve", 
         NEW kind \in {"explicit", "tailscale", "loopback"},
         Resolved(kind)
  PROVE  LifeInv'
BY AttemptsArePositive DEF Resolved, LifeInv, NothingInsideAClosedStore, Starting, Ending

LEMMA StartIsKept ==
  ASSUME LifeInv, StartStep
  PROVE  LifeInv'
<1>1. CASE Load
  <2>1. CASE Exit("error") \/ Exit("config")
    BY <2>1, ExitedLife
  <2>2. ASSUME NEW f \in file, Problems(f) = {}, bind' = Settings(f).bind,
               main = "load", main' = "open", file' = {},
               UNCHANGED <<wanted, code, addr, tries, store, jobs>>
        PROVE  LifeInv'
    <3>1. bind' \in Allowed("bind")
      BY <2>2, FilesWithoutProblems
    <3> QED BY <2>2, <3>1 DEF LifeInv, NothingInsideAClosedStore, Starting, Ending
  <2> QED BY <1>1, <2>1, <2>2 DEF Load
<1>2. CASE OpenStore
  <2>1. CASE Exit("error") \/ Exit("config")
    BY <2>1, ExitedLife
  <2> QED BY <1>2, <2>1, AttemptsArePositive
          DEF OpenStore, LifeInv, NothingInsideAClosedStore, Starting, Ending
<1>3. CASE ResolveExplicit
  BY <1>3, ExitedLife, ResolvedLife DEF ResolveExplicit
<1>4. CASE DetectAgain
  BY <1>4, AttemptsArePositive
  DEF DetectAgain, NextTry, LifeInv, NothingInsideAClosedStore, Starting, Ending
<1>5. CASE DetectInVain
  BY <1>5, ExitedLife, ResolvedLife DEF DetectInVain
<1>6. CASE Probe
  <2>1. CASE Exit("bind")
    BY <2>1, ExitedLife
  <2> QED BY <1>6, <2>1 DEF Probe, LifeInv, NothingInsideAClosedStore, Starting, Ending
<1>7. CASE Prepare
  <2>1. CASE Exit("error")
    BY <2>1, ExitedLife
  <2> QED BY <1>7, <2>1 DEF Prepare, LifeInv, NothingInsideAClosedStore, Starting, Ending
<1>8. CASE Listen
  BY <1>8 DEF Listen, LifeInv, NothingInsideAClosedStore, Starting, Ending
<1>9. CASE ListenInVain
  BY <1>9, LeftLife DEF ListenInVain, CodeOfTakenPort
<1>10. CASE ListenNoMore
  BY <1>10, LeftLife DEF ListenNoMore, CodeOfStop
<1> QED BY <1>1, <1>2, <1>3, <1>4, <1>5, <1>6, <1>7, <1>8, <1>9, <1>10 DEF StartStep

LEMMA StopIsKept ==
  ASSUME LifeInv, StopStep
  PROVE  LifeInv'
<1>1. CASE SignalKills
  BY <1>1, ExitedLife DEF SignalKills
<1>2. CASE Drain
  BY <1>2 DEF Drain, LifeInv, NothingInsideAClosedStore, Starting, Ending
<1>3. CASE EndDrain
  BY <1>3, LeftLife DEF EndDrain, CodeOfStop
<1>4. CASE Cancel
  BY <1>4 DEF Cancel, LifeInv, NothingInsideAClosedStore, Starting, Ending, Stages
<1>5. CASE Close
  BY <1>5 DEF Close, LockIsFree, LifeInv, NothingInsideAClosedStore, Starting, Ending
<1>6. CASE Join
  BY <1>6, ExitedLife DEF Join, LifeInv
<1> QED BY <1>1, <1>2, <1>3, <1>4, <1>5, <1>6 DEF StopStep

LEMMA JobIsKept ==
  ASSUME LifeInv, NEW j \in Jobs, JobStep(j)
  PROVE  LifeInv'
<1> USE DEF LifeInv, NothingInsideAClosedStore, Starting, Ending, Stages, Moved
<1>1. CASE Take(j)
  BY <1>1 DEF Take
<1>2. CASE Enter(j)
  BY <1>2 DEF Enter
<1>3. CASE Commit(j)
  BY <1>3 DEF Commit, Committed
<1> QED BY <1>1, <1>2, <1>3 DEF JobStep

LEMMA LifeIsKept ==
  ASSUME LifeInv, [Next]_vars
  PROVE  LifeInv'
<1>1. CASE StartStep
  BY <1>1, StartIsKept
<1>2. CASE StopStep
  BY <1>2, StopIsKept
<1>3. CASE \E j \in Jobs : JobStep(j)
  BY <1>3, JobIsKept
<1>4. CASE Wish \/ Signal
  BY <1>4 DEF Wish, Signal, LifeInv, NothingInsideAClosedStore
<1>5. CASE Exec
  BY <1>5 DEF Exec, LifeInv, NothingInsideAClosedStore, Starting, Ending
<1>6. CASE Detect
  BY <1>6, ResolvedLife DEF Detect
<1>7. CASE Serving(WatchStep) \/ UNCHANGED vars
  BY <1>7 DEF Serving, vars, lifeVars, LifeInv, NothingInsideAClosedStore
<1>8. CASE StopTimeout \/ WatchdogKills \/ Crash
  BY <1>8, ExitedLife DEF StopTimeout, WatchdogKills, Crash
<1> QED BY <1>1, <1>2, <1>3, <1>4, <1>5, <1>6, <1>7, <1>8 DEF Next
-----------------------------------------------------------------------------
LEMMA ServiceInvInitially == Init => ServiceInv
<1> SUFFICES ASSUME Init PROVE ServiceInv
  OBVIOUS
<1>1. /\ interval = 0 /\ age = 0 /\ run = 0 /\ beat = 0 /\ silence = 0 /\ poll = "idle"
      /\ blocked = FALSE /\ failed = FALSE /\ rough = FALSE
  BY DEF Init, Quiet
<1>2. beat \in 0..Beat /\ silence \in 0..WatchdogSec
  <2>1. Beat \in Nat
    BY BeatIsPositive
  <2> QED BY <1>1, <2>1, WatchdogIsPositive
<1>3. age <= 2 * interval + silence
  BY <1>1
<1>4. WatchInv
  BY <1>1, <1>2, <1>3 DEF WatchInv, WatchTypeOK
<1>5. tries \in 0..Attempts
  BY AttemptsArePositive DEF Init
<1>6. /\ jobs \in [Jobs -> Stages] /\ \A j \in Jobs : jobs[j] = "none"
  BY DEF Init, NoJobs, Stages
<1>7. LifeInv
  BY <1>5, <1>6 DEF Init, LifeInv, NothingInsideAClosedStore, Starting, Ending
<1> QED BY <1>4, <1>7 DEF ServiceInv

\* The inductive invariant of the process.
THEOREM ServiceInvariant == Spec => []ServiceInv
<1>1. ServiceInv /\ [Next]_vars => ServiceInv'
  BY WatchIsKept, LifeIsKept DEF ServiceInv
<1> QED BY <1>1, ServiceInvInitially, PTL DEF Spec

\* Every variable keeps to its kind, and a database is open only while a process
\* runs that has loaded its configuration.
THEOREM ServiceIsTyped == Spec => []ServiceTypeOK
<1>1. ServiceInv => ServiceTypeOK
  BY DEF ServiceInv, WatchInv, LifeInv, ServiceTypeOK, Starting, Ending
<1> QED BY <1>1, ServiceInvariant, PTL

\* However cycles hang or fail and the loop blocks, the watchdog ends a process whose
\* last cycle is more than two intervals and the watchdog period ago.
THEOREM WedgesAreBounded == Spec => []WedgeIsBounded
<1>1. ServiceInv => WedgeIsBounded
  BY WatchdogIsPositive DEF ServiceInv, WatchInv, WatchTypeOK, WedgeIsBounded
<1> QED BY <1>1, ServiceInvariant, PTL

\* Storage.close waits for the lock: no thread is inside its transaction when the
\* connection is closed under it.
THEOREM NothingIsLeftInAClosedStore == Spec => []NothingInsideAClosedStore
<1>1. ServiceInv => NothingInsideAClosedStore
  BY DEF ServiceInv, LifeInv
<1> QED BY <1>1, ServiceInvariant, PTL

\* Of all files whatever, load_config lets only those pass that keep what the documents
\* ask in every key, save for nan and for a wildcard in another spelling.
THEOREM OnlyNanAndAliasesSlipThrough == Spec => []NothingElseSlipsThrough
<1>1. NothingElseSlipsThrough
  BY FilesWithoutProblems DEF NothingElseSlipsThrough
<1> QED BY <1>1, PTL
-----------------------------------------------------------------------------
\* A calm process: a failed cycle costs an interval, the one under way another, and
\* systemd missed at most one ping, after which a cycle has been completed or else the
\* last one is even longer ago.
CalmInv ==
  /\ blocked => rough
  /\ main = "serving" /\ Calm /\ 2 * interval >= Beat =>
       /\ poll = "idle" => run <= interval
       /\ poll = "idle" /\ ~failed => age <= run
       /\ poll = "idle" /\ failed => age <= interval + run
       /\ poll = "busy" /\ ~failed => age <= interval + run
       /\ poll = "busy" /\ failed => age <= 2 * interval + run
       /\ \/ silence <= beat
          \/ silence <= Beat + beat /\ (age > 2 * interval + beat \/ age <= beat)

\* What is not calm stays so while the process serves.
LEMMA CalmWasCalm ==
  ASSUME WatchInv, WatchStep, Calm'
  PROVE  Calm
<1> USE DEF Calm, IsSlow, WatchInv, WatchTypeOK
<1>1. CASE BeginCycle \/ Heartbeat \/ Block \/ Unblock
  BY <1>1 DEF BeginCycle, Heartbeat, Block, Unblock, SlowFrom, Least
<1>2. CASE CompleteCycle \/ FailCycle
  BY <1>2 DEF CompleteCycle, FailCycle
<1>3. CASE Pass
  BY <1>3, BeatIsPositive DEF Pass, SlowFrom, Least, Most
<1> QED BY <1>1, <1>2, <1>3 DEF WatchStep

LEMMA CalmIsKept ==
  ASSUME WatchInv, CalmInv, main = "serving", WatchStep, UNCHANGED main
  PROVE  CalmInv'
<1> USE DEF WatchInv, WatchTypeOK
<1>1. blocked' => rough'
  BY DEF CalmInv, WatchStep, BeginCycle, CompleteCycle, FailCycle, Heartbeat, Block, Unblock, Pass
<1>2. interval' = interval /\ Beat' = Beat
  BY DEF WatchStep, BeginCycle, CompleteCycle, FailCycle, Heartbeat, Block, Unblock, Pass,
         Beat, Most
<1>3. SUFFICES ASSUME Calm', 2 * interval >= Beat
      PROVE  /\ (poll = "idle" => run <= interval)'
             /\ (poll = "idle" /\ ~failed => age <= run)'
             /\ (poll = "idle" /\ failed => age <= interval + run)'
             /\ (poll = "busy" /\ ~failed => age <= interval + run)'
             /\ (poll = "busy" /\ failed => age <= 2 * interval + run)'
             /\ \/ silence' <= beat'
                \/ silence' <= Beat + beat' /\ (age' > 2 * interval + beat' \/ age' <= beat')
  BY <1>1, <1>2 DEF CalmInv
<1>4. Calm
  BY <1>3, CalmWasCalm
<1>5. ~rough /\ ~blocked /\ (poll = "busy" => run <= Beat /\ run <= interval)
  BY <1>4, BeatIsPositive DEF Calm, CalmInv, IsSlow, SlowFrom, Least
<1>6. /\ poll = "idle" => run <= interval
      /\ poll = "idle" /\ ~failed => age <= run
      /\ poll = "idle" /\ failed => age <= interval + run
      /\ poll = "busy" /\ ~failed => age <= interval + run
      /\ poll = "busy" /\ failed => age <= 2 * interval + run
      /\ \/ silence <= beat
         \/ silence <= Beat + beat /\ (age > 2 * interval + beat \/ age <= beat)
  BY <1>3, <1>4 DEF CalmInv
<1>7. Beat \in Nat /\ beat <= Beat
  BY BeatIsPositive
<1> HIDE DEF CalmInv
<1>8. CASE BeginCycle
  BY <1>6, <1>7, <1>8 DEF BeginCycle
<1>9. CASE CompleteCycle
  <2>1. /\ poll' = "idle" /\ age' = 0 /\ failed' = FALSE
        /\ run' = run /\ silence' = silence /\ beat' = beat
    BY <1>9 DEF CompleteCycle
  <2>2. run <= interval
    BY <1>5, <1>9 DEF CompleteCycle
  <2> QED BY <1>2, <1>6, <1>7, <2>1, <2>2
<1>10. CASE FailCycle
  <2>1. poll = "busy" /\ ~failed
    <3>1. rough' = (rough \/ failed \/ IsSlow) /\ ~rough' /\ poll = "busy"
      BY <1>3, <1>10 DEF FailCycle, Calm
    <3> QED BY <3>1
  <2>2. /\ poll' = "idle" /\ failed'
        /\ age' = age /\ run' = run /\ silence' = silence /\ beat' = beat
    BY <1>10 DEF FailCycle
  <2> QED BY <1>2, <1>5, <1>6, <2>1, <2>2
<1>11. CASE Heartbeat
  <2>1. /\ poll' = poll /\ age' = age /\ run' = run /\ failed' = failed /\ beat' = 0
        /\ beat = Beat
    BY <1>7, <1>11 DEF Heartbeat
  <2>2. age > 2 * interval => age <= 2 * interval + Beat
    BY <1>5, <1>6, <1>7
  <2>3. CASE Healthy
    <3>1. silence' = 0
      BY <1>11, <2>3 DEF Heartbeat, SilenceAfterBeat
    <3> QED BY <1>2, <1>6, <2>1, <3>1
  <2>4. CASE ~Healthy
    <3>1. silence' = silence /\ age > 2 * interval
      BY <1>11, <2>4 DEF Heartbeat, SilenceAfterBeat, Healthy
    <3>2. silence <= Beat
      BY <1>3, <1>6, <1>7, <2>1, <2>2, <3>1
    <3> QED BY <1>2, <1>6, <1>7, <2>1, <3>1, <3>2
  <2> QED BY <2>3, <2>4
<1>12. CASE Block \/ Unblock
  BY <1>3, <1>5, <1>12 DEF Block, Unblock, Calm
<1>13. CASE Pass
  <2>1. beat < Beat /\ ~(poll = "idle" /\ run >= interval)
    BY <1>5, <1>7, <1>13 DEF Pass
  <2>2. /\ poll' = poll /\ failed' = failed /\ silence' = silence + 1 /\ beat' = beat + 1
    BY <1>7, <1>13, <2>1 DEF Pass, Least
  <2>3. age' = age + 1
    <3>1. age <= 2 * interval + Beat
      BY <1>5, <1>6, <1>7, <2>1
    <3>2. Beat <= WatchdogSec
      BY WatchdogIsPositive DEF Beat, Most
    <3> QED BY <1>7, <1>13, <3>1, <3>2, WatchdogIsPositive DEF Pass, Least
  <2>4. run' = run + 1
    <3>1. run < Most(interval, SlowFrom)
      BY <1>5, <1>7, <2>1 DEF Most, SlowFrom, Least
    <3>2. Most(interval, SlowFrom) \in Nat
      BY <1>7 DEF Most, SlowFrom, Least
    <3> QED BY <1>13, <3>1, <3>2 DEF Pass, Least
  <2> QED BY <1>2, <1>6, <1>7, <2>1, <2>2, <2>3, <2>4
<1> QED BY <1>8, <1>9, <1>10, <1>11, <1>12, <1>13 DEF WatchStep

\* The steps around the watch: it starts calm, and it ends or rests.
LEMMA CalmIsKeptByAll ==
  ASSUME WatchInv, CalmInv, [Next]_vars
  PROVE  CalmInv'
<1>1. CASE Serving(WatchStep)
  BY <1>1, CalmIsKept DEF Serving, lifeVars
<1>2. CASE Listen
  <2>1. StartWatch(interval) /\ interval \in Nat
    BY <1>2 DEF Listen, WatchInv, WatchTypeOK
  <2>2. /\ interval' = interval /\ age' = 0 /\ poll' = "idle" /\ run' = interval
        /\ silence' = 0 /\ ~blocked' /\ ~failed' /\ beat' = Beat
    BY <2>1 DEF StartWatch
  <2>3. silence' <= beat'
    BY <2>2, BeatIsPositive
  <2> QED BY <2>1, <2>2, <2>3 DEF CalmInv
<1>3. CASE main' # "serving" /\ (~blocked' \/ (blocked' = blocked /\ rough' = rough))
  BY <1>3 DEF CalmInv
<1>4. CASE UNCHANGED watchVars /\ (main' = "serving" => main = "serving")
  BY <1>4 DEF CalmInv, watchVars, Calm, IsSlow, SlowFrom, Least, Beat, Most
<1>5. CASE Wish \/ Exec \/ Signal \/ Detect \/ DetectAgain \/ Cancel \/ Close
           \/ (\E j \in Jobs : JobStep(j)) \/ UNCHANGED vars
  <2>1. UNCHANGED watchVars /\ (main' = "serving" => main = "serving")
    BY <1>5 DEF Wish, Exec, Signal, Detect, DetectAgain, Cancel, Close, JobStep, Take, Enter,
                Commit, Moved, Resolved, vars, lifeVars
  <2> QED BY <2>1, <1>4
<1>6. CASE Load \/ OpenStore \/ ResolveExplicit \/ DetectInVain \/ Probe \/ Prepare
           \/ ListenInVain \/ ListenNoMore \/ StopStep \/ StopTimeout \/ WatchdogKills \/ Crash
  <2>1. \/ main' # "serving" /\ EndWatch
        \/ main' # "serving" /\ blocked' = blocked /\ rough' = rough
    BY <1>6 DEF Load, OpenStore, ResolveExplicit, DetectInVain, Probe, Prepare, ListenInVain,
                ListenNoMore, StopStep, SignalKills, Drain, EndDrain, Cancel, Close, Join,
                StopTimeout, WatchdogKills, Crash, Leave, Exit, Resolved, watchVars
  <2>2. EndWatch => ~blocked'
    BY DEF EndWatch
  <2> QED BY <2>1, <2>2, <1>3
<1> QED BY <1>1, <1>2, <1>5, <1>6 DEF Next, StartStep

\* One failed cycle costs no restart: while cycles fail one at a time and each ends in
\* time, systemd's watchdog does not kill the process, if two intervals last for a
\* heartbeat and the period is long enough to be divided in three.
THEOREM CalmProcessesAreNotKilled ==
  ASSUME WatchdogSec >= 3
  PROVE  Spec => CalmIsNeverKilled
<1>1. 2 * Beat < WatchdogSec /\ Beat \in Nat
  BY WatchdogIsPositive DEF Beat, Most
<1>2. Init => CalmInv
  BY DEF Init, Quiet, CalmInv
<1>3. ServiceInv /\ CalmInv /\ [Next]_vars => CalmInv'
  BY CalmIsKeptByAll DEF ServiceInv
<1>4. ServiceInv /\ CalmInv => (WatchdogKills => ~Calm \/ 2 * interval < Beat)
  <2> SUFFICES ASSUME ServiceInv, CalmInv, WatchdogKills, Calm, ~(2 * interval < Beat)
               PROVE  FALSE
    OBVIOUS
  <2>1. interval \in Nat /\ silence \in Nat /\ beat \in 0..Beat
    BY WatchdogIsPositive DEF ServiceInv, WatchInv, WatchTypeOK
  <2>2. main = "serving" /\ silence >= WatchdogSec
    BY DEF WatchdogKills, WatchdogIsOver
  <2>3. silence <= beat \/ silence <= Beat + beat
    BY <1>1, <2>1, <2>2 DEF CalmInv
  <2> QED BY <1>1, <2>1, <2>2, <2>3, WatchdogIsPositive
<1>5. ServiceInv /\ CalmInv => [WatchdogKills => ~Calm \/ 2 * interval < Beat]_vars
  BY <1>4
<1> QED BY <1>2, <1>3, <1>5, ServiceInvariant, PTL DEF Spec, CalmIsNeverKilled
-----------------------------------------------------------------------------
LEMMA StartMapsToItsUnit ==
  ASSUME LifeInv, StartStep
  PROVE  [U!UnitNext]_(U!unitVars)
<1> USE DEF LifeInv, UnitState, Starting, Ending, U!unitVars, U!UnitNext
<1>1. ASSUME NEW c \in {"config", "bind", "error"}, main \in Starting, Exit(c)
      PROVE  U!Refuse
  BY <1>1 DEF Exit, U!Refuse
<1>2. ASSUME main \in Starting, main' \in Starting, UNCHANGED <<code, wanted>>
      PROVE  UNCHANGED U!unitVars
  BY <1>2
<1>3. CASE Load
  BY <1>1, <1>2, <1>3 DEF Load
<1>4. CASE OpenStore
  BY <1>1, <1>2, <1>4 DEF OpenStore
<1>5. CASE ResolveExplicit \/ DetectInVain
  BY <1>1, <1>2, <1>5 DEF ResolveExplicit, DetectInVain, Resolved
<1>6. CASE DetectAgain
  BY <1>2, <1>6 DEF DetectAgain
<1>7. CASE Probe \/ Prepare
  BY <1>1, <1>2, <1>7 DEF Probe, Prepare
<1>8. CASE Listen
  BY <1>8 DEF Listen, U!Ready
<1>9. CASE ListenInVain
  BY <1>9 DEF ListenInVain, CodeOfTakenPort, Leave
<1>10. CASE ListenNoMore
  BY <1>10 DEF ListenNoMore, CodeOfStop, Leave, U!Deactivate
<1> QED BY <1>3, <1>4, <1>5, <1>6, <1>7, <1>8, <1>9, <1>10 DEF StartStep

LEMMA StopMapsToItsUnit ==
  ASSUME LifeInv, StopStep
  PROVE  [U!UnitNext]_(U!unitVars)
<1> USE DEF LifeInv, UnitState, Starting, Ending, U!unitVars, U!UnitNext
<1>1. CASE SignalKills
  BY <1>1 DEF SignalKills, Exit, U!Die
<1>2. CASE Drain
  BY <1>2 DEF Drain, U!Deactivate
<1>3. CASE EndDrain
  BY <1>3 DEF EndDrain, CodeOfStop, Leave
<1>4. CASE Cancel \/ Close
  BY <1>4 DEF Cancel, Close
<1>5. CASE Join
  BY <1>5 DEF Join, Exit, U!EndClean, U!Refuse
<1> QED BY <1>1, <1>2, <1>3, <1>4, <1>5 DEF StopStep

LEMMA StepMapsToItsUnit ==
  ASSUME LifeInv, [Next]_vars
  PROVE  [U!UnitNext]_(U!unitVars)
<1> USE DEF LifeInv, UnitState, Starting, Ending, U!unitVars, U!UnitNext
<1>1. CASE StartStep
  BY <1>1, StartMapsToItsUnit
<1>2. CASE StopStep
  BY <1>2, StopMapsToItsUnit
<1>3. CASE Wish \/ Signal
  BY <1>3 DEF Wish, Signal, U!Wish
<1>4. CASE Exec
  BY <1>4 DEF Exec, U!Activate
<1>5. CASE StopTimeout \/ WatchdogKills \/ Crash
  BY <1>5 DEF StopTimeout, WatchdogKills, Crash, Exit, U!Die
<1>6. CASE Detect \/ \E j \in Jobs : JobStep(j)
  BY <1>6 DEF Detect, Resolved, JobStep, Take, Enter, Commit, Moved
<1>7. CASE Serving(WatchStep) \/ UNCHANGED vars
  BY <1>7 DEF Serving, vars, lifeVars
<1> QED BY <1>1, <1>2, <1>3, <1>4, <1>5, <1>6, <1>7 DEF Next

\* The process does what its unit promises: codes, restarts and the end of a stop
\* are those of README.md:219, whatever fails on the way up, in service or down.
THEOREM ServiceKeepsThePromise == Spec => ImplementsUnit
<1>1. Init => U!UnitInit
  BY DEF Init, UnitState, U!UnitInit, Starting, Ending
<1>2. ServiceInv /\ [Next]_vars => [U!UnitNext]_(U!unitVars)
  BY StepMapsToItsUnit DEF ServiceInv
<1> QED BY <1>1, <1>2, ServiceInvariant, PTL DEF Spec, ImplementsUnit, U!UnitSpec
=============================================================================
