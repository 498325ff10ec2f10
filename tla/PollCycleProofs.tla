-------------------------- MODULE PollCycleProofs --------------------------
(***************************************************************************)
(* For any number of services, permits, connections and threads, and       *)
(* whatever raises: the semaphore is neither exceeded nor drained, and a   *)
(* healthy service is not found down for want of a connection.  The        *)
(* inductive invariant adds which generation of checks may be at work in   *)
(* which phase of the cycle.                                               *)
(***************************************************************************)
EXTENDS PollCycle, FiniteSetTheorems, TLAPS

\* Before a cycle its generation is empty, and when results are stored its checks
\* have ended; a service that is not registered has no check.
GenerationsAreKept ==
  /\ pc = "idle" => \A t \in Targets : task[<<gen, t>>] = "none"
  /\ pc = "record" => \A t \in Targets : task[<<gen, t>>] \in {"none", "up", "down"}
  /\ \A c \in Checks : c[2] \notin cfg.targets => task[c] = "none"

PollInv ==
  /\ TypeOK
  /\ GenerationsAreKept
  /\ NoPermitIsLost
  /\ HealthyIsNeverDown
-----------------------------------------------------------------------------
LEMMA ChecksAreFinite ==
  /\ IsFiniteSet(Checks)
  /\ \A S \in SUBSET Checks : IsFiniteSet(S) /\ Cardinality(S) \in Nat
<1>1. IsFiniteSet(Generations)
  <2>1. Generations = {} \cup {0} \cup {1}
    BY DEF Generations
  <2>2. IsFiniteSet({} \cup {0})
    BY FS_EmptySet, FS_AddElement
  <2> QED BY <2>1, <2>2, FS_AddElement
<1>2. IsFiniteSet(Checks)
  BY <1>1, TargetsAreRanks, FS_Product DEF Checks
<1> QED BY <1>2, FS_Subset, FS_CardinalityType

\* The requests under way are finitely many, and those that read are some of them.
LEMMA RequestsAreFinite ==
  /\ IsFiniteSet(Requesting) /\ Cardinality(Requesting) \in Nat
  /\ IsFiniteSet(At("reading")) /\ Cardinality(At("reading")) \in Nat
<1>1. Requesting \subseteq Checks /\ At("reading") \subseteq Checks
  BY DEF Requesting, At
<1> QED BY <1>1, ChecksAreFinite

LEMMA SettingsAreTyped ==
  ASSUME cfg \in Settings
  PROVE  /\ cfg.permits \in Nat \ {0} /\ cfg.connections \in Nat \ {0}
         /\ cfg.targets \subseteq Targets
BY SettingsAreSettings DEF Setting
-----------------------------------------------------------------------------
\* What a step does to the set of requests, seen from the one check it moves.
LEMMA MovedRequests ==
  ASSUME TypeOK, NEW c \in Checks, NEW stage \in Stages, Move(c, stage)
  PROVE  /\ task' \in [Checks -> Stages]
         /\ \A d \in Checks : d # c => task'[d] = task[d]
         /\ task'[c] = stage \/ (task'[c] = "none" /\ stage \in Ended /\ c[1] # gen)
         /\ stage \in {"pooled", "reading"} => Requesting' = Requesting \cup {c}
         /\ stage \notin {"pooled", "reading"} => Requesting' = Requesting \ {c}
<1> USE DEF Stages, Ended
<1>1. task' \in [Checks -> Stages]
  BY DEF Move, TypeOK
<1>2. \A d \in Checks : d # c => task'[d] = task[d]
  BY DEF Move, TypeOK
<1>3. task'[c] = stage \/ (task'[c] = "none" /\ stage \in Ended /\ c[1] # gen)
  BY DEF Move, TypeOK
<1>4. Requesting' = {d \in Checks : task'[d] \in {"pooled", "reading"}}
      /\ Requesting = {d \in Checks : task[d] \in {"pooled", "reading"}}
  BY DEF Requesting, At
<1> QED BY <1>1, <1>2, <1>3, <1>4

\* The semaphore counts along.
LEMMA CountsTogether ==
  ASSUME TypeOK, NoPermitIsLost, NEW c \in Checks,
         \/ c \notin Requesting /\ sem > 0 /\ sem' = sem - 1 /\ Requesting' = Requesting \cup {c}
         \/ c \in Requesting /\ sem' = sem + 1 /\ Requesting' = Requesting \ {c}
         \/ sem' = sem /\ Requesting' = Requesting,
         cfg' = cfg
  PROVE  NoPermitIsLost' /\ sem' \in 0..cfg'.permits
<1>1. Cardinality(Requesting) \in Nat /\ IsFiniteSet(Requesting)
  BY RequestsAreFinite
<1>2. cfg.permits \in Nat /\ sem \in Nat
  BY SettingsAreTyped DEF TypeOK
<1>3. sem + Cardinality(Requesting) = cfg.permits
  BY DEF NoPermitIsLost
<1>4. Cardinality(Requesting') \in Nat /\ sem' \in Nat
      /\ sem' + Cardinality(Requesting') = cfg.permits
  <2>1. CASE c \notin Requesting /\ sem > 0 /\ sem' = sem - 1
             /\ Requesting' = Requesting \cup {c}
    <3>1. Cardinality(Requesting') = Cardinality(Requesting) + 1
      BY <1>1, <2>1, FS_AddElement
    <3> QED BY <1>1, <1>2, <1>3, <2>1, <3>1
  <2>2. CASE c \in Requesting /\ sem' = sem + 1 /\ Requesting' = Requesting \ {c}
    <3>1. Cardinality(Requesting') = Cardinality(Requesting) - 1
      BY <1>1, <2>2, FS_RemoveElement
    <3>2. Cardinality(Requesting) # 0
      BY <1>1, <2>2, FS_EmptySet
    <3> QED BY <1>1, <1>2, <1>3, <2>2, <3>1, <3>2
  <2>3. CASE sem' = sem /\ Requesting' = Requesting
    BY <1>1, <1>2, <1>3, <2>3
  <2> QED BY <2>1, <2>2, <2>3
<1> QED BY <1>2, <1>4 DEF NoPermitIsLost
-----------------------------------------------------------------------------
\* A check at work may move on: in the generation of an idle or recording cycle there
\* is none, so the phases of the loop are not disturbed.
LEMMA MovedGenerations ==
  ASSUME PollInv, NEW c \in Checks, NEW stage \in Stages, Move(c, stage),
         task[c] \in Stages \ (Ended \cup {"none"}), UNCHANGED <<cfg, pc, gen>>
  PROVE  GenerationsAreKept'
<1> USE DEF PollInv, GenerationsAreKept
<1>1. /\ \A d \in Checks : d # c => task'[d] = task[d]
      /\ task[c] \notin {"none", "up", "down"}
  BY MovedRequests DEF Ended
<1>2. \A t \in Targets : <<gen, t>> \in Checks
  BY DEF TypeOK, Checks
<1>3. pc' = "idle" => \A t \in Targets : task'[<<gen', t>>] = "none"
  BY <1>1, <1>2
<1>4. pc' = "record" => \A t \in Targets : task'[<<gen', t>>] \in {"none", "up", "down"}
  BY <1>1, <1>2
<1>5. \A d \in Checks : d[2] \notin cfg'.targets => task'[d] = "none"
  BY <1>1
<1> QED BY <1>3, <1>4, <1>5

\* What every step of a check has in common.
LEMMA MovedCheck ==
  ASSUME PollInv, NEW c \in Checks, NEW stage \in Stages, Move(c, stage),
         task[c] \in Stages \ (Ended \cup {"none"}), UNCHANGED <<cfg, pc, gen, todo>>,
         IF stage \in {"pooled", "reading"}
           THEN IF c \in Requesting THEN sem' = sem ELSE sem > 0 /\ sem' = sem - 1
           ELSE IF c \in Requesting THEN sem' = sem + 1 ELSE sem' = sem,
         cfg.connections >= cfg.permits /\ c[2] \in cfg.healthy => stage # "down"
  PROVE  PollInv'
<1> USE DEF PollInv
<1>1. GenerationsAreKept'
  BY MovedGenerations
<1>2. NoPermitIsLost' /\ sem' \in 0..cfg'.permits
  <2>1. CASE stage \in {"pooled", "reading"}
    BY <2>1, MovedRequests, CountsTogether
  <2>2. CASE stage \notin {"pooled", "reading"}
    BY <2>2, MovedRequests, CountsTogether
  <2> QED BY <2>1, <2>2
<1>3. TypeOK'
  BY <1>2, MovedRequests DEF TypeOK
<1>4. HealthyIsNeverDown'
  BY MovedRequests DEF HealthyIsNeverDown
<1> QED BY <1>1, <1>2, <1>3, <1>4

\* With as many connections as permits a request that waits for one will have it:
\* not all connections are taken, for it holds a permit itself.
LEMMA ConnectionsSuffice ==
  ASSUME PollInv, NEW c \in Checks, task[c] = "pooled", cfg.connections >= cfg.permits
  PROVE  Cardinality(At("reading")) < cfg.connections
<1> USE DEF PollInv
<1>1. At("reading") \subseteq Requesting \ {c} /\ c \in Requesting
  BY DEF Requesting, At
<1>2. /\ IsFiniteSet(Requesting \ {c})
      /\ Cardinality(Requesting \ {c}) = Cardinality(Requesting) - 1
  BY <1>1, RequestsAreFinite, FS_RemoveElement
<1>3. Cardinality(At("reading")) <= Cardinality(Requesting) - 1
  BY <1>1, <1>2, FS_Subset
<1>4. sem \in Nat /\ sem + Cardinality(Requesting) = cfg.permits
  BY SettingsAreTyped DEF TypeOK, NoPermitIsLost
<1>5. cfg.permits \in Nat /\ cfg.connections \in Nat
  BY SettingsAreTyped DEF TypeOK
<1> QED BY <1>3, <1>4, <1>5, RequestsAreFinite

LEMMA CheckStepIsKept ==
  ASSUME PollInv, NEW c \in Checks, CheckStep(c)
  PROVE  PollInv'
<1> USE DEF Stages, Ended
<1>1. c \in Requesting <=> task[c] \in {"pooled", "reading"}
  BY DEF Requesting, At
<1>2. CASE StartValidation(c)
  BY <1>1, <1>2, MovedCheck DEF StartValidation
<1>3. CASE Validate(c)
  <2>1. PICK stage \in {"waiting", "down", "raised"} :
          Move(c, stage) /\ (stage = "down" => c[2] \notin cfg.healthy)
    BY <1>3 DEF Validate
  <2> QED BY <1>1, <1>3, <2>1, MovedCheck DEF Validate
<1>4. CASE Acquire(c)
  <2>1. sem > 0 /\ sem' = sem - 1 /\ task[c] = "waiting" /\ Move(c, "pooled")
        /\ UNCHANGED <<cfg, pc, gen, todo>>
    BY <1>4 DEF Acquire, PermitIsFree
  <2> QED BY <1>1, <2>1, MovedCheck
<1>5. CASE Connect(c)
  BY <1>1, <1>5, MovedCheck DEF Connect
<1>6. CASE PoolTimeout(c)
  <2>1. /\ task[c] = "pooled" /\ sem' = sem + 1 /\ Move(c, "down")
        /\ UNCHANGED <<cfg, pc, gen, todo>>
    BY <1>6 DEF PoolTimeout, Released
  <2>2. ~(cfg.connections >= cfg.permits)
    <3>1. Cardinality(At("reading")) \in Nat /\ cfg.connections \in Nat
      BY RequestsAreFinite, SettingsAreTyped DEF PollInv, TypeOK
    <3>2. Cardinality(At("reading")) >= cfg.connections
      BY <1>6 DEF PoolTimeout
    <3> QED BY <2>1, <3>1, <3>2, ConnectionsSuffice
  <2> QED BY <1>1, <2>1, <2>2, MovedCheck
<1>7. CASE EndRequest(c)
  <2>1. PICK outcome \in {"up", "down"} :
          Move(c, outcome) /\ (outcome = "down" => c[2] \notin cfg.healthy)
    BY <1>7 DEF EndRequest, Answers
  <2>2. task[c] = "reading" /\ sem' = sem + 1 /\ UNCHANGED <<cfg, pc, gen, todo>>
    BY <1>7 DEF EndRequest, Released
  <2> QED BY <1>1, <2>1, <2>2, MovedCheck
<1> QED BY <1>2, <1>3, <1>4, <1>5, <1>6, <1>7 DEF CheckStep
-----------------------------------------------------------------------------
\* A step of the loop leaves the requests and the semaphore as they are.
LEMMA LoopKeepsRequests ==
  ASSUME PollInv, task' \in [Checks -> Stages], UNCHANGED <<cfg, sem>>,
         \A c \in Checks : c \in Requesting <=> task'[c] \in {"pooled", "reading"}
  PROVE  NoPermitIsLost' /\ sem' \in 0..cfg'.permits
<1>1. Requesting' = {d \in Checks : task'[d] \in {"pooled", "reading"}}
      /\ Requesting \subseteq Checks
  BY DEF Requesting, At
<1>2. Requesting' = Requesting
  BY <1>1
<1> QED BY <1>2 DEF PollInv, NoPermitIsLost, TypeOK

LEMMA LoopIsKept ==
  ASSUME PollInv, LoopStep \/ RecordRaises
  PROVE  PollInv'
<1> USE DEF PollInv
<1>1. \A c \in Checks : c \in Requesting <=> task[c] \in {"pooled", "reading"}
  BY DEF Requesting, At
<1>2. \A c \in Checks : c = <<c[1], c[2]>> /\ c[1] \in Generations /\ c[2] \in Targets
  BY DEF Checks
<1>3. \A g \in Generations : Other(g) \in Generations /\ Other(g) # g
        /\ \A h \in Generations : h = g \/ h = Other(g)
  BY DEF Generations, Other
<1>4. CASE BeginCycle
  <2>1. task' = [c \in Checks |-> IF c[1] = gen /\ c[2] \in cfg.targets
                                    THEN "queued" ELSE task[c]]
        /\ pc = "idle" /\ pc' = "check" /\ sem' = sem /\ UNCHANGED <<cfg, gen, todo>>
    BY <1>4 DEF BeginCycle, PermitsAtStart
  <2>2. \A c \in Checks : c[1] = gen => task[c] = "none"
    BY <1>2, <2>1 DEF GenerationsAreKept
  <2>3. task' \in [Checks -> Stages]
    BY <2>1 DEF TypeOK, Stages
  <2>4. NoPermitIsLost' /\ sem' \in 0..cfg'.permits
    BY <1>1, <2>1, <2>2, <2>3, LoopKeepsRequests
  <2>5. GenerationsAreKept'
    BY <2>1 DEF GenerationsAreKept
  <2>6. HealthyIsNeverDown'
    BY <2>1 DEF HealthyIsNeverDown
  <2> QED BY <2>1, <2>3, <2>4, <2>5, <2>6 DEF TypeOK
<1>5. CASE GatherRaises
  <2>1. task' = [c \in Checks |-> IF task[c] \in Ended THEN "none" ELSE task[c]]
        /\ pc' = "idle" /\ gen' = Other(gen) /\ Running(Other(gen)) = {}
        /\ UNCHANGED <<cfg, sem, todo>>
    BY <1>5 DEF GatherRaises
  <2>2. task' \in [Checks -> Stages]
    BY <2>1 DEF TypeOK, Stages
  <2>3. NoPermitIsLost' /\ sem' \in 0..cfg'.permits
    BY <1>1, <2>1, <2>2, LoopKeepsRequests DEF Ended
  <2>4. GenerationsAreKept'
    <3>1. \A t \in Targets : task'[<<gen', t>>] = "none"
      BY <1>3, <2>1 DEF Running, TypeOK, Checks
    <3> QED BY <2>1, <3>1 DEF GenerationsAreKept
  <2>5. HealthyIsNeverDown'
    BY <2>1 DEF HealthyIsNeverDown
  <2> QED BY <1>3, <2>1, <2>2, <2>3, <2>4, <2>5 DEF TypeOK
<1>6. CASE GatherReturns
  <2>1. pc' = "record" /\ todo' = cfg.targets /\ UNCHANGED <<cfg, gen, task, sem>>
        /\ \A t \in cfg.targets : task[<<gen, t>>] \in {"up", "down"}
    BY <1>6 DEF GatherReturns
  <2>2. task' \in [Checks -> Stages]
    BY <2>1 DEF TypeOK
  <2>3. NoPermitIsLost' /\ sem' \in 0..cfg'.permits
    BY <1>1, <2>1, <2>2, LoopKeepsRequests
  <2>4. GenerationsAreKept'
    <3>1. \A t \in Targets : <<gen, t>> \in Checks /\ <<gen, t>>[2] = t
      BY DEF Checks, TypeOK
    <3>2. \A t \in Targets : task[<<gen, t>>] \in {"none", "up", "down"}
      BY <2>1, <3>1 DEF GenerationsAreKept
    <3> QED BY <2>1, <3>2 DEF GenerationsAreKept
  <2>5. HealthyIsNeverDown'
    BY <2>1 DEF HealthyIsNeverDown
  <2> QED BY <2>1, <2>3, <2>4, <2>5, SettingsAreTyped DEF TypeOK
<1>7. CASE Record
  <2>1. todo' \subseteq todo /\ UNCHANGED <<cfg, pc, gen, task, sem>>
    BY <1>7 DEF Record
  <2> QED BY <2>1 DEF TypeOK, GenerationsAreKept, NoPermitIsLost, HealthyIsNeverDown,
                      Requesting, At
<1>8. CASE Finish \/ RecordRaises
  <2>1. task' = [c \in Checks |-> IF c[1] = gen THEN "none" ELSE task[c]]
        /\ pc = "record" /\ pc' = "idle" /\ todo' = {} /\ UNCHANGED <<cfg, gen, sem>>
    BY <1>8 DEF Finish, RecordRaises, EndCycle
  <2>2. \A c \in Checks : c[1] = gen => task[c] \in {"none", "up", "down"}
    BY <1>2, <2>1 DEF GenerationsAreKept
  <2>3. task' \in [Checks -> Stages]
    BY <2>1 DEF TypeOK, Stages
  <2>4. NoPermitIsLost' /\ sem' \in 0..cfg'.permits
    BY <1>1, <2>1, <2>2, <2>3, LoopKeepsRequests
  <2>5. GenerationsAreKept'
    <3>1. \A t \in Targets : task'[<<gen', t>>] = "none"
      BY <2>1 DEF TypeOK, Checks
    <3> QED BY <2>1, <3>1 DEF GenerationsAreKept
  <2>6. HealthyIsNeverDown'
    BY <2>1 DEF HealthyIsNeverDown
  <2> QED BY <2>1, <2>3, <2>4, <2>5, <2>6 DEF TypeOK
<1> QED BY <1>4, <1>5, <1>6, <1>7, <1>8 DEF LoopStep
-----------------------------------------------------------------------------
LEMMA PollInvInitially == Init => PollInv
<1> SUFFICES ASSUME Init PROVE PollInv
  OBVIOUS
<1>1. /\ cfg \in Settings /\ pc = "idle" /\ gen = 0 /\ sem = cfg.permits /\ todo = {}
      /\ task \in [Checks -> Stages] /\ \A c \in Checks : task[c] = "none"
  BY DEF Init, Stages
<1>2. TypeOK
  BY <1>1, SettingsAreTyped DEF TypeOK, Generations
<1>3. GenerationsAreKept
  BY <1>1, <1>2 DEF GenerationsAreKept, TypeOK, Checks
<1>4. NoPermitIsLost
  <2>1. Requesting = {}
    BY <1>1 DEF Requesting, At
  <2> QED BY <1>1, <2>1, FS_EmptySet, SettingsAreTyped DEF NoPermitIsLost
<1>5. HealthyIsNeverDown
  BY <1>1 DEF HealthyIsNeverDown
<1> QED BY <1>2, <1>3, <1>4, <1>5 DEF PollInv

\* The inductive invariant of the poll loop and its checks.
THEOREM PollInvariant == Spec => []PollInv
<1>1. PollInv /\ [Next]_vars => PollInv'
  <2>1. CASE UNCHANGED vars
    BY <2>1 DEF vars, PollInv, TypeOK, GenerationsAreKept, NoPermitIsLost,
                HealthyIsNeverDown, Requesting, At
  <2> QED BY <2>1, CheckStepIsKept, LoopIsKept DEF Next
<1> QED BY <1>1, PollInvInitially, PTL DEF Spec

\* Stages, results and the semaphore keep to their kinds in any setting.
THEOREM PollIsTyped == Spec => []TypeOK
<1>1. PollInv => TypeOK
  BY DEF PollInv
<1> QED BY <1>1, PollInvariant, PTL

\* However requests end (an answer, a failure, no connection in time) and whichever
\* cycle they belong to, each gives back the one permit it has taken.
THEOREM PermitsAreNeverLost == Spec => []NoPermitIsLost
<1>1. PollInv => NoPermitIsLost
  BY DEF PollInv
<1> QED BY <1>1, PollInvariant, PTL

\* polling.max_concurrent holds for the strays of aborted cycles and the checks of
\* the present one together.
THEOREM RequestsStayBounded == Spec => []RequestsAreBounded
<1>1. PollInv => RequestsAreBounded
  <2> SUFFICES ASSUME PollInv PROVE RequestsAreBounded
    OBVIOUS
  <2>1. sem \in Nat /\ cfg.permits \in Nat /\ sem + Cardinality(Requesting) = cfg.permits
    BY SettingsAreTyped DEF PollInv, TypeOK, NoPermitIsLost
  <2> QED BY <2>1, RequestsAreFinite DEF RequestsAreBounded
<1> QED BY <1>1, PollInvariant, PTL

\* Where the client has as many connections as there are permits, the pool makes no
\* service down that answers 200.
THEOREM HealthyStaysUp == Spec => []HealthyIsNeverDown
<1>1. PollInv => HealthyIsNeverDown
  BY DEF PollInv
<1> QED BY <1>1, PollInvariant, PTL
=============================================================================
