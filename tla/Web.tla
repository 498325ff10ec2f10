-------------------------------- MODULE Web --------------------------------
(***************************************************************************)
(* The web application (web/app.py, web/views.py) on the running           *)
(* aggregator: requests to POST /register from their arrival to the row,   *)
(* and a page (/ or /api/services) from its reads to its banner.  Each     *)
(* awaits worker threads between its steps, and polls, removals, prunes,   *)
(* other requests and the end of the process come between them.            *)
(*                                                                         *)
(* Abstractions.  A request begins when its body has been read: token,     *)
(* media type, size, JSON and fields are one decision.  check_target       *)
(* answers for the host of a key as the resolver pleases, each time anew.  *)
(* A client that stops waiting does not stop its request: sending it again *)
(* is another request.  One page is built at a time; last_response_ms      *)
(* (slow) is left out of the live status.  The window begins PageTime      *)
(* back, not at a midnight (module History has the days).  An upsert reads *)
(* the clock just before it takes the lock, here when it commits.          *)
(***************************************************************************)
EXTENDS Aggregator

CONSTANTS Requests,   \* bound: requests to register under way at once
          PageTime,   \* display.history_days
          Staleness   \* registration.staleness_seconds

ASSUME PageIsKept == PageTime \in Nat /\ PageTime <= Retention
ASSUME StalenessIsNatural == Staleness \in Nat

VARIABLES post,    \* each request: how far it is, and what it asks for
          vetted,  \* history: the keys check_target has allowed
          page     \* the page being built

webVars == <<post, vetted, page>>
allVars == <<vars, webVars>>

NoPost == [pc |-> "none", key |-> None, info |-> None]
NoPage == [pc |-> "none", at |-> None, rows |-> {}, events |-> {}, seen |-> {}]
-----------------------------------------------------------------------------
WebInit ==
  /\ Init
  /\ post = [q \in Requests |-> NoPost]
  /\ vetted = {}
  /\ page = NoPage

\* RegistrationIn: what a request may ask for once its fields are valid.
Asked == {[pc |-> "checking", key |-> key, info |-> info] : key \in Keys, info \in Infos}

\* A request is read and has passed the checks of its form.
Post(q) ==
  /\ proc = "running"
  /\ post[q].pc = "none"
  /\ \E asked \in Asked : post' = [post EXCEPT ![q] = asked]
  /\ UNCHANGED <<vars, vetted, page>>

\* 422: a host outside the networks or without an address; or the resolver raises.
\* Later the store may raise.
Refuse(q) ==
  /\ post[q].pc # "none"
  /\ post' = [post EXCEPT ![q] = NoPost]
  /\ UNCHANGED <<vars, vetted, page>>

\* Fault: the upsert does not wait for the answer of check_target.
ChecksEnded_Early == {"checking", "allowed"}
ChecksEnded == {"allowed"}

\* to_thread(check_target): every address lies in allowed_target_cidrs.
Allow(q) ==
  /\ post[q].pc = "checking"
  /\ post' = [post EXCEPT ![q].pc = "allowed"]
  /\ vetted' = vetted \cup {post[q].key}
  /\ UNCHANGED <<vars, page>>

\* Fault: any earlier time of the process would do for a registration.
RegisteredAt_Stale == IF cycle.at = None THEN now ELSE cycle.at
RegisteredAt == now

\* to_thread(upsert_registration); 201 or 200 is in its answer.
Upsert(q) ==
  /\ post[q].pc \in ChecksEnded
  /\ now <= RegisterUntil
  /\ UpsertRegistration(post[q].key, post[q].info, "register", RegisteredAt)
  /\ post' = [post EXCEPT ![q] = NoPost]
  /\ UNCHANGED <<now, procVars, historyVars, vetted, page>>

SelfRegister ==
  /\ proc = "running"
  /\ SelfKey # None
  /\ now <= RegisterUntil
  /\ \E info \in Infos : UpsertRegistration(SelfKey, info, "self", now)
  /\ UNCHANGED <<now, procVars, historyVars, webVars>>

\* load_views: now is taken first.
BeginPage ==
  /\ proc = "running"
  /\ page.pc = "none"
  /\ page' = [NoPage EXCEPT !.pc = "list", !.at = now]
  /\ UNCHANGED <<vars, post, vetted>>

ListRows ==
  /\ page.pc = "list"
  /\ page' = [page EXCEPT !.pc = "events", !.rows = services]
  /\ UNCHANGED <<vars, post, vetted>>

WindowStart == page.at - PageTime

\* events_since; seen is history, the rows at that time.
ReadEvents ==
  /\ page.pc = "events"
  /\ page' = [page EXCEPT !.pc = "before", !.seen = services,
                          !.events = {e \in events : e.at >= WindowStart}]
  /\ UNCHANGED <<vars, post, vetted>>

\* status_before: of each service the event with the largest id.
Before(id) ==
  LET past == {e \in events : e.svc = id /\ e.at < WindowStart}
  IN  {e \in past : \A d \in past : d.id <= e.id}

\* status_before is the last read; from it on the page is a pure function.
ShowPage ==
  /\ page.pc = "before"
  /\ page' = NoPage
  /\ UNCHANGED <<vars, post, vetted>>

\* The process ends with its requests and pages.
StopAll ==
  /\ Stop
  /\ post' = [q \in Requests |-> NoPost]
  /\ page' = NoPage
  /\ UNCHANGED vetted

RestOfProcess ==
  /\ \/ Tick \/ Start \/ MarkGap \/ Serve \/ RemoveCommand \/ Prune
     \/ BeginCycle \/ EndChecks \/ RecordResult \/ FinishCycle \/ CycleFails
  /\ UNCHANGED webVars

WebNext ==
  \/ RestOfProcess \/ StopAll \/ SelfRegister
  \/ \E q \in Requests : Post(q) \/ Refuse(q) \/ Allow(q) \/ Upsert(q)
  \/ BeginPage \/ ListRows \/ ReadEvents \/ ShowPage

WebSpec == WebInit /\ [][WebNext]_allVars
-----------------------------------------------------------------------------
\* Fault: the page shows what was stored up to its last second.
Drawn_Now(e) == e.at <= page.at
\* build_history draws the events before the page's now.
Drawn(e) == e.at < page.at

DrawnOf(r) == {e \in page.events : e.svc = r.id /\ Drawn(e)}

\* The status at the right end of a row's strip.
StripEnd(r) ==
  LET before == Before(r.id)
  IN  IF DrawnOf(r) # {}
        THEN (CHOOSE e \in DrawnOf(r) :
                \A d \in DrawnOf(r) : d.at < e.at \/ (d.at = e.at /\ d.id <= e.id)).to
        ELSE IF before # {} THEN (CHOOSE e \in before : TRUE).to ELSE "unknown"

IsStale(r) == page.at - r.last > Staleness

\* ServiceView.live and banner.
Live(r) == IF r.status = "up" /\ IsStale(r) THEN "degraded" ELSE r.status

\* Fault: unknown services do not count.
Banner_KnownOnly(states) ==
  CASE states = {} -> "none"
    [] "down" \in states -> "bad"
    [] "down" \notin states /\ "degraded" \in states -> "warn"
    [] OTHER -> "ok"
Banner(states) ==
  CASE states = {} -> "none"
    [] "down" \in states -> "bad"
    [] "down" \notin states /\ states \cap {"degraded", "unknown"} # {} -> "warn"
    [] OTHER -> "ok"

BannerShown == Banner({Live(r) : r \in page.rows})

\* The status of row r did not change from the first read to the last, it is older
\* than the page, and its event has not been pruned.
Settled(r) ==
  /\ \A rows \in {page.seen, services} : \E s \in rows :
       /\ s.id = r.id /\ s.key = r.key /\ s.first = r.first
       /\ s.status = r.status /\ s.change = r.change
  /\ r.change # None => r.change < page.at /\ r.change >= horizon

\* /register stores a service only after check_target allowed its host, whatever
\* was refused, sent again or removed, and whenever the process ended meanwhile.
RowsWereVetted ==
  \A r \in services : r.source = "register" => r.key \in vetted

\* Rows and events are read at different times and freed ids return: a strip
\* never shows what happened to another service that got the row's id since.
PageShowsOwnHistory ==
  [][ShowPage => \A r \in page.rows :
       (\E s \in page.seen : s.id = r.id /\ s.key # r.key) => DrawnOf(r) = {}]_page

\* The banner is made from the rows, the strips from the log: where nothing came
\* between the reads they say the same.
BannerMatchesStrips ==
  [][ShowPage =>
       LET ends == {StripEnd(r) : r \in {s \in page.rows : Settled(s)}}
       IN  /\ BannerShown = "ok" => ends \subseteq {"up"}
           /\ "down" \in ends => BannerShown = "bad"
           /\ "unknown" \in ends => BannerShown \in {"warn", "bad"}]_page
=============================================================================
