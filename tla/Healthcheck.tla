----------------------------- MODULE Healthcheck -----------------------------
(***************************************************************************)
(* The command "healthcheck" (runtime.py: cmd_healthcheck), another        *)
(* process that reads the same file, resolves the address for itself and   *)
(* asks GET /health (app.py) of the one that serves.                       *)
(*                                                                         *)
(* Abstractions.  The database answers and its directory stays writable,   *)
(* so that /health tells the state of the poller.  The network is kind: an *)
(* address that was there at the start stays.                              *)
(***************************************************************************)
EXTENDS Service

VARIABLES asked,  \* the kind of address the command asks: "none" when none runs
          setting, \* server.bind of the process that is running
          bound    \* the kind of address it has bound, or is going to

checkVars == <<vars, asked, setting, bound>>

CheckInit == Init /\ asked = "none" /\ setting = "none" /\ bound = "none"

\* Service forgets both once they guide no step of it; the file and the socket do not.
Follow ==
  /\ setting' = IF main' = "off" THEN "none" ELSE IF bind' # "none" THEN bind' ELSE setting
  /\ bound' = IF main' = "off" THEN "none" ELSE IF addr' # "none" THEN addr' ELSE bound

\* resolve_bind with one attempt: auto finds Tailscale's address also when the start
\* had to fall back to 127.0.0.1.
MayAsk == {bound} \cup {kind \in {"tailscale"} : setting = "auto"}

Ask ==
  /\ main = "serving"
  /\ asked = "none"
  /\ asked' \in MayAsk
  /\ UNCHANGED <<vars, setting, bound>>

\* The server answers on the address it has bound, as soon as its loop is free.
Answered == main = "serving" /\ asked = bound /\ ~blocked

\* 200 is exit 0; 503, no connection and no answer in five seconds are exit 1.
Succeed ==
  /\ Answered /\ Healthy
  /\ asked' = "none"
  /\ UNCHANGED <<vars, setting, bound>>

Fail ==
  /\ asked # "none"
  /\ ~(Answered /\ Healthy)
  /\ asked' = "none"
  /\ UNCHANGED <<vars, setting, bound>>

CheckNext == (Next /\ Follow /\ UNCHANGED asked) \/ Ask \/ Succeed \/ Fail

CheckSpec == CheckInit /\ [][CheckNext]_checkVars
-----------------------------------------------------------------------------
\* README.md:211, healthcheck asks "on the resolved bind; exit 0 if ok".  It does
\* not fail while the process serves, on an address of the kind its file allows,
\* with a free loop and a poller in time.
HealthcheckIsRight ==
  [][Fail => ~(main = "serving" /\ ~blocked /\ Healthy)]_checkVars
=============================================================================
