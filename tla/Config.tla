------------------------------- MODULE Config -------------------------------
(***************************************************************************)
(* Loading the configuration (config.py): the problems load_config         *)
(* collects in a file, and the settings it hands on when there are none.   *)
(*                                                                         *)
(* Abstractions.  A file gives every key a value, Absent or Mistyped;      *)
(* stray stands for unknown tables and keys and a missing or broken file.  *)
(* Numbers are whole, a float above zero is at least one; beside them Nan, *)
(* TOML's nan, for which every comparison is false.  Of an address, a      *)
(* path, a zone, a level, a network and a token only the kind is kept that *)
(* the loader or the host tells apart.  A problem is the key it names.     *)
(***************************************************************************)
EXTENDS Integers

CONSTANTS Absent, Mistyped,          \* what _Reader.get finds instead of a value
          Nan,                       \* the float that is not a number
          MinInterval, MaxInterval,  \* MIN_INTERVAL_SECONDS and MAX_INTERVAL_SECONDS
          DefaultInterval, DefaultTimeout

ASSUME NanIsNoNumber == Nan \notin Int

ASSUME IntervalsArePositive ==
  /\ MinInterval \in Nat \ {0}
  /\ MaxInterval \in Nat
  /\ DefaultInterval \in MinInterval..MaxInterval
  /\ DefaultTimeout \in 1..(DefaultInterval - 1)

Defaults ==
  [bind |-> "auto", port |-> 8720,
   db_path |-> "usable",
   interval_seconds |-> DefaultInterval, timeout_seconds |-> DefaultTimeout,
   max_concurrent |-> 10,
   staleness_seconds |-> 900, require_token |-> TRUE, register_self |-> TRUE,
   self_register_interval_seconds |-> 300, allowed_target_cidrs |-> {"network"},
   retention_days |-> 90,
   history_days |-> 90, timezone |-> "known", major_outage_minutes |-> 30,
   degraded_response_ms |-> 1000,
   path |-> "usable", level |-> "known", max_bytes |-> 5 * 1024 * 1024,
   backup_count |-> 5]

Options == DOMAIN Defaults

Ports == 1..65535

\* The keys read as float(...), an int or a float in the file.
Floats ==
  {"interval_seconds", "timeout_seconds", "staleness_seconds", "self_register_interval_seconds",
   "major_outage_minutes", "degraded_response_ms"}

\* What the checks of each key let pass, taken for itself.  bind is an address ("explicit"),
\* the address of all interfaces as FORBIDDEN_BINDS spells it ("wildcard") or in another
\* spelling such as ::0 ("disguised"), a name or something else.  Paths are usable when
\* absolute and writable.  A check "x <= 0" does not find nan, one "min <= x <= max" does.
Allowed(k) ==
  CASE k = "bind" -> {"auto", "tailscale", "explicit", "disguised"}
    [] k = "port" -> Ports
    [] k = "interval_seconds" -> MinInterval..MaxInterval
    [] k \in Floats \ {"interval_seconds"} -> {Nan} \cup (Nat \ {0})
    [] k = "history_days" -> 1..365
    [] k = "max_bytes" -> {n \in Nat : n >= 65536}
    [] k \in {"db_path", "path"} -> {"usable"}
    [] k \in {"timezone", "level"} -> {"known"}
    [] k \in {"require_token", "register_self"} -> BOOLEAN
    [] k = "allowed_target_cidrs" -> SUBSET {"network"}
    [] OTHER -> Nat \ {0}

\* A file: its keys, unknown keys or not, and the token beside it ("none", "short"
\* or "long"), which comes from the credential or the environment.
Read(file, k) == IF file.keys[k] \in {Absent, Mistyped} THEN Defaults[k] ELSE file.keys[k]

MistypedKeys(file) == {k \in Options : file.keys[k] = Mistyped}
OutOfRange(file) == {k \in Options : Read(file, k) \notin Allowed(k)}

\* Comparisons of interval and timeout are false if one of them is nan.
AreNumbers(file) ==
  Nan \notin {Read(file, "interval_seconds"), Read(file, "timeout_seconds")}

\* Fault: a timeout as long as the interval.
TimeoutTooLong_Equal(file) ==
  /\ AreNumbers(file)
  /\ Read(file, "timeout_seconds") > 0
  /\ Read(file, "timeout_seconds") > Read(file, "interval_seconds")
TimeoutTooLong(file) ==
  /\ AreNumbers(file)
  /\ Read(file, "interval_seconds") > 0
  /\ Read(file, "timeout_seconds") > 0
  /\ Read(file, "timeout_seconds") >= Read(file, "interval_seconds")

HistoryTooLong(file) ==
  /\ Read(file, "history_days") \in Allowed("history_days")
  /\ Read(file, "history_days") > Read(file, "retention_days")

\* Sections are read in order: what has been found when the networks are counted.
ReadBeforeNetworks ==
  {"bind", "port", "db_path", "interval_seconds", "timeout_seconds", "max_concurrent",
   "allowed_target_cidrs"}

FoundBeforeNetworks(file) ==
  \/ file.stray
  \/ TimeoutTooLong(file)
  \/ OutOfRange(file) \cap ReadBeforeNetworks # {}
  \/ MistypedKeys(file) \cap
       (ReadBeforeNetworks \cup {"staleness_seconds", "require_token", "register_self",
                                 "self_register_interval_seconds"}) # {}

\* An empty list is a problem, but only the first one.
NoNetworkFound(file) ==
  /\ Read(file, "allowed_target_cidrs") = {}
  /\ ~FoundBeforeNetworks(file)

\* A short token is refused and then counts as none.
Token(file) == IF file.token = "long" THEN "long" ELSE "none"
TokenIsMissing(file) == Read(file, "require_token") /\ Token(file) = "none"

Problems(file) ==
  MistypedKeys(file) \cup OutOfRange(file)
    \cup {k \in {"stray"} : file.stray}
    \cup {k \in {"timeout_seconds"} : TimeoutTooLong(file)}
    \cup {k \in {"history_days"} : HistoryTooLong(file)}
    \cup {k \in {"allowed_target_cidrs"} : NoNetworkFound(file)}
    \cup {k \in {"token"} : file.token = "short" \/ TokenIsMissing(file)}

Settings(file) == [k \in Options |-> Read(file, k)]
-----------------------------------------------------------------------------
\* What the documents ask of a configuration that the service starts with, key by key
\* (PLAN.md:350-353, README.md:62, config.example.toml).
Kept(k, s, token) ==
  CASE k = "bind" -> s.bind \in {"auto", "tailscale", "explicit"}
    [] k = "port" -> s.port \in Ports
    [] k = "interval_seconds" -> s.interval_seconds \in MinInterval..MaxInterval
    [] k = "timeout_seconds" -> s.timeout_seconds \in 1..(s.interval_seconds - 1)
    [] k = "self_register_interval_seconds" -> s.self_register_interval_seconds \in Nat \ {0}
    [] k = "max_concurrent" -> s.max_concurrent \in Nat \ {0}
    [] k = "history_days" -> s.history_days \in 1..s.retention_days
    [] k = "allowed_target_cidrs" -> s.allowed_target_cidrs = {"network"}
    [] k = "require_token" -> s.require_token => token = "long"
    [] k \in {"db_path", "path"} -> s[k] = "usable"
    [] OTHER -> TRUE

\* The two ways past the checks, against these documents: nan, and a spelling of the
\* wildcard that FORBIDDEN_BINDS does not list.
Evades(s, k) ==
  \/ k \in Floats \ {"interval_seconds"} /\ s[k] = Nan
  \/ k = "bind" /\ s.bind = "disguised"
=============================================================================
