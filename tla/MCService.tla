----------------------------- MODULE MCService -----------------------------
\* The files an operator may have written.
EXTENDS Service

\* Values beside the default: at the limits, beyond them, and of every kind.
Others ==
  [bind |-> {"tailscale", "explicit", "wildcard", "disguised"}, port |-> {0, 65535, 65536},
   db_path |-> {"missing"},
   interval_seconds |-> {MinInterval - 1, MinInterval, MaxInterval, MaxInterval + 1, Nan},
   timeout_seconds |-> {0, DefaultInterval, MaxInterval, Nan},
   max_concurrent |-> {0},
   staleness_seconds |-> {0, Nan}, require_token |-> {FALSE}, register_self |-> {FALSE},
   self_register_interval_seconds |-> {0, Nan},
   allowed_target_cidrs |-> {{}, {"everything"}, {"network", "garbled"}},
   retention_days |-> {0, 30, 365},
   history_days |-> {0, 365, 366}, timezone |-> {"unknown"},
   major_outage_minutes |-> {0, Nan}, degraded_response_ms |-> {0, Nan},
   path |-> {"relative"}, level |-> {"unknown"}, max_bytes |-> {65535}, backup_count |-> {0}]

Valid == [keys |-> Defaults, token |-> "long", stray |-> FALSE]

Edited(f, ks) ==
  UNION {{[f EXCEPT !.keys[k] = v] : v \in Others[k] \cup {Absent, Mistyped}} : k \in ks}
    \cup {[f EXCEPT !.token = t] : t \in {"none", "short"}}

\* The keys that are compared with each other, or with the token.
Related ==
  {"interval_seconds", "timeout_seconds", "retention_days", "history_days",
   "require_token", "allowed_target_cidrs"}

\* One mistake anywhere, two among what is compared.
Mistakes ==
  Edited(Valid, Options) \cup {[Valid EXCEPT !.stray = TRUE]}
    \cup UNION {Edited(f, Related) : f \in Edited(Valid, Related)}
=============================================================================
