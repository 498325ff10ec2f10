---------------------------- MODULE MCHealthcheck ----------------------------
\* One file: all defaults, which bind what is found ("auto").
EXTENDS Healthcheck

DefaultFile == {[keys |-> Defaults, token |-> "long", stray |-> FALSE]}
=============================================================================
