----------------------------- MODULE MCStoreTx -----------------------------
\* Three threads and one other process on a database of one service.
EXTENDS StoreTx

OneKey == {1}
=============================================================================
