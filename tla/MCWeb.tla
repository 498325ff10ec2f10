------------------------------- MODULE MCWeb -------------------------------
\* Requests and a page beside a process that watches two services.
EXTENDS Web

TwoKeys == {1, 2}
=============================================================================
