---------------------------- MODULE MCAggregator ----------------------------
\* The aggregator with one or two services and a clock that counts intervals.
EXTENDS Aggregator

OneKey == {1}
TwoKeys == {1, 2}
=============================================================================
