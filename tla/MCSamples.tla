------------------------------ MODULE MCSamples ------------------------------
\* Samples for TLC: a level of two seconds and one of four.
EXTENDS Samples

Seconds == <<2, 4>>
=============================================================================
