----------------------------- MODULE MC_Monitor -----------------------------
EXTENDS Monitor

\* Requests of one or two units on a node whose limit is three units: two
\* files of two units do not fit together, one of each does.
MCSizes == {1, 2}
=============================================================================
