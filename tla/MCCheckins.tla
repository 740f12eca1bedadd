----------------------------- MODULE MCCheckins -----------------------------
EXTENDS Checkins, TLC

\* Ids and workers are interchangeable; the choice of a new alert is not read again.
Interchangeable == Permutations(Thread)
=============================================================================
