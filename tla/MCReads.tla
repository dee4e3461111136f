------------------------------ MODULE MCReads ------------------------------
\* A small store for TLC: three requests, two of them received at once.
EXTENDS ObservationReads

MCAt == [r \in Request |-> IF r = 3 THEN 1 ELSE 0]

=============================================================================
