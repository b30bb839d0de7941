------------------------------ MODULE MCFleet -------------------------------
EXTENDS Fleet

\* Two replicas of one spec; room for one container on the first host.
Caps    == [h \in 1..N |-> IF h = 1 THEN 1 ELSE 2]
Weights == [h \in 1..N |-> h]
Owner   == [r \in Replicas |-> "app"]
=============================================================================
