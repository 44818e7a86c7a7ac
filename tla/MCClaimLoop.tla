------------------------------ MODULE MCClaimLoop ------------------------------
(* Instances of ClaimLoop: a small operator that holds one request at a    *)
(* time and a large one, requests of different shapes.                     *)
EXTENDS ClaimLoop

MCOperators == {"small", "large"}

MCResources == {"cpu", "mem"}

MCAllocatable == [small |-> [cpu |-> 1, mem |-> 1], large |-> [cpu |-> 1, mem |-> 2]]

\* One request more than a tick takes; only the large operator has room for
\* the first, both for the second, the third's config is invalid.
QueueRequests == 1..3

QueueDemand == [r \in QueueRequests |-> [cpu |-> 1, mem |-> IF r = 1 THEN 2 ELSE 1]]

QueueKnown == [small |-> QueueRequests, large |-> QueueRequests]

\* Each operator's catalog lacks one template in the requested version.
QueueCompatible == [small |-> {2, 3}, large |-> {1, 2}]

\* maxClaimsPerTick requests that fit nowhere ahead of one that fits.
LongRequests == 1..6

LongDemand == [r \in LongRequests |-> [cpu |-> 1, mem |-> IF r < 6 THEN 3 ELSE 1]]

LongKnown == [small |-> LongRequests, large |-> LongRequests]

================================================================================
