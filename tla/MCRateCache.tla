----------------------------- MODULE MCRateCache -----------------------------
(* RateCache on a small instance.  Rates 30 and 33 are within 10% of each    *)
(* other either way, the first exactly on the limit; 40 is close to neither. *)
(* Either both jobs run, or one job and the lookups of two requests.         *)
EXTENDS RateCache

CONSTANTS daily, backfill, q1, q2, USD, PEN

MCDay == 1 .. 3
MCRate == {30, 33, 40}
MCDaily == {daily}
MCBackfill == {backfill}
MCReader == {q1, q2}
MCKey == {[from |-> PEN, to |-> USD, as_of |-> 2]}
MCSeeds == {t \in RateTables : Cardinality(Stored(t)) <= 1}
MCScenes == {{daily, backfill}, {daily, "lookups"}}
=============================================================================
